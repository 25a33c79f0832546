------------------------- MODULE FeatureWorkersProofs -------------------------
(***************************************************************************)
(* Theorems about FeatureWorkers for any number of features, processes,    *)
(* messages and retries: type correctness, the ownership of sockets, one   *)
(* worker per feature, and the implementation of WorkerChannel.            *)
(***************************************************************************)
EXTENDS FeatureWorkers, SequenceTheorems, FiniteSetTheorems, TLAPS

-----------------------------------------------------------------------------
(* Sequences                                                               *)

\* A sequence is a prefix of what it becomes when something is appended to it.
LEMMA PrefixOfConcat ==
  ASSUME NEW S, NEW s \in Seq(S), NEW t \in Seq(S)
  PROVE  IsPrefix(s, s \o t) /\ (t # <<>> => IsStrictPrefix(s, s \o t))
<1>1. s \o t \in Seq(S) /\ Len(s \o t) = Len(s) + Len(t)
  BY ConcatProperties
<1>2. Len(s) \in Nat /\ Len(t) \in Nat
  BY LenProperties
<1>3. SubSeq(s \o t, 1, Len(s)) = SubSeq(s, 1, Len(s))
  <2>1. CASE Len(s) = 0
    BY <2>1, SubSeqEmpty
  <2>2. CASE Len(s) # 0
    BY <2>2, <1>2, SubSeqOfConcat1
  <2> QED
    BY <2>1, <2>2
<1>4. t # <<>> => s # s \o t
  BY ConcatEqualIffEmpty
<1> QED
  BY <1>1, <1>2, <1>3, <1>4 DEF IsPrefix, IsStrictPrefix

\* A prefix of a sequence is one of every longer sequence.
LEMMA PrefixOfAppend ==
  ASSUME NEW S, NEW s \in Seq(S), NEW t \in Seq(S), NEW e \in S, IsPrefix(s, t)
  PROVE  IsPrefix(s, Append(t, e))
<1>1. /\ Append(t, e) \in Seq(S)
      /\ Len(Append(t, e)) = Len(t) + 1
      /\ Append(t, e) = t \o <<e>>
      /\ <<e>> \in Seq(S)
  BY AppendProperties, AppendIsConcat
<1>2. Len(s) \in Nat /\ Len(t) \in Nat /\ Len(s) <= Len(t)
  BY LenProperties DEF IsPrefix
<1>3. SubSeq(Append(t, e), 1, Len(s)) = SubSeq(t, 1, Len(s))
  <2>1. CASE Len(s) = 0
    BY <2>1, SubSeqEmpty
  <2>2. CASE Len(s) # 0
    BY <2>2, <1>1, <1>2, SubSeqOfConcat1
  <2> QED
    BY <2>1, <2>2
<1> QED
  BY <1>1, <1>2, <1>3 DEF IsPrefix

\* What is appended to the last part is appended to the whole.
LEMMA AppendToConcat ==
  ASSUME NEW S, NEW s \in Seq(S), NEW t \in Seq(S), NEW e \in S
  PROVE  s \o Append(t, e) = Append(s \o t, e)
<1>1. <<e>> \in Seq(S) /\ s \o t \in Seq(S)
  BY ConcatProperties
<1> QED
  BY <1>1, AppendIsConcat, ConcatAssociative

\* Moving the middle part to the first one leaves the whole as it is.
LEMMA ConcatRegroup ==
  ASSUME NEW S, NEW s \in Seq(S), NEW t \in Seq(S), NEW u \in Seq(S)
  PROVE  /\ s \o t \in Seq(S)
         /\ s \o (t \o u) = (s \o t) \o (<<>> \o u)
         /\ IsPrefix(s \o t, s \o (t \o u))
<1>1. s \o t \in Seq(S) /\ <<>> \o u = u
  BY ConcatProperties, ConcatEmptySeq
<1>2. (s \o t) \o u = s \o (t \o u)
  BY ConcatAssociative
<1>3. IsPrefix(s \o t, (s \o t) \o u)
  BY <1>1, PrefixOfConcat
<1> QED
  BY <1>1, <1>2, <1>3

-----------------------------------------------------------------------------
(* Type correctness                                                        *)

LEMMA TypeInit == Init => TypeOK
<1> SUFFICES ASSUME Init
             PROVE  TypeOK
  OBVIOUS
<1>1. (CHOOSE f \in Features : TRUE) \in Features
  BY FeatureWorkersAssumption
<1>2. <<>> \in Seq(Message)
  BY EmptySeq
<1> QED
  BY <1>1, <1>2, FeatureWorkersAssumption
  DEF Init, TypeOK, ManagerTypeOK, ProcessTypeOK, EnvironmentTypeOK, Life, Link

\* What stopping a worker does to the types of connections and timers.
LEMMA StopTypes ==
  ASSUME TypeOK, NEW f \in Features
  PROVE  /\ closedBy(f) \in [Processes -> Link]
         /\ killedBy(f) \subseteq Processes
<1>1. socket[f] # NoProcess => socket[f] \in Processes
  BY DEF TypeOK, ManagerTypeOK
<1>2. process[f] # NoProcess => process[f] \in Processes
  BY DEF TypeOK, ManagerTypeOK
<1> QED
  BY <1>1, <1>2 DEF TypeOK, ManagerTypeOK, ProcessTypeOK, closedBy, killedBy, Connected, Link

LEMMA StopWorkerTypes ==
  ASSUME TypeOK, NEW f \in Features, stopWorker(f)
  PROVE  /\ running' \subseteq Features
         /\ socket' \in [Features -> Processes \cup {NoProcess}]
         /\ process' \in [Features -> Processes \cup {NoProcess}]
         /\ pending' \in [Features -> Seq(Message)]
         /\ accepted' \in [Features -> Seq(Message)]
         /\ made' \in [Features -> Processes \cup {NoProcess}]
         /\ forsaken' \subseteq Processes
         /\ link' \in [Processes -> Link]
         /\ killTimer' \subseteq Processes
<1>1. <<>> \in Seq(Message)
  BY EmptySeq
<1> QED
  BY <1>1, StopTypes DEF TypeOK, ManagerTypeOK, EnvironmentTypeOK, stopWorker, forsakenBy

LEMMA StartWorkerTypes ==
  ASSUME TypeOK, NEW f \in Features, NEW messages \in Seq(Message), startWorker(f, messages)
  PROVE  /\ running' \subseteq Features
         /\ socket' \in [Features -> Processes \cup {NoProcess}]
         /\ process' \in [Features -> Processes \cup {NoProcess}]
         /\ pending' \in [Features -> Seq(Message)]
         /\ accepted' \in [Features -> Seq(Message)]
         /\ made' \in [Features -> Processes \cup {NoProcess}]
         /\ forsaken' \subseteq Processes
         /\ link' \in [Processes -> Link]
         /\ killTimer' \subseteq Processes
         /\ life' \in [Processes -> Life]
         /\ feature' \in [Processes -> Features]
         /\ retries' \in [Features -> 0..MaxRetries]
<1>1. CASE retries' = [retries EXCEPT ![f] = @ + 1] /\ UNCHANGED <<life, feature>>
           /\ retries[f] < MaxRetries /\ stopWorker(f)
  <2>1. retries[f] \in 0..MaxRetries /\ MaxRetries \in Nat
    BY FeatureWorkersAssumption DEF TypeOK, ManagerTypeOK
  <2>2. retries[f] + 1 \in 0..MaxRetries
    BY <1>1, <2>1
  <2> QED
    BY <1>1, <2>2, StopWorkerTypes DEF TypeOK, ManagerTypeOK, ProcessTypeOK
<1>2. CASE /\ UNCHANGED retries
           /\ \E p \in Processes :
                /\ life[p] = "unused"
                /\ life' = [life EXCEPT ![p] = "starting"]
                /\ feature' = [feature EXCEPT ![p] = f]
                /\ process' = [process EXCEPT
                     ![f] = IF f \in ManagedFeatures THEN p ELSE NoProcess]
                /\ made' = [made EXCEPT ![f] = p]
           /\ forsaken' = forsakenBy({f})
           /\ running' = running \cup {f}
           /\ socket' = [socket EXCEPT ![f] = NoProcess]
           /\ pending' = [pending EXCEPT ![f] = messages]
           /\ accepted' = [accepted EXCEPT ![f] = messages]
           /\ link' = closedBy(f)
           /\ killTimer' = killedBy(f)
  BY <1>2, StopTypes DEF TypeOK, ManagerTypeOK, ProcessTypeOK, EnvironmentTypeOK, Life, forsakenBy
<1> QED
  BY <1>1, <1>2 DEF startWorker

LEMMA TypeStep == TypeOK /\ [Next]_vars => TypeOK'
<1> SUFFICES ASSUME TypeOK, [Next]_vars
             PROVE  TypeOK'
  OBVIOUS
<1> USE DEF TypeOK, ManagerTypeOK, ProcessTypeOK, EnvironmentTypeOK
<1>1. ASSUME NEW f \in Features, handleFeatureMessage(f)
      PROVE  TypeOK'
  <2>1. sent' \in 0..MaxMessages /\ sent' \in Message /\ <<sent'>> \in Seq(Message)
    BY <1>1, FeatureWorkersAssumption DEF handleFeatureMessage, Message
  <2>2. CASE f \in running
    <3>1. Append(pending[f], sent') \in Seq(Message) /\ Append(accepted[f], sent') \in Seq(Message)
      BY <2>1, AppendProperties
    <3> QED
      BY <1>1, <2>1, <2>2, <3>1 DEF handleFeatureMessage
  <2>3. CASE f \notin running
    BY <1>1, <2>1, <2>3, StartWorkerTypes DEF handleFeatureMessage
  <2> QED
    BY <2>2, <2>3
<1>2. ASSUME NEW f \in Features, restartWorker(f)
      PROVE  TypeOK'
  <2>1. sent' \in 0..MaxMessages /\ <<sent'>> \in Seq(Message)
    BY <1>2, FeatureWorkersAssumption DEF restartWorker, Message
  <2> QED
    BY <1>2, <2>1, StartWorkerTypes DEF restartWorker
<1>3. ASSUME NEW f \in Features, retryStart(f)
      PROVE  TypeOK'
  <2>1. retries[f] \in 0..MaxRetries /\ MaxRetries \in Nat /\ retries[f] > 0
    BY <1>3, FeatureWorkersAssumption DEF retryStart
  <2>2. retries[f] - 1 \in 0..MaxRetries
    BY <2>1
  <2>3. <<>> \in Seq(Message)
    BY EmptySeq
  <2>4. CASE session
    <3>1. PICK p \in Processes :
            /\ life' = [life EXCEPT ![p] = "starting"]
            /\ feature' = [feature EXCEPT ![p] = f]
            /\ made' = [made EXCEPT ![f] = p]
      BY <1>3, <2>4 DEF retryStart
    <3>2. /\ retries' = [retries EXCEPT ![f] = @ - 1]
          /\ running' = running \cup {f}
          /\ socket' = [socket EXCEPT ![f] = NoProcess]
          /\ pending' = [pending EXCEPT ![f] = <<>>]
          /\ accepted' = [accepted EXCEPT ![f] = <<>>]
          /\ link' = closedBy(f)
          /\ forsaken' = forsakenBy({f})
          /\ UNCHANGED <<process, killTimer, listening, hello, wire, received, session, sent>>
      BY <1>3, <2>4 DEF retryStart
    <3>3. ManagerTypeOK'
      BY <2>2, <2>3, <3>2
    <3>4. ProcessTypeOK'
      BY <3>1, <3>2, StopTypes DEF Life
    <3>5. EnvironmentTypeOK'
      BY <2>3, <3>1, <3>2 DEF forsakenBy
    <3> QED
      BY <3>3, <3>4, <3>5
  <2>5. CASE ~ session
    BY <1>3, <2>5, StopWorkerTypes DEF retryStart
  <2> QED
    BY <2>4, <2>5
<1>4. ASSUME NEW f \in Features, stop(f)
      PROVE  TypeOK'
  BY <1>4, StopWorkerTypes DEF stop
<1>5. ASSUME NEW p \in Processes, processConnection(p)
      PROVE  TypeOK'
  BY <1>5 DEF processConnection, historyVars, adoptedSocket
<1>6. ASSUME NEW p \in Processes, closeConnection(p)
      PROVE  TypeOK'
  <2>1. <<>> \in Seq(Message)
    BY EmptySeq
  <2> QED
    BY <1>6, <2>1 DEF closeConnection, Link, forsakenBy
<1>7. ASSUME NEW p \in Processes, killTimeout(p)
      PROVE  TypeOK'
  <2>1. <<>> \in Seq(Message)
    BY EmptySeq
  <2> QED
    BY <1>7, <2>1 DEF killTimeout, historyVars, Life, Link
<1>8. ASSUME NEW p \in Processes, sendInitMessage(p)
      PROVE  TypeOK'
  BY <1>8 DEF sendInitMessage, historyVars, managerVars, Life, Link
<1>9. ASSUME NEW p \in Processes, receiveMessage(p)
      PROVE  TypeOK'
  <2>1. <<>> \in Seq(Message) /\ received[p] \o wire[p] \in Seq(Message)
    BY EmptySeq, ConcatProperties
  <2> QED
    BY <1>9, <2>1 DEF receiveMessage, historyVars, managerVars, batch
<1>10. ASSUME NEW p \in Processes, quit(p)
       PROVE  TypeOK'
  <2>1. <<>> \in Seq(Message)
    BY EmptySeq
  <2> QED
    BY <1>10, <2>1 DEF quit, historyVars, Life, Link
<1>11. CASE sendPendingMessages
  <2>1. <<>> \in Seq(Message)
    BY EmptySeq
  <2>2. \A p \in Processes : wire[p] \o pending[feature[p]] \in Seq(Message)
    BY ConcatProperties
  <2> QED
    BY <1>11, <2>1, <2>2 DEF sendPendingMessages, historyVars, remaining
<1>12. CASE shutdown
  <2>1. <<>> \in Seq(Message) /\ 0 \in 0..MaxRetries
    BY EmptySeq, FeatureWorkersAssumption
  <2>2. ManagerTypeOK'
    BY <1>12, <2>1 DEF shutdown
  <2>3. ProcessTypeOK'
    BY <1>12 DEF shutdown, Link
  <2>4. EnvironmentTypeOK'
    BY <1>12, <2>1 DEF shutdown, forsakenBy
  <2> QED
    BY <2>2, <2>3, <2>4
<1>13. CASE changeSession
  BY <1>13 DEF changeSession, historyVars, managerVars, processVars
<1>14. CASE UNCHANGED vars
  BY <1>14 DEF vars, historyVars, managerVars, processVars
<1> QED
  BY <1>1, <1>2, <1>3, <1>4, <1>5, <1>6, <1>7, <1>8, <1>9, <1>10, <1>11, <1>12, <1>13, <1>14
  DEF Next, FeatureStep, ProcessStep

\* Every state of the manager and its workers is well typed.
THEOREM TypeCorrect == Spec => []TypeOK
  BY TypeInit, TypeStep, PTL DEF Spec

-----------------------------------------------------------------------------
(* The inductive invariant                                                 *)

\* A process whose init message the manager has not read.
Unintroduced(p) == life[p] \in {"unused", "starting"} \/ p \in hello

\* What connections and timers tell about a process.
ProcessInv ==
  \A p \in Processes :
    /\ life[p] \in {"unused", "starting"} => link[p] = "none" /\ p \notin hello
    /\ Unintroduced(p) => received[p] = <<>> /\ wire[p] = <<>>
    /\ p \in killTimer => life[p] \in {"starting", "alive"}
    /\ link[p] = "closedByWorker" => life[p] = "ended"
    /\ p \in hello /\ listening => link[p] \in {"up", "closedByWorker"}

\* The entry's socket is an open connection of a process of that feature that has
\* introduced itself.
EntrySocket(f) ==
  socket[f] # NoProcess =>
    /\ f \in running
    /\ feature[socket[f]] = f
    /\ ~ Unintroduced(socket[f])
    /\ link[socket[f]] \in {"up", "closedByWorker"}

SocketInv == \A f \in Features : EntrySocket(f)

\* Accepted messages are handled, on the way or pending, in this order.
EntryMessages(f) ==
  /\ f \notin running => accepted[f] = <<>>
  /\ socket[f] = NoProcess => pending[f] = accepted[f]
  /\ socket[f] # NoProcess =>
       /\ IsPrefix(received[socket[f]], accepted[f])
       /\ life[socket[f]] = "alive" =>
            accepted[f] = received[socket[f]] \o (wire[socket[f]] \o pending[f])

MessageInv == \A f \in Features : EntryMessages(f)

ManagerInv ==
  /\ \A f \in Features : process[f] # NoProcess => life[process[f]] # "unused"
  /\ ~ listening => running = {}

Inv == ProcessInv /\ SocketInv /\ MessageInv /\ ManagerInv

LEMMA InvInit == Init => Inv
<1> SUFFICES ASSUME Init
             PROVE  Inv
  OBVIOUS
<1>1. \A p \in Processes : life[p] = "unused" /\ link[p] = "none" /\ received[p] = <<>> /\ wire[p] = <<>>
  BY DEF Init
<1>2. \A f \in Features : socket[f] = NoProcess /\ pending[f] = <<>> /\ accepted[f] = <<>>
                          /\ process[f] = NoProcess
  BY DEF Init
<1>3. ProcessInv
  BY <1>1 DEF ProcessInv, Init, Unintroduced
<1> QED
  BY <1>2, <1>3 DEF Inv, SocketInv, EntrySocket, MessageInv, EntryMessages, ManagerInv, Init

\* Stopping a worker closes the connection of its own process only, and the timer
\* it starts is for a process that has not ended.
LEMMA StopEffect ==
  ASSUME TypeOK, Inv, NEW f \in Features
  PROVE  /\ \A p \in Processes :
              \/ closedBy(f)[p] = link[p]
              \/ /\ closedBy(f)[p] = "closedByServer"
                 /\ feature[p] = f
                 /\ ~ Unintroduced(p)
         /\ \A g \in Features \ {f} :
              socket[g] # NoProcess => closedBy(f)[socket[g]] = link[socket[g]]
         /\ \A p \in killedBy(f) : life[p] \in {"starting", "alive"}
<1> USE DEF TypeOK, ManagerTypeOK, ProcessTypeOK, Inv
<1>1. \A g \in Features : socket[g] # NoProcess => socket[g] \in Processes
  OBVIOUS
<1>2. \A p \in Processes :
        \/ closedBy(f)[p] = link[p]
        \/ /\ closedBy(f)[p] = "closedByServer"
           /\ feature[p] = f
           /\ ~ Unintroduced(p)
  BY <1>1 DEF closedBy, Connected, SocketInv, EntrySocket
<1>3. \A g \in Features \ {f} :
        socket[g] # NoProcess => closedBy(f)[socket[g]] = link[socket[g]]
  BY <1>1, <1>2 DEF SocketInv, EntrySocket
<1>4. ASSUME NEW p \in killedBy(f)
      PROVE  life[p] \in {"starting", "alive"}
  <2>1. CASE p \in killTimer
    BY <2>1 DEF ProcessInv
  <2>2. CASE p = process[f] /\ process[f] # NoProcess /\ life[p] # "ended"
    <3>1. p \in Processes /\ life[p] \in Life /\ life[p] # "unused"
      BY <2>2 DEF ManagerInv
    <3> QED
      BY <2>2, <3>1 DEF Life
  <2> QED
    BY <1>4, <2>1, <2>2 DEF killedBy
<1> QED
  BY <1>2, <1>3, <1>4

\* An entry is emptied and, if its worker is started again, given a process that
\* has not been used before.
ReplacesEntry(f, messages) ==
  /\ listening
  /\ \/ running' = running \cup {f}
     \/ running' = running \ {f} /\ messages = <<>>
  /\ socket' = [socket EXCEPT ![f] = NoProcess]
  /\ pending' = [pending EXCEPT ![f] = messages]
  /\ accepted' = [accepted EXCEPT ![f] = messages]
  /\ link' = closedBy(f)
  /\ forsaken' = forsakenBy({f})
  /\ killTimer' = killedBy(f) \/ killTimer' = killTimer
  /\ \/ /\ UNCHANGED <<life, feature>>
        /\ process' = [process EXCEPT ![f] = NoProcess]
        /\ made' = [made EXCEPT ![f] = NoProcess]
     \/ \E p \in Processes :
          /\ life[p] = "unused"
          /\ life' = [life EXCEPT ![p] = "starting"]
          /\ feature' = [feature EXCEPT ![p] = f]
          /\ made' = [made EXCEPT ![f] = p]
          /\ f \in running'
          /\ \/ process' = process
             \/ process' = [process EXCEPT ![f] = p]
             \/ process' = [process EXCEPT ![f] = NoProcess]
  /\ UNCHANGED <<listening, hello, wire, received>>

LEMMA ReplaceEntry ==
  ASSUME TypeOK, Inv, NEW f \in Features, NEW messages, ReplacesEntry(f, messages)
  PROVE  Inv'
<1>0. \A g \in Features \ {f} :
        socket[g] # NoProcess => link'[socket[g]] = link[socket[g]]
  BY StopEffect DEF ReplacesEntry
<1> USE DEF TypeOK, ManagerTypeOK, ProcessTypeOK, EnvironmentTypeOK, Inv, ReplacesEntry
<1>1. \A p \in Processes :
        \/ life'[p] = life[p] /\ feature'[p] = feature[p]
        \/ life[p] = "unused" /\ life'[p] = "starting"
  OBVIOUS
<1>2. \A p \in Processes :
        \/ link'[p] = link[p]
        \/ link'[p] = "closedByServer" /\ ~ Unintroduced(p)
  BY StopEffect
<1>3. ASSUME NEW p \in killTimer'
      PROVE  p \in Processes /\ life[p] \in {"starting", "alive"}
  <2>1. CASE killTimer' = killedBy(f)
    BY <2>1, StopEffect, StopTypes
  <2>2. CASE killTimer' = killTimer
    BY <2>2 DEF ProcessInv
  <2> QED
    BY <2>1, <2>2
<1>4. ProcessInv'
  BY <1>1, <1>2, <1>3 DEF ProcessInv, Unintroduced
<1>5. ASSUME NEW g \in Features
      PROVE  EntrySocket(g)' /\ EntryMessages(g)'
  <2>1. CASE g = f
    <3>1. socket'[f] = NoProcess /\ pending'[f] = messages /\ accepted'[f] = messages
      OBVIOUS
    <3> QED
      BY <2>1, <3>1 DEF EntrySocket, EntryMessages
  <2>2. CASE g # f
    <3>1. /\ socket'[g] = socket[g] /\ pending'[g] = pending[g] /\ accepted'[g] = accepted[g]
          /\ g \in running' <=> g \in running
      BY <2>2
    <3>2. EntrySocket(g) /\ EntryMessages(g)
      BY DEF SocketInv, MessageInv
    <3>3. CASE socket[g] = NoProcess
      BY <3>1, <3>2, <3>3 DEF EntrySocket, EntryMessages
    <3>4. CASE socket[g] # NoProcess
      <4> DEFINE p == socket[g]
      <4>1. p \in Processes /\ ~ Unintroduced(p)
        BY <3>2, <3>4 DEF EntrySocket
      <4>2. life'[p] = life[p] /\ feature'[p] = feature[p]
        BY <1>1, <4>1 DEF Unintroduced
      <4>3. link'[p] = link[p]
        BY <1>0, <2>2, <3>4
      <4>4. ~ Unintroduced(p)'
        BY <3>1, <4>1, <4>2 DEF Unintroduced
      <4>5. EntrySocket(g)'
        BY <3>1, <3>2, <3>4, <4>2, <4>3, <4>4 DEF EntrySocket
      <4>6. EntryMessages(g)'
        BY <3>1, <3>2, <3>4, <4>2 DEF EntryMessages
      <4> QED
        BY <4>5, <4>6
    <3> QED
      BY <3>3, <3>4
  <2> QED
    BY <2>1, <2>2
<1>6. ManagerInv'
  <2>1. SUFFICES ASSUME NEW g \in Features, process'[g] # NoProcess
                 PROVE  life'[process'[g]] # "unused"
    BY DEF ManagerInv
  <2>2. CASE process'[g] = process[g]
    <3>1. process[g] \in Processes /\ life[process[g]] # "unused"
      BY <2>1, <2>2 DEF ManagerInv
    <3> QED
      BY <1>1, <2>2, <3>1
  <2>3. CASE process'[g] # process[g]
    <3>1. PICK p \in Processes :
            life' = [life EXCEPT ![p] = "starting"] /\ process' = [process EXCEPT ![f] = p]
      BY <2>1, <2>3
    <3> QED
      BY <2>3, <3>1
  <2> QED
    BY <2>2, <2>3
<1> QED
  BY <1>4, <1>5, <1>6 DEF SocketInv, MessageInv

LEMMA StartStep ==
  ASSUME TypeOK, Inv, NEW f \in Features, NEW messages, startWorker(f, messages),
         listening, UNCHANGED <<listening, hello, wire, received>>
  PROVE  Inv'
<1>1. ReplacesEntry(f, <<>>) \/ ReplacesEntry(f, messages)
  BY DEF startWorker, stopWorker, ReplacesEntry
<1> QED
  BY <1>1, ReplaceEntry

LEMMA InvStep == TypeOK /\ Inv /\ [Next]_vars => Inv'
<1> SUFFICES ASSUME TypeOK, Inv, [Next]_vars
             PROVE  Inv'
  OBVIOUS
<1> USE DEF TypeOK, ManagerTypeOK, ProcessTypeOK, EnvironmentTypeOK, Inv
<1>0. \A f \in Features : socket[f] # NoProcess => socket[f] \in Processes
  OBVIOUS
<1>1. ASSUME NEW f \in Features, handleFeatureMessage(f)
      PROVE  Inv'
  <2>1. sent' \in Message /\ listening
    BY <1>1, FeatureWorkersAssumption DEF handleFeatureMessage, Message
  <2>2. CASE f \in running
    <3>1. /\ pending' = [pending EXCEPT ![f] = Append(@, sent')]
          /\ accepted' = [accepted EXCEPT ![f] = Append(@, sent')]
          /\ UNCHANGED <<running, socket, process, killTimer, listening, processVars>>
      BY <1>1, <2>2 DEF handleFeatureMessage, processVars
    <3>2. MessageInv'
      <4>1. SUFFICES ASSUME NEW g \in Features
                     PROVE  EntryMessages(g)'
        BY DEF MessageInv, EntryMessages
      <4>2. CASE g # f
        BY <3>1, <4>2 DEF MessageInv, EntryMessages, processVars
      <4>3. CASE g = f
        <5>1. accepted'[f] = Append(accepted[f], sent') /\ pending'[f] = Append(pending[f], sent')
          BY <3>1
        <5>2. CASE socket[f] = NoProcess
          BY <2>2, <3>1, <4>3, <5>1, <5>2 DEF MessageInv, EntryMessages
        <5>3. CASE socket[f] # NoProcess
          <6> DEFINE p == socket[f]
          <6>1. p \in Processes /\ UNCHANGED <<socket, life, wire, received, running>>
            BY <1>0, <3>1, <5>3 DEF processVars
          <6>2. IsPrefix(received[p], accepted'[f])
            BY <2>1, <5>1, <5>3, <6>1, PrefixOfAppend DEF MessageInv, EntryMessages
          <6>3. ASSUME life[p] = "alive"
                PROVE  accepted'[f] = received[p] \o (wire[p] \o pending'[f])
            <7>1. accepted[f] = received[p] \o (wire[p] \o pending[f])
              BY <5>3, <6>3 DEF MessageInv, EntryMessages
            <7> DEFINE r == received[p]  w == wire[p]  q == pending[f]  m == sent'
            <7>2. r \in Seq(Message) /\ w \in Seq(Message) /\ q \in Seq(Message) /\ m \in Message
              BY <2>1, <6>1
            <7>3. w \o Append(q, m) = Append(w \o q, m)
              <8> HIDE DEF r, w, q, m
              <8> QED
                BY <7>2, AppendToConcat
            <7>4. r \o Append(w \o q, m) = Append(r \o (w \o q), m)
              <8> HIDE DEF r, w, q, m
              <8>1. w \o q \in Seq(Message)
                BY <7>2, ConcatProperties
              <8> QED
                BY <7>2, <8>1, AppendToConcat
            <7>5. received[p] \o (wire[p] \o pending'[f]) = Append(accepted[f], sent')
              BY <5>1, <7>1, <7>3, <7>4
            <7> QED
              BY <5>1, <7>5
          <6> QED
            BY <2>2, <4>3, <5>3, <6>1, <6>2, <6>3 DEF EntryMessages
        <5> QED
          BY <5>2, <5>3
      <4> QED
        BY <4>2, <4>3
    <3> QED
      BY <3>1, <3>2 DEF processVars, ProcessInv, SocketInv, EntrySocket, ManagerInv, Unintroduced
  <2>3. CASE f \notin running
    <3>1. startWorker(f, <<sent'>>) /\ UNCHANGED <<listening, hello, wire, received>>
      BY <1>1, <2>3 DEF handleFeatureMessage
    <3> QED
      BY <2>1, <3>1, StartStep
  <2> QED
    BY <2>2, <2>3
<1>2. ASSUME NEW f \in Features, restartWorker(f)
      PROVE  Inv'
  <2>1. /\ startWorker(f, <<sent'>>)
        /\ listening
        /\ UNCHANGED <<listening, hello, wire, received>>
    BY <1>2 DEF restartWorker
  <2> QED
    BY <2>1, StartStep
<1>3. ASSUME NEW f \in Features, retryStart(f)
      PROVE  Inv'
  <2>1. ReplacesEntry(f, <<>>)
    BY <1>3 DEF retryStart, stopWorker, ReplacesEntry
  <2> QED
    BY <2>1, ReplaceEntry
<1>4. ASSUME NEW f \in Features, stop(f)
      PROVE  Inv'
  <2>1. ReplacesEntry(f, <<>>)
    BY <1>4 DEF stop, stopWorker, ReplacesEntry
  <2> QED
    BY <2>1, ReplaceEntry
<1>5. ASSUME NEW p \in Processes, processConnection(p)
      PROVE  Inv'
  <2>1. ProcessInv'
    BY <1>5 DEF processConnection, historyVars, ProcessInv, Unintroduced
  <2>2. SocketInv'
    BY <1>5, <1>0 DEF processConnection, historyVars, adoptedSocket, ProcessInv, SocketInv, EntrySocket, Unintroduced
  <2>3. MessageInv'
    <3>1. received[p] = <<>> /\ wire[p] = <<>> /\ feature[p] \in Features
      BY <1>5 DEF processConnection, historyVars, ProcessInv, Unintroduced
    <3>2. \A f \in Features :
            \/ socket'[f] = socket[f]
            \/ f = feature[p] /\ f \in running /\ socket[f] = NoProcess /\ socket'[f] = p
      BY <1>5 DEF processConnection, historyVars, adoptedSocket
    <3>3. \A f \in Features :
            /\ <<>> \o (<<>> \o pending[f]) = pending[f]
            /\ IsPrefix(<<>>, <<>> \o accepted[f])
            /\ <<>> \o accepted[f] = accepted[f]
      BY EmptySeq, ConcatEmptySeq, PrefixOfConcat
    <3>4. SUFFICES ASSUME NEW f \in Features
                   PROVE  EntryMessages(f)'
      BY DEF MessageInv
    <3>5. EntryMessages(f)
      BY DEF MessageInv
    <3>6. CASE socket'[f] = socket[f]
      BY <1>5, <3>5, <3>6 DEF processConnection, historyVars, EntryMessages
    <3>7. CASE socket'[f] = p /\ socket[f] = NoProcess /\ f \in running
      <4>1. accepted[f] = pending[f] /\ p # NoProcess
        BY <3>5, <3>7, FeatureWorkersAssumption DEF EntryMessages
      <4> QED
        BY <1>5, <3>1, <3>3, <3>7, <4>1 DEF processConnection, historyVars, EntryMessages
    <3> QED
      BY <3>2, <3>6, <3>7
  <2>4. ManagerInv'
    BY <1>5 DEF processConnection, historyVars, ManagerInv
  <2> QED
    BY <2>1, <2>2, <2>3, <2>4
<1>6. ASSUME NEW p \in Processes, closeConnection(p)
      PROVE  Inv'
  <2>1. ProcessInv'
    BY <1>6 DEF closeConnection, ProcessInv, Unintroduced
  <2>2. SocketInv'
    BY <1>6, <1>0 DEF closeConnection, gone, SocketInv, EntrySocket, Unintroduced
  <2>3. MessageInv'
    BY <1>6, <1>0 DEF closeConnection, gone, MessageInv, EntryMessages, SocketInv, EntrySocket
  <2>4. ManagerInv'
    BY <1>6 DEF closeConnection, ManagerInv
  <2> QED
    BY <2>1, <2>2, <2>3, <2>4
<1>7. ASSUME NEW p \in Processes, killTimeout(p)
      PROVE  Inv'
  <2>1. ProcessInv'
    BY <1>7 DEF killTimeout, historyVars, ProcessInv, Unintroduced
  <2>2. SocketInv'
    BY <1>7, <1>0 DEF killTimeout, historyVars, ProcessInv, SocketInv, EntrySocket, Unintroduced
  <2>3. MessageInv'
    BY <1>7, <1>0 DEF killTimeout, historyVars, MessageInv, EntryMessages, SocketInv, EntrySocket
  <2>4. ManagerInv'
    BY <1>7 DEF killTimeout, historyVars, ManagerInv
  <2> QED
    BY <2>1, <2>2, <2>3, <2>4
<1>8. ASSUME NEW p \in Processes, sendInitMessage(p)
      PROVE  Inv'
  <2>1. ProcessInv'
    BY <1>8 DEF sendInitMessage, historyVars, managerVars, ProcessInv, Unintroduced
  <2>2. SocketInv'
    BY <1>8, <1>0 DEF sendInitMessage, historyVars, managerVars, ProcessInv, SocketInv, EntrySocket, Unintroduced
  <2>3. MessageInv'
    BY <1>8, <1>0 DEF sendInitMessage, historyVars, managerVars, MessageInv, EntryMessages, SocketInv, EntrySocket, Unintroduced
  <2>4. ManagerInv'
    BY <1>8 DEF sendInitMessage, historyVars, managerVars, ManagerInv
  <2> QED
    BY <2>1, <2>2, <2>3, <2>4
<1>9. ASSUME NEW p \in Processes, receiveMessage(p)
      PROVE  Inv'
  <2>1. ProcessInv'
    BY <1>9 DEF receiveMessage, historyVars, managerVars, ProcessInv, Unintroduced
  <2>2. SocketInv' /\ ManagerInv'
    BY <1>9, <1>0 DEF receiveMessage, historyVars, managerVars, SocketInv, EntrySocket, ManagerInv, Unintroduced
  <2>3. MessageInv'
    <3>1. SUFFICES ASSUME NEW f \in Features
                   PROVE  EntryMessages(f)'
      BY DEF MessageInv
    <3>2. EntryMessages(f) /\ UNCHANGED <<running, socket, pending, life, accepted>>
      BY <1>9 DEF receiveMessage, historyVars, managerVars, MessageInv
    <3>3. CASE socket[f] # p
      <4>1. socket[f] # NoProcess =>
              received'[socket[f]] = received[socket[f]] /\ wire'[socket[f]] = wire[socket[f]]
        BY <1>0, <1>9, <3>3 DEF receiveMessage, historyVars
      <4> QED
        BY <3>2, <4>1 DEF EntryMessages
    <3>4. CASE socket[f] = p
      <4> DEFINE r == received[p]  w == wire[p]  q == pending[f]
      <4>1. r \in Seq(Message) /\ w \in Seq(Message) /\ q \in Seq(Message)
        OBVIOUS
      <4>2. p # NoProcess /\ accepted[f] = r \o (w \o q)
        BY <1>9, <3>2, <3>4, FeatureWorkersAssumption DEF receiveMessage, historyVars, EntryMessages
      <4>3. r \o (w \o q) = (r \o w) \o (<<>> \o q) /\ IsPrefix(r \o w, r \o (w \o q))
        <5> HIDE DEF r, w, q, TypeOK, ManagerTypeOK, ProcessTypeOK, EnvironmentTypeOK, Inv
        <5> QED
          BY <4>1, ConcatRegroup
      <4>4. IsPrefix(r \o w, accepted[f])
        BY <4>2, <4>3
      <4>5. received'[p] = r \o w /\ wire'[p] = <<>>
        BY <1>9 DEF receiveMessage, historyVars, batch
      <4>6. accepted[f] = (r \o w) \o (<<>> \o q)
        BY <4>2, <4>3
      <4> HIDE DEF r, w
      <4> QED
        BY <3>2, <3>4, <4>2, <4>4, <4>5, <4>6 DEF EntryMessages
    <3> QED
      BY <3>3, <3>4
  <2> QED
    BY <2>1, <2>2, <2>3
<1>10. ASSUME NEW p \in Processes, quit(p)
       PROVE  Inv'
  <2>1. ProcessInv'
    BY <1>10 DEF quit, historyVars, ProcessInv, Unintroduced
  <2>2. SocketInv'
    BY <1>10, <1>0 DEF quit, historyVars, ProcessInv, SocketInv, EntrySocket, Unintroduced
  <2>3. MessageInv'
    BY <1>10, <1>0 DEF quit, historyVars, MessageInv, EntryMessages, SocketInv, EntrySocket
  <2>4. ManagerInv'
    BY <1>10 DEF quit, historyVars, ManagerInv
  <2> QED
    BY <2>1, <2>2, <2>3, <2>4
<1>11. CASE sendPendingMessages
  <2>1. \A p \in Processes :
          wire'[p] = IF Connected(feature[p]) /\ socket[feature[p]] = p
                     THEN wire[p] \o pending[feature[p]] ELSE wire[p]
    BY <1>11 DEF sendPendingMessages, historyVars
  <2>2. ProcessInv'
    BY <1>11, <2>1 DEF sendPendingMessages, historyVars, Connected, ProcessInv, SocketInv, EntrySocket, Unintroduced
  <2>3. SocketInv' /\ ManagerInv'
    BY <1>11, <1>0 DEF sendPendingMessages, historyVars, SocketInv, EntrySocket, ManagerInv, Unintroduced
  <2>4. MessageInv'
    <3>1. SUFFICES ASSUME NEW f \in Features
                   PROVE  EntryMessages(f)'
      BY DEF MessageInv, EntryMessages
    <3>2. CASE socket[f] = NoProcess
      BY <1>11, <3>2 DEF sendPendingMessages, historyVars, remaining, Connected, MessageInv, EntryMessages
    <3>3. CASE socket[f] # NoProcess
      <4> DEFINE p == socket[f]
      <4>1. p \in Processes /\ wire'[p] = wire[p] \o pending[f] /\ pending'[f] = <<>>
        BY <1>11, <1>0, <2>1, <3>3 DEF sendPendingMessages, historyVars, remaining, Connected, SocketInv, EntrySocket
      <4>2. wire[p] \o pending[f] \in Seq(Message)
        BY <4>1, ConcatProperties
      <4>3. wire'[p] \o pending'[f] = wire[p] \o pending[f]
        BY <4>1, <4>2, ConcatEmptySeq
      <4> QED
        BY <1>11, <3>3, <4>1, <4>3 DEF sendPendingMessages, historyVars, MessageInv, EntryMessages, SocketInv, EntrySocket
    <3> QED
      BY <3>2, <3>3
  <2> QED
    BY <2>2, <2>3, <2>4
<1>12. CASE shutdown
  <2>1. ProcessInv'
    BY <1>12 DEF shutdown, ProcessInv, Unintroduced
  <2> QED
    BY <1>12, <2>1 DEF shutdown, SocketInv, EntrySocket, MessageInv, EntryMessages, ManagerInv
<1>13. CASE changeSession
  BY <1>13 DEF changeSession, historyVars, managerVars, processVars, ProcessInv, SocketInv, EntrySocket, MessageInv, EntryMessages, ManagerInv, Unintroduced
<1>14. CASE UNCHANGED vars
  BY <1>14 DEF vars, historyVars, managerVars, processVars, ProcessInv, SocketInv, EntrySocket, MessageInv, EntryMessages, ManagerInv, Unintroduced
<1> QED
  BY <1>1, <1>2, <1>3, <1>4, <1>5, <1>6, <1>7, <1>8, <1>9, <1>10, <1>11, <1>12, <1>13, <1>14
  DEF Next, FeatureStep, ProcessStep

-----------------------------------------------------------------------------
(* Whose worker a process is                                               *)

\* A process nothing has told to end; the kill timers are not counted on.
Survivor(p) == life[p] \in {"starting", "alive"} /\ link[p] # "closedByServer"

\* A process the manager has neither closed the connection of nor seen the end of.
Outstanding(p) ==
  /\ link[p] # "closedByServer"
  /\ life[p] \in {"starting", "alive"} \/ (listening /\ link[p] # "none")

\* Every process that is outstanding is the one its feature's entry was made for, or
\* its entry has ended without its connection.
WorkerInv ==
  \A p \in Processes :
    Outstanding(p) => p \in forsaken \/ (feature[p] \in running /\ made[feature[p]] = p)

LEMMA WorkerInit == Init => WorkerInv
  BY DEF Init, WorkerInv, Outstanding

\* A step that leaves entries, features and what is forsaken alone, and makes no process
\* outstanding.
LEMMA WorkerKept ==
  ASSUME WorkerInv, UNCHANGED <<running, made, forsaken, feature>>,
         \A p \in Processes : Outstanding(p)' => Outstanding(p)
  PROVE  WorkerInv'
  BY DEF WorkerInv

\* Stopping or replacing a worker closes its connection or forsakes its process.
LEMMA ReplaceWorker ==
  ASSUME TypeOK, Inv, WorkerInv, NEW f \in Features, NEW messages, ReplacesEntry(f, messages)
  PROVE  WorkerInv'
<1> SUFFICES ASSUME NEW p \in Processes, Outstanding(p)'
             PROVE  p \in forsaken' \/ (feature'[p] \in running' /\ made'[feature'[p]] = p)
  BY DEF WorkerInv
<1>1. /\ listening /\ listening' /\ link' = closedBy(f)
      /\ forsaken' = forsakenBy({f})
      /\ \A g \in Features \ {f} : g \in running => g \in running'
  BY DEF ReplacesEntry
<1>2. \A g \in Features \ {f} : made'[g] = made[g]
  BY DEF ReplacesEntry, TypeOK, EnvironmentTypeOK
<1>3. \/ life'[p] = life[p] /\ feature'[p] = feature[p]
      \/ feature'[p] = f /\ made'[f] = p /\ f \in running'
  BY DEF ReplacesEntry, TypeOK, ProcessTypeOK, EnvironmentTypeOK
<1>4. CASE life'[p] = life[p] /\ feature'[p] = feature[p]
  <2>1. link'[p] = link[p]
    BY <1>1, StopEffect DEF Outstanding
  <2>2. Outstanding(p) /\ feature[p] \in Features /\ p # NoProcess
    BY <1>1, <1>4, <2>1, FeatureWorkersAssumption DEF Outstanding, TypeOK, ProcessTypeOK
  <2>3. CASE p \in forsaken
    BY <1>1, <2>3 DEF forsakenBy
  <2>4. CASE feature[p] \in running /\ made[feature[p]] = p
    <3>1. CASE feature[p] # f
      BY <1>1, <1>2, <1>4, <2>2, <2>4, <3>1
    <3>2. CASE feature[p] = f
      <4>1. socket[f] # p
        <5> SUFFICES ASSUME socket[f] = p PROVE FALSE
          OBVIOUS
        <5>1. closedBy(f)[p] = "closedByServer"
          BY <2>2, <2>4, <3>2 DEF closedBy, Connected, TypeOK, ProcessTypeOK
        <5> QED
          BY <1>1, <5>1 DEF Outstanding
      <4> QED
        BY <1>1, <2>4, <3>2, <4>1 DEF forsakenBy
    <3> QED
      BY <3>1, <3>2
  <2> QED
    BY <2>2, <2>3, <2>4 DEF WorkerInv
<1> QED
  BY <1>3, <1>4

LEMMA StartWorker ==
  ASSUME TypeOK, Inv, WorkerInv, NEW f \in Features, NEW messages, startWorker(f, messages),
         listening, UNCHANGED <<listening, hello, wire, received>>
  PROVE  WorkerInv'
<1>1. ReplacesEntry(f, <<>>) \/ ReplacesEntry(f, messages)
  BY DEF startWorker, stopWorker, ReplacesEntry
<1> QED
  BY <1>1, ReplaceWorker

LEMMA WorkerStep == TypeOK /\ Inv /\ WorkerInv /\ [Next]_vars => WorkerInv'
<1> SUFFICES ASSUME TypeOK, Inv, WorkerInv, [Next]_vars PROVE WorkerInv'
  OBVIOUS
<1>1. ASSUME NEW f \in Features, handleFeatureMessage(f) PROVE WorkerInv'
  <2>1. CASE f \in running
    BY <1>1, <2>1, WorkerKept DEF handleFeatureMessage, Outstanding
  <2>2. CASE f \notin running
    BY <1>1, <2>2, StartWorker DEF handleFeatureMessage
  <2> QED
    BY <2>1, <2>2
<1>2. ASSUME NEW f \in Features, restartWorker(f) PROVE WorkerInv'
  BY <1>2, StartWorker DEF restartWorker
<1>3. ASSUME NEW f \in Features, retryStart(f) PROVE WorkerInv'
  <2>1. ReplacesEntry(f, <<>>)
    BY <1>3 DEF retryStart, stopWorker, ReplacesEntry
  <2> QED
    BY <2>1, ReplaceWorker
<1>4. ASSUME NEW f \in Features, stop(f) PROVE WorkerInv'
  <2>1. ReplacesEntry(f, <<>>)
    BY <1>4 DEF stop, stopWorker, ReplacesEntry
  <2> QED
    BY <2>1, ReplaceWorker
<1>5. ASSUME NEW p \in Processes, processConnection(p) PROVE WorkerInv'
  BY <1>5, WorkerKept DEF processConnection, Outstanding, historyVars
<1>6. ASSUME NEW p \in Processes, closeConnection(p) PROVE WorkerInv'
  <2>1. /\ listening /\ link[p] = "closedByWorker" /\ link' = [link EXCEPT ![p] = "none"]
        /\ running' = running \ gone(p)
        /\ made' = [f \in Features |-> IF f \in gone(p) THEN NoProcess ELSE made[f]]
        /\ forsaken' = forsakenBy(gone(p))
        /\ UNCHANGED <<listening, life, feature>>
    BY <1>6 DEF closeConnection
  <2> SUFFICES ASSUME NEW q \in Processes, Outstanding(q)'
               PROVE  q \in forsaken' \/ (feature'[q] \in running' /\ made'[feature'[q]] = q)
    BY DEF WorkerInv
  <2>2. life[p] = "ended"
    BY <2>1 DEF Inv, ProcessInv
  <2>3. q # p /\ Outstanding(q) /\ feature[q] \in Features
    BY <2>1, <2>2 DEF Outstanding, TypeOK, ProcessTypeOK
  <2>4. CASE q \in forsaken
    BY <2>1, <2>4 DEF forsakenBy
  <2>5. CASE feature[q] \in running /\ made[feature[q]] = q
    <3>1. CASE feature[q] \in gone(p)
      BY <2>1, <2>3, <2>5, <3>1 DEF forsakenBy, gone
    <3>2. CASE feature[q] \notin gone(p)
      BY <2>1, <2>3, <2>5, <3>2
    <3> QED
      BY <3>1, <3>2
  <2> QED
    BY <2>3, <2>4, <2>5 DEF WorkerInv
<1>7. ASSUME NEW p \in Processes, killTimeout(p) \/ quit(p) PROVE WorkerInv'
  <2>1. /\ life' = [life EXCEPT ![p] = "ended"]
        /\ link' = [link EXCEPT ![p] = IF @ = "up" THEN "closedByWorker" ELSE "none"]
        /\ UNCHANGED <<listening, running, feature, made, forsaken>>
    BY <1>7 DEF killTimeout, quit, historyVars
  <2>2. \A q \in Processes : Outstanding(q)' => Outstanding(q)
    BY <2>1 DEF Outstanding, TypeOK, ProcessTypeOK
  <2> QED
    BY <2>1, <2>2, WorkerKept
<1>8. ASSUME NEW p \in Processes, sendInitMessage(p) PROVE WorkerInv'
  <2>1. /\ life[p] = "starting" /\ life' = [life EXCEPT ![p] = "alive"]
        /\ link' = [link EXCEPT ![p] = IF listening THEN "up" ELSE @]
        /\ UNCHANGED <<listening, running, feature, made, forsaken>>
    BY <1>8 DEF sendInitMessage, managerVars, historyVars
  <2>2. \A q \in Processes : Outstanding(q)' => Outstanding(q)
    <3>1. link[p] = "none"
      BY <2>1 DEF Inv, ProcessInv
    <3> QED
      BY <2>1, <3>1 DEF Outstanding, TypeOK, ProcessTypeOK
  <2> QED
    BY <2>1, <2>2, WorkerKept
<1>9. ASSUME NEW p \in Processes, receiveMessage(p) PROVE WorkerInv'
  BY <1>9, WorkerKept DEF receiveMessage, managerVars, historyVars, Outstanding
<1>10. CASE sendPendingMessages
  BY <1>10, WorkerKept DEF sendPendingMessages, historyVars, Outstanding
<1>11. CASE shutdown
  <2>1. /\ listening /\ listening' = FALSE
        /\ link' = [p \in Processes |-> IF link[p] = "up" THEN "closedByServer" ELSE link[p]]
        /\ forsaken' = forsakenBy(running)
        /\ UNCHANGED <<life, feature>>
    BY <1>11 DEF shutdown
  <2> SUFFICES ASSUME NEW q \in Processes, Outstanding(q)' PROVE q \in forsaken'
    BY DEF WorkerInv
  <2>2. /\ life[q] \in {"starting", "alive"} /\ link[q] # "up" /\ link[q] # "closedByServer"
        /\ feature[q] \in Features /\ q # NoProcess
    BY <2>1, FeatureWorkersAssumption DEF Outstanding, TypeOK, ProcessTypeOK
  <2>3. link[q] # "closedByWorker"
    BY <2>2 DEF Inv, ProcessInv
  <2>4. socket[feature[q]] # q
    BY <2>2, <2>3 DEF Inv, SocketInv, EntrySocket
  <2>5. Outstanding(q)
    BY <2>2 DEF Outstanding
  <2> QED
    BY <2>1, <2>4, <2>5 DEF WorkerInv, forsakenBy
<1>12. CASE changeSession \/ UNCHANGED vars
  BY <1>12, WorkerKept DEF changeSession, vars, managerVars, processVars, historyVars, Outstanding
<1> QED
  BY <1>1, <1>2, <1>3, <1>4, <1>5, <1>6, <1>7, <1>8, <1>9, <1>10, <1>11, <1>12
     DEF Next, FeatureStep, ProcessStep

LEMMA WorkerInvariant == Spec => [](TypeOK /\ Inv /\ WorkerInv)
<1>1. Init => TypeOK /\ Inv /\ WorkerInv
  BY TypeInit, InvInit, WorkerInit
<1>2. TypeOK /\ Inv /\ WorkerInv /\ [Next]_vars => TypeOK' /\ Inv' /\ WorkerInv'
  BY TypeStep, InvStep, WorkerStep
<1> QED
  BY <1>1, <1>2, PTL DEF Spec

\* The connection an entry has is open and of a process of its feature: the one the entry
\* was made for, or one whose own entry had ended before it connected, which
\* processConnection() takes for it.  Those of workers stopped later are never kept.
THEOREM SocketsOwned == Spec => []SocketsAreOwn
<1>1. TypeOK /\ Inv /\ WorkerInv => SocketsAreOwn
  <2> SUFFICES ASSUME TypeOK, Inv, WorkerInv, NEW f \in running, socket[f] # NoProcess
               PROVE  /\ feature[socket[f]] = f
                      /\ link[socket[f]] \in {"up", "closedByWorker"}
                      /\ socket[f] = made[f] \/ socket[f] \in forsaken
    BY DEF SocketsAreOwn
  <2>1. f \in Features /\ listening /\ socket[f] \in Processes
    BY DEF TypeOK, ManagerTypeOK, Inv, ManagerInv
  <2>2. feature[socket[f]] = f /\ link[socket[f]] \in {"up", "closedByWorker"}
    BY <2>1 DEF Inv, SocketInv, EntrySocket
  <2>3. Outstanding(socket[f])
    BY <2>1, <2>2 DEF Outstanding
  <2> QED
    BY <2>1, <2>2, <2>3 DEF WorkerInv
<1> QED
  BY <1>1, WorkerInvariant, PTL

LEMMA OneIsEnough == TypeOK /\ WorkerInv => OneWorkerPerFeature
<1> SUFFICES ASSUME TypeOK, WorkerInv, NEW f \in Features
             PROVE  Cardinality({p \in Processes \ forsaken : Lasting(p) /\ feature[p] = f}) <= 1
  BY DEF OneWorkerPerFeature
<1> DEFINE S == {p \in Processes \ forsaken : Lasting(p) /\ feature[p] = f}
<1>1. \A p \in S : p = made[f]
  BY DEF WorkerInv, Outstanding, Lasting
<1>2. CASE S = {}
  BY <1>2, FS_EmptySet
<1>3. CASE S # {}
  <2>1. PICK p : S = {p}
    BY <1>1, <1>3
  <2> QED
    BY <2>1, FS_Singleton
<1> QED
  BY <1>2, <1>3

\* Not counting those whose entry had ended before it got their connection, a feature has
\* at most one process that has not been told to end, however its worker is started,
\* stopped and retried and also once the manager is gone (startWorker(), stopWorker(),
\* processConnection(), closeConnection()).
THEOREM OneWorker == Spec => []OneWorkerPerFeature
  BY WorkerInvariant, OneIsEnough, PTL

\* A process that is not the one its feature's entry was made for has been told to end,
\* or its entry had ended before it got its connection.
OrphansAreToldToEnd ==
  \A p \in Processes :
    life[p] \in {"starting", "alive"} /\ made[feature[p]] # p =>
      link[p] = "closedByServer" \/ p \in forsaken

\* However entries end, by stopWorker(), closeConnection() or the destructor, the server
\* has closed the connection of their process or never had it.  NoProcessLeftBehind
\* rests on it.
THEOREM OrphansTold == Spec => []OrphansAreToldToEnd
<1>1. TypeOK /\ WorkerInv => OrphansAreToldToEnd
  BY DEF WorkerInv, Outstanding, OrphansAreToldToEnd
<1> QED
  BY <1>1, WorkerInvariant, PTL

-----------------------------------------------------------------------------
(* Shutdown                                                                *)

\* A worker that outlives the server without having been told to end has never had a
\* connection to it.
OnlyStrangersStay ==
  ~ listening => \A p \in Processes :
    life[p] = "alive" /\ link[p] # "closedByServer" =>
      link[p] = "none" /\ wire[p] = <<>> /\ received[p] = <<>>

\* A process without a connection has not introduced itself; none is left open.
StrangerInv ==
  \A p \in Processes :
    /\ life[p] = "alive" /\ link[p] = "none" =>
         ~ listening /\ wire[p] = <<>> /\ received[p] = <<>>
    /\ ~ listening => link[p] # "up"

LEMMA StrangerStep == TypeOK /\ Inv /\ StrangerInv /\ [Next]_vars => StrangerInv'
<1> SUFFICES ASSUME TypeOK, Inv, StrangerInv, [Next]_vars PROVE StrangerInv'
  OBVIOUS
<1>1. ASSUME UNCHANGED <<listening, wire, received>>, listening,
             \A p \in Processes : life'[p] = "alive" => life[p] = "alive",
             \A p \in Processes : link'[p] = "none" => link[p] = "none"
      PROVE  StrangerInv'
  BY <1>1 DEF StrangerInv
<1>2. ASSUME NEW f \in Features, FeatureStep(f) PROVE StrangerInv'
  <2>1. UNCHANGED <<listening, wire, received>> /\ listening
    BY <1>2 DEF FeatureStep, handleFeatureMessage, restartWorker, retryStart, stop
  <2>2. link' = link \/ link' = closedBy(f)
    BY <1>2 DEF FeatureStep, handleFeatureMessage, restartWorker, retryStart, stop,
                startWorker, stopWorker
  <2>3. \A p \in Processes : link'[p] = "none" => link[p] = "none"
    BY <2>2 DEF closedBy, TypeOK, ProcessTypeOK
  <2>4. \/ life' = life
        \/ \E p \in Processes : life' = [life EXCEPT ![p] = "starting"]
    BY <1>2 DEF FeatureStep, handleFeatureMessage, restartWorker, retryStart, stop,
                startWorker
  <2>5. \A p \in Processes : life'[p] = "alive" => life[p] = "alive"
    BY <2>4 DEF TypeOK, ProcessTypeOK
  <2> QED
    BY <1>1, <2>1, <2>3, <2>5
<1>3. ASSUME NEW p \in Processes, processConnection(p) PROVE StrangerInv'
  BY <1>3 DEF processConnection, historyVars, StrangerInv
<1>4. ASSUME NEW p \in Processes, closeConnection(p) PROVE StrangerInv'
  <2>1. life[p] = "ended"
    BY <1>4 DEF closeConnection, Inv, ProcessInv
  <2> QED
    BY <1>4, <2>1 DEF closeConnection, StrangerInv, TypeOK, ProcessTypeOK
<1>5. ASSUME NEW p \in Processes, killTimeout(p) \/ quit(p) PROVE StrangerInv'
  <2>1. /\ life' = [life EXCEPT ![p] = "ended"]
        /\ link' = [link EXCEPT ![p] = IF @ = "up" THEN "closedByWorker" ELSE "none"]
        /\ wire' = [wire EXCEPT ![p] = <<>>]
        /\ UNCHANGED <<listening, received>>
    BY <1>5 DEF killTimeout, historyVars, quit
  <2> QED
    BY <2>1 DEF StrangerInv, TypeOK, ProcessTypeOK
<1>6. ASSUME NEW p \in Processes, sendInitMessage(p) PROVE StrangerInv'
  <2>1. /\ life[p] = "starting" /\ life' = [life EXCEPT ![p] = "alive"]
        /\ link' = [link EXCEPT ![p] = IF listening THEN "up" ELSE @]
        /\ UNCHANGED <<listening, wire, received>>
    BY <1>6 DEF sendInitMessage, historyVars, managerVars
  <2>2. link[p] = "none" /\ wire[p] = <<>> /\ received[p] = <<>>
    BY <2>1 DEF Inv, ProcessInv, Unintroduced
  <2> QED
    BY <2>1, <2>2 DEF StrangerInv, TypeOK, ProcessTypeOK
<1>7. ASSUME NEW p \in Processes, receiveMessage(p) PROVE StrangerInv'
  <2>1. /\ life[p] = "alive" /\ wire[p] # <<>>
        /\ received' = [received EXCEPT ![p] = @ \o batch(p)]
        /\ wire' = [wire EXCEPT ![p] = <<>>]
        /\ UNCHANGED <<listening, life, link>>
    BY <1>7 DEF receiveMessage, historyVars, managerVars
  <2>2. link[p] # "none"
    BY <2>1 DEF StrangerInv
  <2> QED
    BY <2>1, <2>2 DEF StrangerInv, TypeOK, ProcessTypeOK
<1>8. CASE sendPendingMessages
  BY <1>8 DEF sendPendingMessages, historyVars, StrangerInv
<1>9. CASE shutdown
  BY <1>9 DEF shutdown, StrangerInv, TypeOK, ProcessTypeOK
<1>10. CASE changeSession \/ UNCHANGED vars
  BY <1>10 DEF changeSession, historyVars, vars, managerVars, processVars, StrangerInv
<1> QED
  BY <1>2, <1>3, <1>4, <1>5, <1>6, <1>7, <1>8, <1>9, <1>10 DEF Next, ProcessStep

\* However workers are stopped, replaced and shut down: every worker that has ever handled
\* a message is told to end by ~FeatureWorkerManager(), and so is every other one that is
\* connected.  AllWorkersShutDown fails for those that have not connected, and only for them.
THEOREM StrangersOnly == Spec => []OnlyStrangersStay
<1>1. Init => TypeOK /\ Inv /\ StrangerInv
  <2>1. Init => StrangerInv
    BY DEF Init, StrangerInv
  <2> QED
    BY <2>1, TypeInit, InvInit
<1>2. TypeOK /\ Inv /\ StrangerInv /\ [Next]_vars => TypeOK' /\ Inv' /\ StrangerInv'
  BY TypeStep, InvStep, StrangerStep
<1>3. TypeOK /\ Inv /\ StrangerInv => OnlyStrangersStay
  <2> SUFFICES ASSUME TypeOK, Inv, StrangerInv, ~ listening, NEW p \in Processes,
                      life[p] = "alive", link[p] # "closedByServer"
               PROVE  link[p] = "none" /\ wire[p] = <<>> /\ received[p] = <<>>
    BY DEF OnlyStrangersStay
  <2>1. link[p] = "none"
    BY DEF Inv, ProcessInv, StrangerInv, TypeOK, ProcessTypeOK, Link
  <2> QED
    BY <2>1 DEF StrangerInv
<1> QED
  BY <1>1, <1>2, <1>3, PTL DEF Spec

-----------------------------------------------------------------------------
(* FeatureWorkers implements WorkerChannel                                 *)

\* What the workers have handled, by feature.
AllDelivered == [f \in Features |-> Delivered(f)]

\* The two modules' prefix relations are the same.
LEMMA SamePrefix ==
  ASSUME NEW s, NEW t
  PROVE  /\ Channels!IsPrefix(s, t) <=> IsPrefix(s, t)
         /\ Channels!IsStrictPrefix(s, t) <=> IsStrictPrefix(s, t)
  BY DEF Channels!IsPrefix, IsPrefix, Channels!IsStrictPrefix, IsStrictPrefix

LEMMA ChannelInit == Init => Channels!Init
  BY DEF Init, Channels!Init, Delivered, Connected

\* Replacing an entry starts or stops the feature's channel.
LEMMA ReplaceChannel ==
  ASSUME TypeOK, Inv, NEW f \in Features,
         NEW messages \in {<<>>} \cup {<<m>> : m \in Message}, ReplacesEntry(f, messages)
  PROVE  Channels!Start(f) \/ Channels!Stop(f)
<1>1. AllDelivered' = [AllDelivered EXCEPT ![f] = <<>>]
  <2>1. socket' = [socket EXCEPT ![f] = NoProcess] /\ received' = received
    BY DEF ReplacesEntry
  <2>2. socket \in [Features -> Processes \cup {NoProcess}]
    BY DEF TypeOK, ManagerTypeOK
  <2>3. Delivered(f)' = <<>>
    BY <2>1, <2>2 DEF Delivered, Connected
  <2>4. ASSUME NEW g \in Features \ {f}
        PROVE  Delivered(g)' = Delivered(g)
    <3>1. g \in running' <=> g \in running
      BY DEF ReplacesEntry
    <3> QED
      BY <2>1, <2>2, <3>1 DEF Delivered, Connected
  <2> QED
    BY <2>3, <2>4 DEF AllDelivered
<1>2. accepted' = [accepted EXCEPT ![f] = messages]
  BY DEF ReplacesEntry
<1>3. CASE running' = running \cup {f}
  BY <1>1, <1>2, <1>3 DEF Channels!Start, AllDelivered
<1>4. CASE running' = running \ {f} /\ messages = <<>>
  BY <1>1, <1>2, <1>4 DEF Channels!Stop, AllDelivered
<1> QED
  BY <1>3, <1>4 DEF ReplacesEntry

\* A step that changes neither entries nor sockets nor what was handled.
LEMMA ChannelStutters ==
  ASSUME UNCHANGED <<running, socket, accepted, received>>
  PROVE  UNCHANGED Channels!channel
  BY DEF Channels!channel, Delivered, Connected

LEMMA ChannelStep == TypeOK /\ Inv /\ [Next]_vars => [Channels!Next]_(Channels!channel)
<1> SUFFICES ASSUME TypeOK, Inv, [Next]_vars
             PROVE  Channels!Next \/ UNCHANGED Channels!channel
  OBVIOUS
<1>0. /\ socket \in [Features -> Processes \cup {NoProcess}]
      /\ feature \in [Processes -> Features]
      /\ received \in [Processes -> Seq(Message)]
      /\ wire \in [Processes -> Seq(Message)]
      /\ accepted \in [Features -> Seq(Message)]
  BY DEF TypeOK, ManagerTypeOK, ProcessTypeOK, EnvironmentTypeOK
<1>1. ASSUME NEW f \in Features, handleFeatureMessage(f)
      PROVE  Channels!Next
  <2>1. sent' \in Message
    BY <1>1, FeatureWorkersAssumption
    DEF handleFeatureMessage, Message, TypeOK, EnvironmentTypeOK
  <2>2. CASE f \in running
    <3>1. /\ accepted' = [accepted EXCEPT ![f] = Append(@, sent')]
          /\ UNCHANGED <<running, socket, received>>
      BY <1>1, <2>2 DEF handleFeatureMessage
    <3>2. UNCHANGED AllDelivered
      BY <3>1 DEF AllDelivered, Delivered, Connected
    <3>3. Channels!Accept(f)
      BY <2>1, <2>2, <3>1, <3>2 DEF Channels!Accept, AllDelivered
    <3> QED
      BY <3>3 DEF Channels!Next
  <2>3. CASE f \notin running
    <3>1. /\ startWorker(f, <<sent'>>)
          /\ listening
          /\ UNCHANGED <<listening, hello, wire, received>>
      BY <1>1, <2>3 DEF handleFeatureMessage
    <3>2. ReplacesEntry(f, <<>>) \/ ReplacesEntry(f, <<sent'>>)
      BY <3>1 DEF startWorker, stopWorker, ReplacesEntry
    <3> QED
      BY <2>1, <3>2, ReplaceChannel DEF Channels!Next
  <2> QED
    BY <2>2, <2>3
<1>2. ASSUME NEW f \in Features, restartWorker(f)
      PROVE  Channels!Next
  <2>1. sent' \in Message
    BY <1>2, FeatureWorkersAssumption DEF restartWorker, Message, TypeOK, EnvironmentTypeOK
  <2>2. ReplacesEntry(f, <<>>) \/ ReplacesEntry(f, <<sent'>>)
    BY <1>2 DEF restartWorker, startWorker, stopWorker, ReplacesEntry
  <2> QED
    BY <2>1, <2>2, ReplaceChannel DEF Channels!Next
<1>3. ASSUME NEW f \in Features, retryStart(f)
      PROVE  Channels!Next
  <2>1. ReplacesEntry(f, <<>>)
    BY <1>3 DEF retryStart, stopWorker, ReplacesEntry
  <2> QED
    BY <2>1, ReplaceChannel DEF Channels!Next
<1>4. ASSUME NEW f \in Features, stop(f)
      PROVE  Channels!Next
  <2>1. ReplacesEntry(f, <<>>)
    BY <1>4 DEF stop, stopWorker, ReplacesEntry
  <2> QED
    BY <2>1, ReplaceChannel DEF Channels!Next
<1>5. ASSUME NEW p \in Processes, processConnection(p)
      PROVE  UNCHANGED Channels!channel
  <2>1. received[p] = <<>> /\ feature[p] \in Features /\ UNCHANGED <<running, accepted, received>>
    BY <1>0, <1>5 DEF processConnection, historyVars, Inv, ProcessInv, Unintroduced
  <2>2. ASSUME NEW f \in Features
        PROVE  Delivered(f)' = Delivered(f)
    <3>1. \/ socket'[f] = socket[f]
          \/ f \in running /\ socket[f] = NoProcess /\ socket'[f] = p
      BY <1>0, <1>5 DEF processConnection, historyVars, adoptedSocket
    <3> QED
      BY <2>1, <3>1, FeatureWorkersAssumption DEF Delivered, Connected
  <2> QED
    BY <2>1, <2>2 DEF Channels!channel
<1>6. ASSUME NEW p \in Processes, closeConnection(p)
      PROVE  Channels!Next \/ UNCHANGED Channels!channel
  <2>1. /\ running' = running \ gone(p)
        /\ socket' = [f \in Features |-> IF f \in gone(p) THEN NoProcess ELSE socket[f]]
        /\ accepted' = [f \in Features |-> IF f \in gone(p) THEN <<>> ELSE accepted[f]]
        /\ received' = received
    BY <1>6 DEF closeConnection
  <2>2. CASE gone(p) = {}
    <3>1. running' = running /\ socket' = socket /\ accepted' = accepted
      BY <1>0, <2>1, <2>2
    <3> QED
      BY <2>1, <3>1, ChannelStutters
  <2>3. CASE gone(p) # {}
    <3>1. PICK f \in Features : gone(p) = {f}
      <4>1. \A f \in gone(p) : f \in Features /\ f = feature[p]
        BY FeatureWorkersAssumption
        DEF gone, Inv, SocketInv, EntrySocket, TypeOK, ManagerTypeOK
      <4> QED
        BY <2>3, <4>1
    <3>2. running' = running \ {f} /\ accepted' = [accepted EXCEPT ![f] = <<>>]
      BY <1>0, <2>1, <3>1
    <3>3. Delivered(f)' = <<>>
      BY <2>1, <3>1 DEF Delivered, Connected
    <3>4. \A g \in Features \ {f} : Delivered(g)' = Delivered(g)
      BY <2>1, <3>1 DEF Delivered, Connected
    <3>5. AllDelivered' = [AllDelivered EXCEPT ![f] = <<>>]
      BY <3>1, <3>3, <3>4 DEF AllDelivered
    <3>6. Channels!Stop(f)
      BY <3>2, <3>5 DEF Channels!Stop, AllDelivered
    <3> QED
      BY <3>1, <3>6 DEF Channels!Next
  <2> QED
    BY <2>2, <2>3
<1>7. ASSUME NEW p \in Processes, killTimeout(p) \/ sendInitMessage(p) \/ quit(p)
      PROVE  UNCHANGED Channels!channel
  <2>1. UNCHANGED <<running, socket, accepted, received>>
    BY <1>7 DEF killTimeout, historyVars, sendInitMessage, quit, managerVars
  <2> QED
    BY <2>1, ChannelStutters
<1>8. ASSUME NEW p \in Processes, receiveMessage(p)
      PROVE  Channels!Next \/ UNCHANGED Channels!channel
  <2>0. PICK f \in Features : f = feature[p]
    BY <1>0
  <2>1. /\ UNCHANGED <<running, socket, accepted>>
        /\ received' = [received EXCEPT ![p] = @ \o wire[p]]
        /\ life[p] = "alive" /\ wire[p] # <<>> /\ p # NoProcess
    BY <1>0, <1>8, FeatureWorkersAssumption DEF receiveMessage, historyVars, managerVars, batch
  <2>2. \A g \in Features : socket[g] # p => Delivered(g)' = Delivered(g)
    BY <1>0, <2>1 DEF Delivered, Connected
  <2>3. CASE socket[f] # p
    <3>1. \A g \in Features : socket[g] # p
      BY <2>0, <2>1, <2>3 DEF Inv, SocketInv, EntrySocket
    <3> QED
      BY <2>1, <2>2, <3>1 DEF Channels!channel
  <2>4. CASE socket[f] = p
    <3>1. f \in running /\ Delivered(f) = received[p] /\ Delivered(f)' = received[p] \o wire[p]
      BY <1>0, <2>1, <2>4 DEF Inv, SocketInv, EntrySocket, Delivered, Connected
    <3>2. \A g \in Features \ {f} : socket[g] # p
      BY <2>0, <2>1 DEF Inv, SocketInv, EntrySocket
    <3>3. accepted[f] = received[p] \o (wire[p] \o pending[f])
      BY <2>1, <2>4 DEF Inv, MessageInv, EntryMessages
    <3>4. pending[f] \in Seq(Message) /\ received[p] \in Seq(Message) /\ wire[p] \in Seq(Message)
      BY <1>0, <2>1 DEF TypeOK, ManagerTypeOK
    <3>5. IsStrictPrefix(Delivered(f), Delivered(f)')
      BY <2>1, <3>1, <3>4, PrefixOfConcat
    <3>6. IsPrefix(Delivered(f)', accepted[f])
      BY <3>1, <3>3, <3>4, ConcatRegroup
    <3>7. AllDelivered' = [AllDelivered EXCEPT ![f] = Delivered(f)']
      BY <2>1, <2>2, <3>2 DEF AllDelivered
    <3>8. AllDelivered[f] = Delivered(f) /\ AllDelivered'[f] = Delivered(f)'
      BY <2>1 DEF AllDelivered
    <3>9. Channels!Deliver(f)
      <4>1. /\ IsStrictPrefix(AllDelivered[f], AllDelivered'[f])
            /\ IsPrefix(AllDelivered'[f], accepted[f])
        BY <3>5, <3>6, <3>8
      <4>2. AllDelivered' = [AllDelivered EXCEPT ![f] = AllDelivered'[f]]
        BY <3>7, <3>8, Zenon
      <4> QED
        BY <2>1, <3>1, <4>1, <4>2, SamePrefix, Zenon DEF Channels!Deliver, AllDelivered
    <3> QED
      BY <2>1, <3>9 DEF Channels!Next
  <2> QED
    BY <2>3, <2>4
<1>9. CASE sendPendingMessages \/ changeSession \/ UNCHANGED vars
  <2>1. UNCHANGED <<running, socket, accepted, received>>
    BY <1>9 DEF sendPendingMessages, historyVars, changeSession, vars, managerVars, processVars
  <2> QED
    BY <2>1, ChannelStutters
<1>10. CASE shutdown
  <2>1. running' = {} /\ accepted' = [f \in Features |-> <<>>]
    BY <1>10 DEF shutdown
  <2>2. AllDelivered' = [f \in Features |-> <<>>]
    BY <2>1 DEF AllDelivered, Delivered, Connected
  <2> QED
    BY <2>1, <2>2 DEF Channels!Next, Channels!StopAll, AllDelivered
<1> QED
  BY <1>1, <1>2, <1>3, <1>4, <1>5, <1>6, <1>7, <1>8, <1>9, <1>10
  DEF Next, FeatureStep, ProcessStep

\* FeatureWorkerManager and its workers implement WorkerChannel: a worker that
\* counts as running handles exactly the messages accepted since it was started,
\* in their order, whichever processes start, connect, stay or end.
THEOREM ImplementsChannel == Spec => KeepsChannel
  BY TypeInit, TypeStep, InvInit, InvStep, ChannelInit, ChannelStep, PTL
  DEF Spec, KeepsChannel, Channels!Spec

=============================================================================
