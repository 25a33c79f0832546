----------------------------- MODULE WorkerChannel -----------------------------
(***************************************************************************)
(* What a feature plugin relies on when it forwards messages to its worker *)
(* process (FeatureWorkerManager::startWorker, stopWorker, sendMessage and *)
(* isWorkerRunning): while a worker counts as running, it receives exactly *)
(* the messages accepted since it was started, in the order in which they  *)
(* were accepted.  Nothing is promised once the worker is gone.            *)
(***************************************************************************)
EXTENDS Sequences, SequencesExt

CONSTANTS Features, Message

VARIABLES
  running,     \* features for which isWorkerRunning() holds
  accepted,    \* messages accepted since the feature's worker was started
  delivered    \* those the worker has handled

channel == <<running, accepted, delivered>>

Init ==
  /\ running = {}
  /\ accepted = [f \in Features |-> <<>>]
  /\ delivered = [f \in Features |-> <<>>]

\* Whatever was under way for an earlier worker is dropped.  A message that makes
\* the plugin start the worker is accepted in the same step.
Start(f) ==
  /\ running' = running \cup {f}
  /\ \E messages \in {<<>>} \cup {<<m>> : m \in Message} :
       accepted' = [accepted EXCEPT ![f] = messages]
  /\ delivered' = [delivered EXCEPT ![f] = <<>>]

Accept(f) ==
  /\ f \in running
  /\ \E m \in Message : accepted' = [accepted EXCEPT ![f] = Append(@, m)]
  /\ UNCHANGED <<running, delivered>>

\* A worker reads all messages that have arrived.
Deliver(f) ==
  /\ f \in running
  /\ IsStrictPrefix(delivered[f], delivered'[f])
  /\ IsPrefix(delivered'[f], accepted[f])
  /\ delivered' = [delivered EXCEPT ![f] = delivered'[f]]
  /\ UNCHANGED <<running, accepted>>

Stop(f) ==
  /\ running' = running \ {f}
  /\ accepted' = [accepted EXCEPT ![f] = <<>>]
  /\ delivered' = [delivered EXCEPT ![f] = <<>>]

\* The server ends.
StopAll ==
  /\ running' = {}
  /\ accepted' = [f \in Features |-> <<>>]
  /\ delivered' = [f \in Features |-> <<>>]

Next ==
  \/ \E f \in Features : Start(f) \/ Accept(f) \/ Deliver(f) \/ Stop(f)
  \/ StopAll

Spec == Init /\ [][Next]_channel

=============================================================================
