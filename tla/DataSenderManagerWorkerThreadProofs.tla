---------------- MODULE DataSenderManagerWorkerThreadProofs -----------------
(***************************************************************************)
(* Type correctness of the sender thread, for every retry interval, and    *)
(* that the thread implements the delivery promise of DataDelivery.        *)
(***************************************************************************)
EXTENDS DataSenderManagerWorkerThread, TLAPS

\* Every step of the sender thread, of the producers, of the connection and
\* of the clock keeps each variable in its type.
THEOREM SenderTypeCorrect == Spec => []TypeOK
<1>1. Init => TypeOK
  <2> SUFFICES ASSUME Init PROVE TypeOK
    OBVIOUS
  <2>1. elapsed \in 0..RetryInterval
    BY SenderAssumption DEF Init
  <2>2. /\ queue \subseteq Payloads
        /\ persisted \subseteq Payloads \cup StoredAtStart
        /\ sent \subseteq Payloads \cup StoredAtStart
        /\ discarded \subseteq Payloads
        /\ pc \in {"wait", "consume", "retry"}
    BY DEF Init
  <2>3. connected \in BOOLEAN /\ uploadedOnce \in BOOLEAN /\ wakeup \in BOOLEAN
    BY Zenon DEF Init
  <2> QED
    BY <2>1, <2>2, <2>3, Zenon DEF TypeOK
<1>2. TypeOK /\ [Next]_vars => TypeOK'
  <2> SUFFICES ASSUME TypeOK, [Next]_vars PROVE TypeOK'
    OBVIOUS
  <2>1. ASSUME NEW p \in Payloads, Produce(p) PROVE TypeOK'
    BY <2>1 DEF Produce, onDataReadyToPublish, TypeOK
  <2>2. CASE ConnectivityChange
    BY <2>2 DEF ConnectivityChange, TypeOK
  <2>3. CASE Tick
    BY <2>3, SenderAssumption DEF Tick, TypeOK
  <2>4. CASE Wait
    BY <2>4 DEF Wait, TypeOK
  <2>5. CASE ConsumeQueues
    BY <2>5, SenderAssumption DEF ConsumeQueues, processData, TypeOK
  <2>6. CASE RetryPersisted
    <3>1. elapsed' \in 0..RetryInterval
      BY <2>6, SenderAssumption DEF RetryPersisted, TypeOK
    <3>2. /\ persisted' \subseteq Payloads \cup StoredAtStart
          /\ sent' \subseteq Payloads \cup StoredAtStart
          /\ pc' \in {"wait", "consume", "retry"}
          /\ queue' = queue /\ discarded' = discarded
      BY <2>6 DEF RetryPersisted, checkAndSendRetrievedData, TypeOK
    <3>3. /\ connected' \in BOOLEAN /\ uploadedOnce' \in BOOLEAN
          /\ wakeup' \in BOOLEAN
      BY <2>6, Zenon DEF RetryPersisted, checkAndSendRetrievedData, TypeOK
    <3> QED
      BY <3>1, <3>2, <3>3, Zenon DEF TypeOK
  <2>7. CASE UNCHANGED vars
    BY <2>7 DEF vars, TypeOK
  <2> QED
    BY <2>1, <2>2, <2>3, <2>4, <2>5, <2>6, <2>7 DEF Next, Worker, Environment
<1> QED
  BY <1>1, <1>2, PTL DEF Spec

-----------------------------------------------------------------------------
(* Refinement of DataDelivery                                              *)

\* A payload is in at most one place: a queue, storage, the cloud, or the
\* discarded ones.
Disjoint ==
    /\ queue \cap persisted = {}
    /\ queue \cap sent = {}
    /\ queue \cap discarded = {}
    /\ persisted \cap sent = {}
    /\ persisted \cap discarded = {}
    /\ sent \cap discarded = {}

\* A producer only pushes a payload that is nowhere yet; consumeAll moves
\* the whole queue to the cloud, or splits it between storage and the
\* discarded ones, and the retry moves the whole storage to the cloud.
LEMMA DisjointStep == Disjoint /\ [Next]_vars => Disjoint'
<1> SUFFICES ASSUME Disjoint, [Next]_vars PROVE Disjoint'
  OBVIOUS
<1>1. ASSUME NEW p \in Payloads, Produce(p) PROVE Disjoint'
  BY <1>1 DEF Produce, Disjoint
<1>2. CASE ConsumeQueues
  BY <1>2 DEF ConsumeQueues, processData, Disjoint
<1>3. CASE RetryPersisted
  BY <1>3 DEF RetryPersisted, checkAndSendRetrievedData, Disjoint
<1>4. CASE ConnectivityChange \/ Tick \/ Wait \/ UNCHANGED vars
  BY <1>4 DEF ConnectivityChange, Tick, Wait, vars, Disjoint
<1> QED
  BY <1>1, <1>2, <1>3, <1>4 DEF Next, Worker, Environment

\* Each step of the thread, the producers, the connection or the clock is a
\* Submit, a Deliver, or leaves the pending and delivered sets alone.
LEMMA RefinementStep ==
    Disjoint /\ [Next]_vars => [Delivery!Next]_Delivery!vars
<1> SUFFICES ASSUME Disjoint, [Next]_vars
             PROVE  [Delivery!Next]_Delivery!vars
  OBVIOUS
<1>1. ASSUME NEW p \in Payloads, Produce(p)
      PROVE  [Delivery!Next]_Delivery!vars
  \* the push of a new payload is a Submit
  <2>1. Delivery!Submit(p)
    BY <1>1 DEF Produce, Delivery!Submit
  <2> QED
    BY <2>1 DEF Delivery!Next
<1>2. CASE ConsumeQueues
  <2>1. CASE connected /\ queue = {}
    \* nothing to send
    BY <1>2, <2>1 DEF ConsumeQueues, processData, Delivery!vars
  <2>3. CASE ~connected /\ queue \cap NoPersist = {}
    \* the whole queue moves to storage: still pending
    BY <1>2, <2>3 DEF ConsumeQueues, processData, Delivery!vars
  <2>4. CASE ~connected /\ queue \cap NoPersist # {}
    \* the payloads without persist_flag are lost, the others stored
    <3>1. Delivery!Discard(queue \cap NoPersist)
      BY <1>2, <2>4 DEF ConsumeQueues, processData, Disjoint, Delivery!Discard
    <3>2. queue \cap NoPersist \in SUBSET (queue \cup persisted)
      OBVIOUS
    <3> QED
      BY <3>1, <3>2 DEF Delivery!Next
  <2>2. CASE connected /\ queue # {}
    \* the whole queue is delivered
    <3>1. Delivery!Deliver(queue)
      BY <1>2, <2>2 DEF ConsumeQueues, processData, Disjoint, Delivery!Deliver
    <3> QED
      BY <3>1 DEF Delivery!Next
  <2> QED
    BY <2>1, <2>2, <2>3, <2>4
<1>3. CASE RetryPersisted
  <2>1. CASE (~uploadedOnce \/ TimerDue) /\ connected /\ persisted # {}
    \* the whole storage is delivered
    <3>1. Delivery!Deliver(persisted)
      BY <1>3, <2>1 DEF RetryPersisted, checkAndSendRetrievedData, Disjoint,
                        Delivery!Deliver
    <3> QED
      BY <3>1 DEF Delivery!Next
  <2>2. CASE ~((~uploadedOnce \/ TimerDue) /\ connected /\ persisted # {})
    BY <1>3, <2>2 DEF RetryPersisted, checkAndSendRetrievedData, Delivery!vars
  <2> QED
    BY <2>1, <2>2
<1>4. CASE ConnectivityChange \/ Tick \/ Wait \/ UNCHANGED vars
  BY <1>4 DEF ConnectivityChange, Tick, Wait, vars, Delivery!vars
<1> QED
  BY <1>1, <1>2, <1>3, <1>4 DEF Next, Worker, Environment

\* The sender thread implements DataDelivery under the mapping of a queued
\* or persisted payload to pending, a sent one to delivered and a
\* discarded one to lost: no interleaving of pushes, connectivity changes,
\* timer expiries and the steps of doWork loses a payload whose scheme has
\* persist_flag set, loses any payload other than after a failed send,
\* sends one that was never handed over, or takes back one that was sent.
THEOREM SenderRefinesDelivery == Spec => DeliverySpec
<1>1. Init => Delivery!Init /\ Disjoint
  BY DEF Init, Delivery!Init, Disjoint
<1>2. Disjoint /\ [Next]_vars => Disjoint'
  BY DisjointStep
<1>3. Disjoint /\ [Next]_vars => [Delivery!Next]_Delivery!vars
  BY RefinementStep
<1> QED
  BY <1>1, <1>2, <1>3, PTL DEF Spec, DeliverySpec, Delivery!Spec

=============================================================================
