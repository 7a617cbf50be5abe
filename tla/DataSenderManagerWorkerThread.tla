-------------------- MODULE DataSenderManagerWorkerThread --------------------
(***************************************************************************)
(* The sender thread of src/src/DataSenderManagerWorkerThread.cpp.         *)
(*                                                                         *)
(* Producers push payloads into the outbound queues and call               *)
(* onDataReadyToPublish, which notifies mWait.  The thread waits (on the   *)
(* retry timer when mPersistencyUploadRetryIntervalMs > 0, else for a      *)
(* notify), drains every queue, then, on its first pass and whenever the   *)
(* retry timer has run out, asks the DataSenderManager to resend the       *)
(* payloads persisted by earlier failed sends, if connectivity is up.      *)
(*                                                                         *)
(* A payload is a model value.  The DataSenderManager and the connectivity *)
(* module are not under src/: a send succeeds exactly when the connection *)
(* is up; a failed send is persisted when the payload's scheme has         *)
(* persist_flag set, and discarded otherwise (spec.md sections 4.8 and 7,  *)
(* SendFailure).  The retry                                                *)
(* timer counts elapsed ticks and saturates at the interval, the only     *)
(* value the code compares it with.                                        *)
(***************************************************************************)
EXTENDS Naturals

CONSTANTS
    Payloads,           \* payloads the producers may push
    StoredAtStart,      \* payloads persisted by an earlier run
    NoPersist,          \* payloads of schemes with persist_flag unset
    RetryInterval       \* mPersistencyUploadRetryIntervalMs, in ticks

ASSUME SenderAssumption ==
    /\ RetryInterval \in Nat
    /\ Payloads \cap StoredAtStart = {}
    /\ NoPersist \subseteq Payloads

VARIABLES
    queue,          \* payloads in the DataSenderQueues
    persisted,      \* payloads in persistent storage
    sent,           \* payloads delivered to the cloud
    discarded,      \* payloads dropped after a failed send
    connected,      \* mConnectivityModule.isAlive()
    elapsed,        \* mRetrySendingPersistedDataTimer.getElapsedMs(), capped
    uploadedOnce,   \* uploadedPersistedDataOnce
    wakeup,         \* pending notify() on mWait
    pc              \* position of the thread in doWork

vars == <<queue, persisted, sent, discarded, connected, elapsed, uploadedOnce, wakeup, pc>>

-----------------------------------------------------------------------------
(* Producers, connectivity and the clock                                   *)

\* Mutant: the producer's callback forgets to notify the thread.
MutantReadyNoNotify == UNCHANGED wakeup

onDataReadyToPublish == wakeup' = TRUE

\* A producer pushes a new payload into a queue and signals the thread.
Produce(p) ==
    /\ p \notin queue \cup persisted \cup sent \cup discarded
    /\ queue' = queue \cup {p}
    /\ onDataReadyToPublish
    /\ UNCHANGED <<persisted, sent, discarded, connected, elapsed,
                   uploadedOnce, pc>>

ConnectivityChange ==
    /\ connected' = ~connected
    /\ UNCHANGED <<queue, persisted, sent, discarded, elapsed, uploadedOnce, wakeup, pc>>

Tick ==
    /\ elapsed < RetryInterval
    /\ elapsed' = elapsed + 1
    /\ UNCHANGED <<queue, persisted, sent, discarded, connected, uploadedOnce, wakeup, pc>>

-----------------------------------------------------------------------------
(* doWork                                                                  *)

\* The timed wait returns when the remaining retry time is spent, or on a
\* notify; with no retry interval only a notify ends the wait.
TimerDue == RetryInterval > 0 /\ elapsed >= RetryInterval

Wait ==
    /\ pc = "wait"
    /\ wakeup \/ TimerDue
    /\ wakeup' = FALSE
    /\ pc' = "consume"
    /\ UNCHANGED <<queue, persisted, sent, discarded, connected, elapsed, uploadedOnce>>

\* DataSenderManager::processData: sent when connected; otherwise kept in
\* storage when its scheme asks for persistence, else discarded.
processData(ps) ==
    IF connected
    THEN sent' = sent \cup ps /\ UNCHANGED <<persisted, discarded>>
    ELSE /\ persisted' = persisted \cup (ps \ NoPersist)
         /\ discarded' = discarded \cup (ps \cap NoPersist)
         /\ UNCHANGED sent

\* Mutant: the queues are emptied while offline without handing the
\* payloads to processData.
MutantConsumeDropOffline ==
    /\ pc = "consume"
    /\ pc' = "retry"
    /\ queue' = {}
    /\ IF connected THEN processData(queue)
                     ELSE UNCHANGED <<sent, persisted, discarded>>
    /\ UNCHANGED <<connected, elapsed, uploadedOnce, wakeup>>

\* Mutant: payloads are left in the queue while the connection is down.
MutantConsumeOnlyConnected ==
    /\ pc = "consume"
    /\ pc' = "retry"
    /\ IF connected
       THEN queue' = {} /\ processData(queue)
       ELSE UNCHANGED <<queue, sent, persisted, discarded>>
    /\ UNCHANGED <<connected, elapsed, uploadedOnce, wakeup>>

\* queue->consumeAll for every queue.
ConsumeQueues ==
    /\ pc = "consume"
    /\ pc' = "retry"
    /\ queue' = {}
    /\ processData(queue)
    /\ UNCHANGED <<connected, elapsed, uploadedOnce, wakeup>>

\* DataSenderManager::checkAndSendRetrievedData with the connection up.
checkAndSendRetrievedData ==
    /\ sent' = sent \cup persisted
    /\ persisted' = {}

\* Mutant: retry only on the first pass, the timer clause dropped.
MutantRetryOnceOnly ==
    /\ pc = "retry"
    /\ pc' = "wait"
    /\ IF ~uploadedOnce
       THEN /\ elapsed' = 0
            /\ IF connected
               THEN checkAndSendRetrievedData /\ uploadedOnce' = TRUE
               ELSE UNCHANGED <<sent, persisted, uploadedOnce>>
       ELSE UNCHANGED <<elapsed, sent, persisted, uploadedOnce>>
    /\ UNCHANGED <<queue, discarded, connected, wakeup>>

RetryPersisted ==
    /\ pc = "retry"
    /\ pc' = "wait"
    /\ IF ~uploadedOnce \/ TimerDue
       THEN /\ elapsed' = 0
            /\ IF connected
               THEN checkAndSendRetrievedData /\ uploadedOnce' = TRUE
               ELSE UNCHANGED <<sent, persisted, uploadedOnce>>
       ELSE UNCHANGED <<elapsed, sent, persisted, uploadedOnce>>
    /\ UNCHANGED <<queue, discarded, connected, wakeup>>

-----------------------------------------------------------------------------

Init ==
    /\ queue = {}
    /\ persisted = StoredAtStart
    /\ sent = {}
    /\ discarded = {}
    /\ connected \in BOOLEAN
    /\ elapsed = 0
    /\ uploadedOnce = FALSE
    /\ wakeup = FALSE
    /\ pc = "wait"

Worker == Wait \/ ConsumeQueues \/ RetryPersisted

Environment ==
    \/ \E p \in Payloads : Produce(p)
    \/ ConnectivityChange
    \/ Tick

Next == Worker \/ Environment

\* The sender thread runs whenever it can, and real time passes; producers
\* and the connection owe the thread nothing.
Spec == Init /\ [][Next]_vars /\ WF_vars(Worker) /\ WF_vars(Tick)

-----------------------------------------------------------------------------
(* Properties                                                              *)

\* Every variable holds a value of its type.
TypeOK ==
    /\ queue \subseteq Payloads
    /\ persisted \subseteq Payloads \cup StoredAtStart
    /\ sent \subseteq Payloads \cup StoredAtStart
    /\ discarded \subseteq Payloads
    /\ connected \in BOOLEAN
    /\ elapsed \in 0..RetryInterval
    /\ uploadedOnce \in BOOLEAN
    /\ wakeup \in BOOLEAN
    /\ pc \in {"wait", "consume", "retry"}

\* A payload pushed into a queue is eventually taken out of it by
\* consumeAll: the notify of onDataReadyToPublish is never lost, even when
\* the thread waits without a timeout, and a payload pushed while the
\* thread is draining the queues is taken on the next pass.
QueuedEventuallyHandled ==
    \A p \in Payloads : (p \in queue) ~> (p \notin queue)

\* A persisted payload, from an earlier run or from a send that failed
\* while offline, is eventually resent as long as the connection stays up:
\* the retry timer of doWork keeps running out and retrying after the first
\* successful upload.
PersistedEventuallyRetried ==
    \A p \in Payloads \cup StoredAtStart :
        (p \in persisted) ~> (p \notin persisted \/ ~connected)

\* The sender thread implements the delivery promise of DataDelivery: a
\* payload is pending while it sits in a queue or in persistent storage,
\* delivered once sent, lost once discarded.  consumeAll hands every
\* queued payload to processData, so a payload whose scheme asks for
\* persistence is never lost, and only after a failed send is one without
\* that flag dropped; the persisted-data retry never resurrects a sent
\* payload, and a payload is sent only after a producer pushed it or it
\* was stored.
Delivery == INSTANCE DataDelivery WITH pending <- queue \cup persisted,
                                       delivered <- sent,
                                       lost <- discarded,
                                       Discardable <- NoPersist

DeliverySpec == Delivery!Spec

=============================================================================
