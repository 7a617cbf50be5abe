\* The sender thread with mPersistencyUploadRetryIntervalMs = 0: the wait
\* has no timeout and only a producer's notify wakes the thread.
CONSTANTS
    x1 = x1
    x2 = x2
    old = old
    Payloads <- MCPayloads
    StoredAtStart <- MCStoredAtStart
    NoPersist <- MCNoPersist
    RetryInterval = 0

SPECIFICATION Spec

PROPERTIES
    QueuedEventuallyHandled

\* With no retry timer and every payload pushed, the thread blocks in
\* mWait.wait(WaitWithPredicate) for good: the program's idle state.
CHECK_DEADLOCK FALSE
