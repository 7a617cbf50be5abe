\* The sender thread with a retry interval of two ticks.
CONSTANTS
    x1 = x1
    x2 = x2
    old = old
    Payloads <- MCPayloads
    StoredAtStart <- MCStoredAtStart
    NoPersist <- MCNoPersist
    RetryInterval = 2

SPECIFICATION Spec

PROPERTIES
    QueuedEventuallyHandled
    PersistedEventuallyRetried
    DeliverySpec

\* Deadlock is checked: with a retry interval the timed wait always returns.
