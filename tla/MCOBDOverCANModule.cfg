\* The OBD thread and the manager's callbacks: PID every second, DTC every
\* two seconds, three callbacks.
CONSTANTS
    p1 = p1
    p2 = p2
    NoDict = NoDict
    ECUs = {1, 2}
    PIDs <- MCPIDs
    Supported <- MCSupported
    Dictionaries <- MCDictionaries
    NoDictionary <- NoDict
    PIDInterval = 1
    DTCInterval = 2
    MaxUpdates = 3

SPECIFICATION Spec

INVARIANT PIDsPartitioned

PROPERTIES
    WokenWhenWorkArrives

\* Deadlock is not checked: with no dictionary and no DTC request the
\* thread waits in mDataAvailableWait.wait(WaitWithPredicate) for a
\* callback that may never come, and after a failed initECUs the thread
\* has ended.
CHECK_DEADLOCK FALSE
