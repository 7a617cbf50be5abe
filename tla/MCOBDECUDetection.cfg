\* One detection round with up to three frames per attempt.
CONSTANTS
    Frames <- MCFrames
    MaxFrames = 3

SPECIFICATION Spec

INVARIANTS
    TypeOK
    TxIDsFollowSpec

\* Deadlock is not checked: once the ECUs are created detection is over
\* and the thread goes on with the request loop (OBDOverCANModule.tla).
CHECK_DEADLOCK FALSE
