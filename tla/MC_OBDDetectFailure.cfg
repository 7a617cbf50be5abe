\* spec.md section 4.3 says a socket failure during discovery yields an
\* empty ECU set and a retry; a poll or recv error after some answers
\* does not.
CONSTANTS
    Frames <- MCFrames
    MaxFrames = 2

SPECIFICATION Spec

INVARIANT NoECUsFromFailedDetection

CHECK_DEADLOCK FALSE
