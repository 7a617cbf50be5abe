\* spec.md section 5 claims each socket has one owning thread; the manager
\* thread's onChangeOfActiveDictionary walks mECUs while the OBD thread
\* creates ECUs or requests DTCs.
CONSTANTS
    p1 = p1
    p2 = p2
    NoDict = NoDict
    ECUs = {1, 2}
    PIDs <- MCPIDs
    Supported <- MCSupported
    Dictionaries <- MCDictionaries
    NoDictionary <- NoDict
    PIDInterval = 1
    DTCInterval = 2
    MaxUpdates = 3

SPECIFICATION Spec

PROPERTY ECUsOwnedByOBDThread

CHECK_DEADLOCK FALSE
