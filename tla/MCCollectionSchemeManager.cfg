CONSTANTS
    s1 = s1
    s2 = s2
    d1 = d1
    d2 = d2
    None = None
    NoDM = NoDM
    BadList = BadList
    Ids <- MCIds
    DMIds <- MCDMIds
    SchemeLists <- MCSchemeLists
    Manifests <- MCManifests
    MaxTime = 3
    MaxUpdates = 3

SPECIFICATION Spec

INVARIANTS
    TypeOK
    TimelineCoversEnabled
    TimelineCoversIdle
    PublishedAreEnabled

PROPERTIES
    InputEventuallyProcessed
    EnabledOnlyAfterStart

\* When no input is left to deliver, the clock has stopped and the timeline
\* is empty, the manager thread blocks in mWait.wait(WaitWithPredicate)
\* forever: the program's idle state, not a deadlock.
CHECK_DEADLOCK FALSE
