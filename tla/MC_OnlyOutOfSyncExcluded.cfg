CONSTANTS
    s1 = s1
    s2 = s2
    d1 = d1
    d2 = d2
    None = None
    NoDM = NoDM
    BadList = BadList
    Ids <- MCIds
    DMIds <- MCDMIds
    SchemeLists <- MCSchemeLists
    Manifests <- MCManifests
    MaxTime = 3
    MaxUpdates = 3

SPECIFICATION Spec

PROPERTIES
    OnlyOutOfSyncExcluded

CHECK_DEADLOCK FALSE
