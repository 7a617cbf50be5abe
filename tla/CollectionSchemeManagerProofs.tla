------------------- MODULE CollectionSchemeManagerProofs --------------------
(***************************************************************************)
(* Proofs about CollectionSchemeManager: type correctness, and that the    *)
(* timeline keeps an entry for every start and expiry still to come, for   *)
(* every value of the constants.                                           *)
(***************************************************************************)
EXTENDS CollectionSchemeManager, TLAPS

\* An enabled scheme and an idle scheme never share an ID.
MapsDisjoint == \A i \in Ids : enabled[i] = None \/ idle[i] = None

\* Idle schemes start before they expire, so their start entry pops first.
IdleWellFormed == \A i \in Loaded(idle) : idle[i].start < idle[i].stop

\* The inductive strengthening of the two coverage invariants.
IInv ==
    /\ TypeOK
    /\ checkTime <= now
    /\ MapsDisjoint
    /\ IdleWellFormed
    /\ TimelineCoversEnabled
    /\ TimelineCoversIdle

-----------------------------------------------------------------------------
(* Type correctness                                                        *)

\* TypeOK split in two: the SMT backend proves the data conjuncts, and Zenon
\* the Boolean flags of doWork, which SMT handles poorly next to arithmetic.
TypeFlags ==
    /\ schemeAvail \in BOOLEAN
    /\ dmAvail \in BOOLEAN
    /\ wakeup \in BOOLEAN
    /\ processScheme \in BOOLEAN
    /\ processDM \in BOOLEAN
    /\ dmChanged \in BOOLEAN
    /\ mapChanged \in BOOLEAN
    /\ initialCheckin \in BOOLEAN

TypeData ==
    /\ now \in Time
    /\ updates \in 0..MaxUpdates
    /\ schemeInput \in SchemeLists \cup {BadList, None}
    /\ dmInput \in Manifest \cup {None}
    /\ schemeList \in SchemeLists \cup {BadList, None}
    /\ dm \in Manifest \cup {None}
    /\ currentDM \in DMIds \cup {NoDM}
    /\ enabled \in [Ids -> Scheme \cup {None}]
    /\ idle \in [Ids -> Scheme \cup {None}]
    /\ timeline \subseteq Time \X Ids
    /\ persistedList \in SchemeLists \cup {None}
    /\ persistedDM \in Manifest \cup {None}
    /\ checkin \subseteq Ids \cup DMIds
    /\ published \in [Ids -> Scheme \cup {None}]
    /\ pc \in {"dm", "scheme", "timeline", "pop", "docs", "wait"}
    /\ checkTime \in Time

LEMMA TypeSplit == TypeOK <=> TypeData /\ TypeFlags
BY Zenon DEF TypeOK, TypeData, TypeFlags

\* A scheme of a deliverable list is a Scheme that starts before it stops.
LEMMA ListSchemes ==
    ASSUME NEW l \in SchemeLists, NEW i \in Ids, l[i] # None
    PROVE  l[i] \in Scheme /\ l[i].start < l[i].stop
BY ConstantsAssumption

\* The entries updateMapsandTimeLine and rebuildMapsandTimeLine push are
\* pairs of a time and an ID.
LEMMA PushedTyped ==
    ASSUME NEW l \in SchemeLists, NEW t \in Time, NEW i \in Ids,
           enabled \in [Ids -> Scheme \cup {None}],
           idle \in [Ids -> Scheme \cup {None}]
    PROVE  /\ UpdPushed(l, t, i) \subseteq Time \X Ids
           /\ UpdEnabled(l, t, i) \in Scheme \cup {None}
           /\ UpdIdle(l, t, i) \in Scheme \cup {None}
<1>1. l[i] # None => l[i].start \in Time /\ l[i].stop \in Time
                      /\ l[i] \in Scheme
  BY ListSchemes DEF Scheme
<1>2. UpdPushed(l, t, i) \subseteq Time \X Ids
  <2>1. CASE Branch(l, i) = "removed"
    BY <2>1 DEF UpdPushed
  <2>2. CASE Branch(l, i) # "removed"
    <3>1. l[i] # None
      BY <2>2 DEF Branch
    <3>2. <<l[i].start, i>> \in Time \X Ids /\ <<l[i].stop, i>> \in Time \X Ids
      BY <1>1, <3>1
    <3> QED
      BY <3>2 DEF UpdPushed
  <2> QED
    BY <2>1, <2>2
<1>3. UpdEnabled(l, t, i) \in Scheme \cup {None}
  BY <1>1 DEF UpdEnabled, Branch
<1>4. UpdIdle(l, t, i) \in Scheme \cup {None}
  BY <1>1 DEF UpdIdle, Branch
<1> QED
  BY <1>2, <1>3, <1>4

\* Each step of the manager thread, of the callbacks and of the clock keeps
\* the data in its type.
LEMMA DataStep ==
    TypeData /\ TypeFlags /\ [Next]_vars => TypeData'
<1> SUFFICES ASSUME TypeData, TypeFlags, [Next]_vars PROVE TypeData'
  OBVIOUS
<1> USE ConstantsAssumption
<1>1. ASSUME NEW l \in SchemeLists \cup {BadList}, onCollectionSchemeUpdate(l)
      PROVE TypeData'
  BY <1>1 DEF onCollectionSchemeUpdate, TypeData, mgrVars
<1>2. ASSUME NEW m \in Manifests, onDecoderManifestUpdate(m)
      PROVE TypeData'
  BY <1>2 DEF onDecoderManifestUpdate, TypeData, mgrVars
<1>3. CASE Tick
  BY <1>3 DEF Tick, TypeData, mgrVars, Time
<1>4. CASE DecoderManifestStep
  <2>1. currentDM' \in DMIds \cup {NoDM} /\ persistedDM' \in Manifest \cup {None}
    BY <1>4 DEF DecoderManifestStep, processDecoderManifest, TypeData, Manifest
  <2> QED
    BY <1>4, <2>1 DEF DecoderManifestStep, TypeData, envVars
<1>5. CASE CollectionSchemeStep
  <2>1. CASE ~processScheme \/ schemeList \in {None, BadList}
    BY <1>5, <2>1 DEF CollectionSchemeStep, processCollectionScheme, TypeData,
                      envVars
  <2>2. CASE processScheme /\ schemeList \notin {None, BadList}
    <3> DEFINE l == schemeList
    <3>1. l \in SchemeLists
      BY <2>2 DEF TypeData
    <3>2. /\ pc' = "timeline"
          /\ persistedList' = l
          /\ \/ updateMapsandTimeLine(l, now)
             \/ rebuildMapsandTimeLine(l, now)
          /\ UNCHANGED <<envVars, schemeList, dm, currentDM, persistedDM,
                         checkin, published, checkTime>>
      BY <1>5, <2>2 DEF CollectionSchemeStep, processCollectionScheme
    <3>3. now \in Time /\ enabled \in [Ids -> Scheme \cup {None}]
                      /\ idle \in [Ids -> Scheme \cup {None}]
      BY DEF TypeData
    <3>4. CASE updateMapsandTimeLine(l, now)
      BY <3>1, <3>2, <3>3, <3>4, PushedTyped
         DEF updateMapsandTimeLine, TypeData, envVars
    <3>5. CASE rebuildMapsandTimeLine(l, now)
      <4>1. \A i \in Loaded(l) : l[i] \in Scheme
        BY <3>1, ListSchemes DEF Loaded
      <4> QED
        BY <3>1, <3>2, <3>3, <3>5, <4>1
           DEF rebuildMapsandTimeLine, TypeData, envVars, Loaded, Scheme
    <3> QED
      BY <3>2, <3>4, <3>5
  <2> QED
    BY <2>1, <2>2
<1>6. CASE CheckTimeLineBegin
  BY <1>6 DEF CheckTimeLineBegin, TypeData, envVars
<1>7. CASE TimeLinePop
  <2>1. CASE timeline = {}
    BY <1>7, <2>1 DEF TimeLinePop, checkTimeLine, TypeData, envVars, Top
  <2>2. CASE timeline # {}
    <3>1. PICK e \in Top(timeline) :
               \/ /\ ~ValidEntry(e)
                  /\ timeline' = timeline \ {e}
                  /\ UNCHANGED <<pc, enabled, idle, mapChanged>>
               \/ /\ ValidEntry(e)
                  /\ e[1] <= checkTime
                  /\ enabled' = [enabled EXCEPT ![e[2]] =
                           IF enabled[e[2]] # None THEN None ELSE idle[e[2]]]
                  /\ idle' = [idle EXCEPT ![e[2]] =
                           IF enabled[e[2]] # None THEN idle[e[2]] ELSE None]
                  /\ timeline' = timeline \ {e}
                  /\ mapChanged' = TRUE
                  /\ UNCHANGED pc
               \/ /\ ValidEntry(e)
                  /\ e[1] > checkTime
                  /\ pc' = "docs"
                  /\ UNCHANGED <<enabled, idle, timeline, mapChanged>>
      BY <1>7, <2>2 DEF TimeLinePop, checkTimeLine
    <3>2. e \in Time \X Ids
      BY DEF Top, TypeData
    <3> QED
      BY <1>7, <3>1, <3>2 DEF TimeLinePop, TypeData, envVars
  <2> QED
    BY <2>1, <2>2
<1>8. CASE DocumentsStep
  <2>1. checkin' \subseteq Ids \cup DMIds
    BY <1>8 DEF DocumentsStep, updateCheckinDocuments, TypeData, Loaded
  <2>2. published' \in [Ids -> Scheme \cup {None}]
    BY <1>8 DEF DocumentsStep, updateActiveCollectionSchemeListeners,
                TypeData, NoSchemes
  <2> QED
    BY <1>8, <2>1, <2>2 DEF DocumentsStep, TypeData, envVars
<1>9. CASE Wake
  BY <1>9 DEF Wake, updateAvailable, TypeData
<1>10. CASE UNCHANGED vars
  BY <1>10 DEF vars, envVars, mgrVars, TypeData
<1> QED
  BY <1>1, <1>2, <1>3, <1>4, <1>5, <1>6, <1>7, <1>8, <1>9, <1>10
     DEF Next, Manager, Environment

\* Each step keeps the flags of the mailboxes and of doWork Boolean.
LEMMA FlagStep ==
    TypeFlags /\ [Next]_vars => TypeFlags'
<1> SUFFICES ASSUME TypeFlags, [Next]_vars PROVE TypeFlags'
  OBVIOUS
<1>1. ASSUME NEW l \in SchemeLists \cup {BadList}, onCollectionSchemeUpdate(l)
      PROVE TypeFlags'
  BY <1>1, Zenon DEF onCollectionSchemeUpdate, TypeFlags, mgrVars
<1>2. ASSUME NEW m \in Manifests, onDecoderManifestUpdate(m)
      PROVE TypeFlags'
  BY <1>2, Zenon DEF onDecoderManifestUpdate, TypeFlags, mgrVars
<1>3. CASE Tick
  BY <1>3, Zenon DEF Tick, TypeFlags, mgrVars
<1>4. CASE DecoderManifestStep
  BY <1>4, Zenon DEF DecoderManifestStep, processDecoderManifest, TypeFlags,
                     envVars
<1>5. CASE CollectionSchemeStep
  BY <1>5, Zenon DEF CollectionSchemeStep, processCollectionScheme,
                     updateMapsandTimeLine, rebuildMapsandTimeLine, TypeFlags,
                     envVars
<1>6. CASE CheckTimeLineBegin
  BY <1>6, Zenon DEF CheckTimeLineBegin, TypeFlags, envVars
<1>7. CASE TimeLinePop
  BY <1>7, Zenon DEF TimeLinePop, checkTimeLine, TypeFlags, envVars
<1>8. CASE DocumentsStep
  BY <1>8, Zenon DEF DocumentsStep, TypeFlags, envVars
<1>9. CASE Wake
  BY <1>9, Zenon DEF Wake, updateAvailable, TypeFlags
<1>10. CASE UNCHANGED vars
  BY <1>10, Zenon DEF vars, envVars, mgrVars, TypeFlags
<1> QED
  BY <1>1, <1>2, <1>3, <1>4, <1>5, <1>6, <1>7, <1>8, <1>9, <1>10
     DEF Next, Manager, Environment

\* Type correctness of the whole model: the callbacks, the clock and every
\* step of doWork keep each variable in its type.
THEOREM TypeCorrect == Spec => []TypeOK
<1>1. Init => TypeData
  BY ConstantsAssumption DEF Init, TypeData, NoSchemes, Time
<1>2. Init => TypeFlags
  BY DEF Init, TypeFlags
<1>3. TypeData /\ TypeFlags /\ [Next]_vars => TypeData' /\ TypeFlags'
  BY DataStep, FlagStep
<1> QED
  BY <1>1, <1>2, <1>3, TypeSplit, PTL DEF Spec

-----------------------------------------------------------------------------
(* The timeline covers every pending start and expiry                      *)

\* IInv without its type part.
Coverage ==
    /\ checkTime <= now
    /\ MapsDisjoint
    /\ IdleWellFormed
    /\ TimelineCoversEnabled
    /\ TimelineCoversIdle

\* A step that leaves the clock, the maps and the timeline alone keeps the
\* coverage.
LEMMA CoverageFrame ==
    ASSUME Coverage, UNCHANGED <<now, checkTime, enabled, idle, timeline>>
    PROVE  Coverage'
BY DEF Coverage, MapsDisjoint, IdleWellFormed, TimelineCoversEnabled,
       TimelineCoversIdle, Loaded

\* What updateMapsandTimeLine leaves for one scheme ID i, when the maps
\* covered it before: still disjoint, well formed, and covered by the old
\* entries together with the ones pushed for i.
LEMMA UpdateCoversId ==
    ASSUME TypeOK, Coverage, NEW l \in SchemeLists, NEW i \in Ids
    PROVE  LET E == UpdEnabled(l, now, i)
               D == UpdIdle(l, now, i)
               T == timeline \cup UpdPushed(l, now, i)
           IN  /\ E = None \/ D = None
               /\ D # None => D.start < D.stop
               /\ E # None /\ E.stop > now => <<E.stop, i>> \in T
               /\ D # None /\ D.stop > now =>
                      <<D.start, i>> \in T /\ <<D.stop, i>> \in T
<1> DEFINE E == UpdEnabled(l, now, i)
           D == UpdIdle(l, now, i)
           T == timeline \cup UpdPushed(l, now, i)
<1>0. /\ now \in Nat
      /\ l[i] # None => l[i] \in Scheme /\ l[i].start < l[i].stop
      /\ enabled[i] # None => enabled[i] \in Scheme
      /\ idle[i] # None => idle[i] \in Scheme
  BY ListSchemes, ConstantsAssumption DEF TypeOK, Time
<1>1. CASE Branch(l, i) = "removed"
  BY <1>1 DEF UpdEnabled, UpdIdle
<1>2. CASE Branch(l, i) = "enabled"
  <2>1. l[i] # None /\ enabled[i] # None /\ idle[i] = None
    BY <1>2 DEF Branch, Coverage, MapsDisjoint
  <2>2. D = None
    BY <1>2, <2>1 DEF UpdIdle
  <2>3. E # None /\ E.stop > now => <<E.stop, i>> \in T
    <3>1. CASE l[i].stop # enabled[i].stop
      BY <1>2, <3>1 DEF UpdEnabled, UpdPushed
    <3>2. CASE l[i].stop = enabled[i].stop
      BY <1>2, <2>1, <3>2 DEF UpdEnabled, Coverage, TimelineCoversEnabled,
                              Loaded
    <3> QED
      BY <3>1, <3>2
  <2> QED
    BY <2>2, <2>3
<1>3. CASE Branch(l, i) = "idle"
  <2>1. l[i] # None /\ enabled[i] = None /\ idle[i] # None
    BY <1>3 DEF Branch
  <2>2. CASE Active(l[i], now)
    BY <1>3, <2>2 DEF UpdEnabled, UpdIdle, UpdPushed
  <2>3. CASE ~Active(l[i], now) /\ l[i].start > now
                /\ (l[i].start # idle[i].start \/ l[i].stop # idle[i].stop)
    BY <1>0, <1>3, <2>1, <2>3 DEF UpdEnabled, UpdIdle, UpdPushed
  <2>4. CASE ~Active(l[i], now) /\ l[i].start > now
                /\ l[i].start = idle[i].start /\ l[i].stop = idle[i].stop
    <3>1. idle[i].stop > now
      BY <1>0, <2>1, <2>4 DEF Scheme, Time
    <3>2. <<idle[i].start, i>> \in timeline /\ <<idle[i].stop, i>> \in timeline
      BY <2>1, <3>1 DEF Coverage, TimelineCoversIdle, Loaded
    <3> QED
      BY <1>0, <1>3, <2>1, <2>4, <3>2 DEF UpdEnabled, UpdIdle
  <2>5. CASE ~Active(l[i], now) /\ ~(l[i].start > now)
    BY <1>0, <1>3, <2>1, <2>5 DEF UpdEnabled, UpdIdle, Active, Scheme, Time
  <2> QED
    BY <2>2, <2>3, <2>4, <2>5
<1>4. CASE Branch(l, i) = "new"
  <2>1. l[i] # None
    BY <1>4 DEF Branch
  <2> QED
    BY <1>0, <1>4, <2>1 DEF UpdEnabled, UpdIdle, UpdPushed, Active, Scheme,
                            Time
<1> QED
  BY <1>1, <1>2, <1>3, <1>4 DEF Branch

\* The same for rebuildMapsandTimeLine, which runs on empty maps.
LEMMA RebuildCoversId ==
    ASSUME TypeOK, ~isCollectionSchemeLoaded, NEW l \in SchemeLists,
           NEW i \in Ids
    PROVE  LET E == IF l[i] # None /\ ~(l[i].start > now) /\ l[i].stop > now
                    THEN l[i] ELSE enabled[i]
               D == IF l[i] # None /\ l[i].start > now THEN l[i] ELSE idle[i]
               T == timeline
                      \cup {<<l[j].start, j>> :
                               j \in {k \in Loaded(l) : l[k].start > now}}
                      \cup {<<l[j].stop, j>> :
                               j \in {k \in Loaded(l) : l[k].stop > now}}
           IN  /\ E = None \/ D = None
               /\ D # None => D.start < D.stop
               /\ E # None /\ E.stop > now => <<E.stop, i>> \in T
               /\ D # None /\ D.stop > now =>
                      <<D.start, i>> \in T /\ <<D.stop, i>> \in T
<1>1. enabled[i] = None /\ idle[i] = None
  BY DEF isCollectionSchemeLoaded, Loaded
<1>2. l[i] # None => l[i].start \in Nat /\ l[i].stop \in Nat
                     /\ l[i].start < l[i].stop
  BY ListSchemes DEF Scheme, Time
<1> QED
  BY <1>1, <1>2 DEF Loaded

\* checkTimeLine never drops an entry the coverage needs: a needed entry is
\* valid, except the expiry entry of an idle scheme, which cannot be at the
\* top while the earlier start entry of the same scheme is in the heap.
LEMMA NeededNotStale ==
    ASSUME TypeOK, Coverage, NEW e \in Top(timeline), ~ValidEntry(e),
           NEW i \in Ids
    PROVE  /\ enabled[i] # None /\ enabled[i].stop > now =>
                  e # <<enabled[i].stop, i>>
           /\ idle[i] # None /\ idle[i].stop > now =>
                  e # <<idle[i].start, i>> /\ e # <<idle[i].stop, i>>
<1>1. ASSUME enabled[i] # None PROVE e # <<enabled[i].stop, i>>
  BY <1>1 DEF ValidEntry, Found, TimeOfInterest
<1>2. ASSUME idle[i] # None PROVE e # <<idle[i].start, i>>
  BY <1>2 DEF ValidEntry, Found, TimeOfInterest, Coverage, MapsDisjoint
<1>3. ASSUME idle[i] # None, idle[i].stop > now PROVE e # <<idle[i].stop, i>>
  <2>1. <<idle[i].start, i>> \in timeline /\ idle[i].start < idle[i].stop
    BY <1>3 DEF Coverage, TimelineCoversIdle, IdleWellFormed, Loaded
  <2>2. idle[i].start \in Nat /\ idle[i].stop \in Nat
    BY <1>3 DEF TypeOK, Scheme, Time
  <2> QED
    BY <2>1, <2>2 DEF Top
<1> QED
  BY <1>1, <1>2, <1>3

\* Each step keeps the coverage.
LEMMA CoverageStep ==
    TypeOK /\ Coverage /\ [Next]_vars => Coverage'
<1> SUFFICES ASSUME TypeOK, Coverage, [Next]_vars PROVE Coverage'
  OBVIOUS
<1>1. ASSUME NEW l \in SchemeLists \cup {BadList}, onCollectionSchemeUpdate(l)
      PROVE Coverage'
  <2>1. UNCHANGED <<now, checkTime, enabled, idle, timeline>>
    BY <1>1 DEF onCollectionSchemeUpdate, mgrVars
  <2> QED
    BY <2>1, CoverageFrame
<1>2. ASSUME NEW m \in Manifests, onDecoderManifestUpdate(m)
      PROVE Coverage'
  <2>1. UNCHANGED <<now, checkTime, enabled, idle, timeline>>
    BY <1>2 DEF onDecoderManifestUpdate, mgrVars
  <2> QED
    BY <2>1, CoverageFrame
<1>3. CASE Tick
  \* a later clock only weakens the premises stop > now
  <2>1. now' = now + 1 /\ now \in Nat
        /\ UNCHANGED <<checkTime, enabled, idle, timeline>>
    BY <1>3 DEF Tick, mgrVars, TypeOK, Time
  <2>2. \A i \in Loaded(enabled) \cup Loaded(idle) :
            enabled[i] \in Scheme \/ idle[i] \in Scheme
    BY DEF TypeOK, Loaded
  <2>3. (checkTime <= now)'
    BY <2>1 DEF Coverage, TypeOK, Time
  <2>4. TimelineCoversEnabled'
    BY <2>1, <2>2 DEF Coverage, TimelineCoversEnabled, Loaded, Scheme, Time,
                      TypeOK
  <2>5. TimelineCoversIdle'
    BY <2>1, <2>2 DEF Coverage, TimelineCoversIdle, Loaded, Scheme, Time,
                      TypeOK
  <2> QED
    BY <2>1, <2>3, <2>4, <2>5 DEF Coverage, MapsDisjoint, IdleWellFormed,
                                  Loaded
<1>4. CASE DecoderManifestStep
  <2>1. UNCHANGED <<now, checkTime, enabled, idle, timeline>>
    BY <1>4 DEF DecoderManifestStep, envVars
  <2> QED
    BY <2>1, CoverageFrame
<1>5. CASE CollectionSchemeStep
  <2>1. UNCHANGED <<now, checkTime>>
    BY <1>5 DEF CollectionSchemeStep, envVars
  <2>2. CASE ~processScheme \/ schemeList \in {None, BadList}
    <3>1. UNCHANGED <<enabled, idle, timeline>>
      BY <1>5, <2>2 DEF CollectionSchemeStep, processCollectionScheme
    <3> QED
      BY <2>1, <3>1, CoverageFrame
  <2>3. CASE processScheme /\ schemeList \notin {None, BadList}
    <3> DEFINE l == schemeList
    <3>1. l \in SchemeLists
      BY <2>3 DEF TypeOK
    <3>2. CASE isCollectionSchemeLoaded
      <4>1. updateMapsandTimeLine(l, now)
        BY <1>5, <2>3, <3>2 DEF CollectionSchemeStep, processCollectionScheme
      <4>2. \A i \in Ids :
               /\ enabled'[i] = UpdEnabled(l, now, i)
               /\ idle'[i] = UpdIdle(l, now, i)
               /\ timeline \cup UpdPushed(l, now, i) \subseteq timeline'
        BY <4>1 DEF updateMapsandTimeLine
      <4> QED
        BY <2>1, <3>1, <4>2, UpdateCoversId
           DEF Coverage, MapsDisjoint, IdleWellFormed, TimelineCoversEnabled,
               TimelineCoversIdle, Loaded
    <3>3. CASE ~isCollectionSchemeLoaded
      <4>1. rebuildMapsandTimeLine(l, now)
        BY <1>5, <2>3, <3>3 DEF CollectionSchemeStep, processCollectionScheme
      <4> QED
        BY <2>1, <3>1, <3>3, <4>1, RebuildCoversId
           DEF rebuildMapsandTimeLine, Coverage, MapsDisjoint, IdleWellFormed,
               TimelineCoversEnabled, TimelineCoversIdle, Loaded
    <3> QED
      BY <3>2, <3>3
  <2> QED
    BY <2>2, <2>3
<1>6. CASE CheckTimeLineBegin
  \* checkTime is read from the clock
  <2>1. checkTime' = now /\ UNCHANGED <<now, enabled, idle, timeline>>
    BY <1>6 DEF CheckTimeLineBegin, envVars
  <2> QED
    BY <2>1 DEF Coverage, MapsDisjoint, IdleWellFormed,
                TimelineCoversEnabled, TimelineCoversIdle, Loaded, TypeOK, Time
<1>7. CASE TimeLinePop
  <2>1. UNCHANGED <<now, checkTime>>
    BY <1>7 DEF TimeLinePop, envVars
  <2>2. CASE UNCHANGED <<enabled, idle, timeline>>
    BY <2>1, <2>2, CoverageFrame
  <2>3. ASSUME NEW e \in Top(timeline), ~ValidEntry(e),
               timeline' = timeline \ {e}, UNCHANGED <<enabled, idle>>
        PROVE  Coverage'
    BY <2>1, <2>3, NeededNotStale
       DEF Coverage, MapsDisjoint, IdleWellFormed, TimelineCoversEnabled,
           TimelineCoversIdle, Loaded
  <2>4. ASSUME NEW e \in Top(timeline), ValidEntry(e), e[1] <= checkTime,
               enabled' = [enabled EXCEPT ![e[2]] =
                             IF enabled[e[2]] # None THEN None ELSE idle[e[2]]],
               idle' = [idle EXCEPT ![e[2]] =
                          IF enabled[e[2]] # None THEN idle[e[2]] ELSE None],
               timeline' = timeline \ {e}
        PROVE  Coverage'
    <3> DEFINE i == e[2]
    <3>1. e = <<e[1], i>> /\ e[1] \in Nat /\ i \in Ids
      BY DEF Top, TypeOK, Time
    <3>2. CASE enabled[i] # None
      \* the due expiry entry disables the scheme; other IDs keep theirs
      BY <2>1, <2>4, <3>1, <3>2
         DEF Coverage, MapsDisjoint, IdleWellFormed, TimelineCoversEnabled,
             TimelineCoversIdle, Loaded, TypeOK
    <3>3. CASE enabled[i] = None
      \* the due start entry enables the idle scheme; its expiry entry,
      \* later than the start, stays
      <4>1. idle[i] # None /\ e[1] = idle[i].start
        BY <2>4, <3>3 DEF ValidEntry, Found, TimeOfInterest
      <4>2. idle[i].start < idle[i].stop /\ idle[i].stop \in Nat
        BY <3>1, <4>1 DEF Coverage, IdleWellFormed, Loaded, TypeOK, Scheme, Time
      <4>3. idle[i].stop > now => <<idle[i].stop, i>> \in timeline'
        BY <2>4, <3>1, <4>1, <4>2 DEF Coverage, TimelineCoversIdle, Loaded
      <4> QED
        BY <2>1, <2>4, <3>1, <3>3, <4>1, <4>3
           DEF Coverage, MapsDisjoint, IdleWellFormed, TimelineCoversEnabled,
               TimelineCoversIdle, Loaded, TypeOK
    <3> QED
      BY <3>2, <3>3
  <2> QED
    BY <1>7, <2>2, <2>3, <2>4 DEF TimeLinePop, checkTimeLine
<1>8. CASE DocumentsStep
  <2>1. UNCHANGED <<now, checkTime, enabled, idle, timeline>>
    BY <1>8 DEF DocumentsStep, envVars
  <2> QED
    BY <2>1, CoverageFrame
<1>9. CASE Wake
  <2>1. UNCHANGED <<now, checkTime, enabled, idle, timeline>>
    BY <1>9 DEF Wake
  <2> QED
    BY <2>1, CoverageFrame
<1>10. CASE UNCHANGED vars
  <2>1. UNCHANGED <<now, checkTime, enabled, idle, timeline>>
    BY <1>10 DEF vars, envVars, mgrVars
  <2> QED
    BY <2>1, CoverageFrame
<1> QED
  BY <1>1, <1>2, <1>3, <1>4, <1>5, <1>6, <1>7, <1>8, <1>9, <1>10
     DEF Next, Manager, Environment

\* IInv holds in every reachable state.
THEOREM InvariantHolds == Spec => []IInv
<1>1. Init => Coverage
  BY DEF Init, Coverage, MapsDisjoint, IdleWellFormed, TimelineCoversEnabled,
         TimelineCoversIdle, Loaded, NoSchemes
<1>2. TypeOK /\ Coverage /\ [Next]_vars => Coverage'
  BY CoverageStep
<1> QED
  BY TypeCorrect, <1>1, <1>2, PTL DEF Spec, IInv, Coverage

\* Every enabled scheme that has not expired keeps its expiry entry in
\* mTimeLine, and every idle one its start and expiry entries, whatever the
\* order of the list updates, the clock and the heap pops of doWork: no
\* scheme is left enabled or idle with no timer that would ever change it.
THEOREM TimelineCovers ==
    Spec => [](TimelineCoversEnabled /\ TimelineCoversIdle)
BY InvariantHolds, PTL DEF IInv

\* In particular an idle scheme that has not expired keeps both its start
\* and its expiry entry: the idle half of TimelineCovers, as checked by TLC.
THEOREM TimelineCoversIdleHolds == Spec => []TimelineCoversIdle
BY TimelineCovers, PTL

=============================================================================
