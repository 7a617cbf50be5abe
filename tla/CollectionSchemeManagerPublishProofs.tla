----------------- MODULE CollectionSchemeManagerPublishProofs ----------------
(***************************************************************************)
(* Proofs about what the manager publishes and when it enables a scheme:   *)
(* the listeners hold only the schemes the manager has enabled, between    *)
(* passes, and a scheme is enabled only once its start time has come, for *)
(* every value of the constants.                                           *)
(***************************************************************************)
EXTENDS CollectionSchemeManagerProofs

\* The listeners hold the enabled copy of every scheme they hold.
PublishedCurrent == \A i \in Loaded(published) : published[i] = enabled[i]

\* The inductive form of PublishedAreEnabled: from the scheme step to the
\* documents step the enabled map may have moved away from what was
\* published, but only with a change flag set, which makes the documents
\* step republish.
PubInv ==
    \/ pc \in {"timeline", "pop", "docs"} /\ (dmChanged \/ mapChanged)
    \/ PublishedCurrent


\* A step that leaves the position, the flags, the enabled map and the
\* published map alone keeps PubInv.
LEMMA PubFrame ==
    ASSUME PubInv, UNCHANGED <<pc, dmChanged, mapChanged, enabled, published>>
    PROVE  PubInv'
BY DEF PubInv, PublishedCurrent, Loaded

\* updateMapsandTimeLine changes the enabled map only when it reports a
\* change: a scheme ID whose UpdChanged is false keeps its enabled entry.
LEMMA UpdateUnchangedEnabled ==
    ASSUME NEW l \in SchemeLists, NEW t \in Time, NEW i \in Ids,
           enabled \in [Ids -> Scheme \cup {None}],
           ~UpdChanged(l, t, i)
    PROVE  UpdEnabled(l, t, i) = enabled[i]
<1>1. CASE Branch(l, i) = "removed"
  BY <1>1 DEF UpdChanged, UpdEnabled
<1>2. CASE Branch(l, i) = "enabled"
  <2>1. ~(l[i].stop <= t) /\ l[i] = enabled[i]
    BY <1>2 DEF UpdChanged
  <2> QED
    BY <1>2, <2>1 DEF UpdEnabled
<1>3. CASE Branch(l, i) \notin {"removed", "enabled"}
  <2>1. enabled[i] = None /\ ~Active(l[i], t)
    BY <1>3 DEF UpdChanged, Branch
  <2> QED
    BY <1>3, <2>1 DEF UpdEnabled
<1> QED
  BY <1>1, <1>2, <1>3

\* rebuildMapsandTimeLine enables exactly the schemes of the list that are
\* active, so with none active it leaves the enabled map as it was.
LEMMA RebuildUnchangedEnabled ==
    ASSUME NEW l \in SchemeLists, NEW t \in Time, NEW i \in Ids,
           ~Active(l[i], t) \/ l[i] = None
    PROVE  ~(l[i] # None /\ ~(l[i].start > t) /\ l[i].stop > t)
<1>1. CASE l[i] # None
  <2>1. l[i].start \in Nat /\ l[i].stop \in Nat
    BY <1>1, ListSchemes DEF Scheme, Time
  <2> QED
    BY <1>1, <2>1 DEF Active, Time
<1> QED
  BY <1>1

\* Each step keeps PubInv.
LEMMA PubStep == TypeOK /\ PubInv /\ [Next]_vars => PubInv'
<1> SUFFICES ASSUME TypeOK, PubInv, [Next]_vars PROVE PubInv'
  OBVIOUS
<1>1. ASSUME NEW l \in SchemeLists \cup {BadList}, onCollectionSchemeUpdate(l)
      PROVE PubInv'
  BY <1>1, PubFrame DEF onCollectionSchemeUpdate, mgrVars
<1>2. ASSUME NEW m \in Manifests, onDecoderManifestUpdate(m)
      PROVE PubInv'
  BY <1>2, PubFrame DEF onDecoderManifestUpdate, mgrVars
<1>3. CASE Tick
  BY <1>3, PubFrame DEF Tick, mgrVars
<1>4. CASE DecoderManifestStep
  \* the manifest step runs between passes' publications: nothing to repair
  <2>1. PublishedCurrent
    BY <1>4 DEF DecoderManifestStep, PubInv
  <2>2. UNCHANGED <<enabled, published>>
    BY <1>4 DEF DecoderManifestStep
  <2> QED
    BY <2>1, <2>2 DEF PubInv, PublishedCurrent, Loaded
<1>5. CASE CollectionSchemeStep
  <2>1. PublishedCurrent /\ pc' = "timeline" /\ UNCHANGED published
    BY <1>5 DEF CollectionSchemeStep, PubInv
  <2>2. CASE mapChanged'
    BY <2>1, <2>2 DEF PubInv
  <2>3. CASE ~mapChanged'
    \* no change reported: the enabled map is the one published
    <3>1. enabled' = enabled
      <4>1. CASE ~processScheme \/ schemeList \in {None, BadList}
        BY <1>5, <4>1 DEF CollectionSchemeStep, processCollectionScheme
      <4>2. CASE processScheme /\ schemeList \notin {None, BadList}
        <5> DEFINE l == schemeList
        <5>1. l \in SchemeLists /\ now \in Time
              /\ enabled \in [Ids -> Scheme \cup {None}]
          BY <4>2 DEF TypeOK
        <5>2. \/ updateMapsandTimeLine(l, now)
              \/ rebuildMapsandTimeLine(l, now)
          BY <1>5, <4>2 DEF CollectionSchemeStep, processCollectionScheme
        <5>3. CASE updateMapsandTimeLine(l, now)
          <6>1. \A i \in Ids : ~UpdChanged(l, now, i)
            BY <2>3, <5>3 DEF updateMapsandTimeLine
          <6>2. \A i \in Ids : UpdEnabled(l, now, i) = enabled[i]
            BY <5>1, <6>1, UpdateUnchangedEnabled
          <6> QED
            BY <5>1, <5>3, <6>2 DEF updateMapsandTimeLine
        <5>4. CASE rebuildMapsandTimeLine(l, now)
          <6>1. \A i \in Ids : ~Active(l[i], now) \/ l[i] = None
            BY <2>3, <5>4 DEF rebuildMapsandTimeLine, Loaded
          <6>2. \A i \in Ids :
                   ~(l[i] # None /\ ~(l[i].start > now) /\ l[i].stop > now)
            BY <5>1, <6>1, RebuildUnchangedEnabled
          <6> QED
            BY <5>1, <5>4, <6>2 DEF rebuildMapsandTimeLine
        <5> QED
          BY <5>2, <5>3, <5>4
      <4> QED
        BY <4>1, <4>2
    <3> QED
      BY <2>1, <3>1 DEF PubInv, PublishedCurrent, Loaded
  <2> QED
    BY <2>2, <2>3
<1>6. CASE CheckTimeLineBegin
  <2>1. pc = "timeline" /\ pc' \in {"docs", "pop"}
        /\ UNCHANGED <<dmChanged, mapChanged, enabled, published>>
    BY <1>6 DEF CheckTimeLineBegin
  <2> QED
    BY <2>1 DEF PubInv, PublishedCurrent, Loaded
<1>7. CASE TimeLinePop
  <2>1. pc = "pop" /\ pc' \in {"docs", "pop"}
        /\ UNCHANGED <<dmChanged, published>>
    BY <1>7 DEF TimeLinePop, checkTimeLine
  <2>2. mapChanged' \/ UNCHANGED <<mapChanged, enabled>>
    BY <1>7 DEF TimeLinePop, checkTimeLine
  <2> QED
    BY <2>1, <2>2 DEF PubInv, PublishedCurrent, Loaded
<1>8. CASE DocumentsStep
  <2>1. pc = "docs" /\ pc' = "wait" /\ UNCHANGED enabled
    BY <1>8 DEF DocumentsStep
  <2>2. CASE dmChanged \/ mapChanged
    \* republished: all enabled schemes, or none
    <3>1. published' = enabled \/ published' = NoSchemes
      BY <1>8, <2>2 DEF DocumentsStep, updateActiveCollectionSchemeListeners
    <3> QED
      BY <2>1, <3>1 DEF PubInv, PublishedCurrent, Loaded, NoSchemes
  <2>3. CASE ~(dmChanged \/ mapChanged)
    <3>1. PublishedCurrent /\ UNCHANGED published
      BY <1>8, <2>3 DEF DocumentsStep, PubInv
    <3> QED
      BY <2>1, <3>1 DEF PubInv, PublishedCurrent, Loaded
  <2> QED
    BY <2>2, <2>3
<1>9. CASE Wake
  <2>1. PublishedCurrent /\ UNCHANGED <<enabled, published>>
    BY <1>9 DEF Wake, PubInv
  <2> QED
    BY <2>1 DEF PubInv, PublishedCurrent, Loaded
<1>10. CASE UNCHANGED vars
  BY <1>10, PubFrame DEF vars, mgrVars
<1> QED
  BY <1>1, <1>2, <1>3, <1>4, <1>5, <1>6, <1>7, <1>8, <1>9, <1>10
     DEF Next, Manager, Environment

\* Between passes, the inspection engine and the decoders hold only schemes
\* the manager has enabled, in their current version: every path of
\* doWork that removes, expires or replaces an enabled scheme sets
\* enabledCollectionSchemeMapChanged, and the documents step then
\* republishes, whatever the interleaving with the callbacks and the clock.
THEOREM PublishedAreEnabledHolds == Spec => []PublishedAreEnabled
<1>1. Init => PubInv
  BY DEF Init, PubInv, PublishedCurrent, Loaded, NoSchemes
<1>2. TypeOK /\ PubInv /\ [Next]_vars => PubInv'
  BY PubStep
<1>3. PubInv => PublishedAreEnabled
  BY DEF PubInv, PublishedCurrent, PublishedAreEnabled
<1> QED
  BY TypeCorrect, <1>1, <1>2, <1>3, PTL DEF Spec

-----------------------------------------------------------------------------
(* A scheme is enabled only once it has started                           *)

\* The step of EnabledOnlyAfterStart.
NewlyEnabledStarted ==
    \A i \in Ids :
        enabled[i] = None /\ enabled'[i] # None => enabled'[i].start <= now

\* A step that leaves the enabled map alone enables nothing.
LEMMA StartFrame ==
    ASSUME UNCHANGED enabled
    PROVE  NewlyEnabledStarted
BY DEF NewlyEnabledStarted

\* updateMapsandTimeLine enables a scheme that was not enabled only when it
\* is active at t.
LEMMA UpdateEnablesStarted ==
    ASSUME NEW l \in SchemeLists, NEW t \in Time, NEW i \in Ids,
           enabled \in [Ids -> Scheme \cup {None}],
           enabled[i] = None, UpdEnabled(l, t, i) # None
    PROVE  UpdEnabled(l, t, i).start <= t
<1>1. Branch(l, i) \notin {"removed", "enabled"}
  BY DEF Branch, UpdEnabled
<1>2. Active(l[i], t) /\ UpdEnabled(l, t, i) = l[i]
  BY <1>1 DEF UpdEnabled
<1> QED
  BY <1>2 DEF Active

\* Each step enables a scheme only at or after its start.
LEMMA StartStep == IInv /\ [Next]_vars => NewlyEnabledStarted
<1> SUFFICES ASSUME IInv, [Next]_vars PROVE NewlyEnabledStarted
  OBVIOUS
<1>1. CASE CollectionSchemeStep
  <2>1. CASE ~processScheme \/ schemeList \in {None, BadList}
    BY <1>1, <2>1, StartFrame DEF CollectionSchemeStep, processCollectionScheme
  <2>2. CASE processScheme /\ schemeList \notin {None, BadList}
    <3> DEFINE l == schemeList
    <3>1. l \in SchemeLists /\ now \in Time
          /\ enabled \in [Ids -> Scheme \cup {None}]
      BY <2>2 DEF IInv, TypeOK
    <3>2. \/ updateMapsandTimeLine(l, now)
          \/ rebuildMapsandTimeLine(l, now)
      BY <1>1, <2>2 DEF CollectionSchemeStep, processCollectionScheme
    <3>3. CASE updateMapsandTimeLine(l, now)
      BY <3>1, <3>3, UpdateEnablesStarted
         DEF updateMapsandTimeLine, NewlyEnabledStarted
    <3>4. CASE rebuildMapsandTimeLine(l, now)
      \* an entry taken from the list has passed ~(startTime > currTime)
      <4>1. \A i \in Ids : l[i] # None => l[i].start \in Nat
        BY <3>1, ListSchemes DEF Scheme, Time
      <4> QED
        BY <3>1, <3>4, <4>1 DEF rebuildMapsandTimeLine, NewlyEnabledStarted,
                                 Time
    <3> QED
      BY <3>2, <3>3, <3>4
  <2> QED
    BY <2>1, <2>2
<1>2. CASE TimeLinePop
  <2>1. CASE UNCHANGED enabled
    BY <2>1, StartFrame
  <2>2. ASSUME NEW e \in Top(timeline), ValidEntry(e), e[1] <= checkTime,
               enabled' = [enabled EXCEPT ![e[2]] =
                             IF enabled[e[2]] # None THEN None ELSE idle[e[2]]]
        PROVE  NewlyEnabledStarted
    \* the due start entry of the idle scheme, popped at checkTime <= now
    <3> DEFINE i == e[2]
    <3>1. i \in Ids /\ e[1] \in Nat /\ checkTime \in Nat /\ now \in Nat
          /\ checkTime <= now
      BY DEF Top, IInv, TypeOK, Time
    <3>2. enabled[i] = None => idle[i].start = e[1]
      BY <2>2 DEF ValidEntry, Found, TimeOfInterest
    <3>3. enabled \in [Ids -> Scheme \cup {None}]
      BY DEF IInv, TypeOK
    <3> QED
      BY <2>2, <3>1, <3>2, <3>3 DEF NewlyEnabledStarted
  <2> QED
    BY <1>2, <2>1, <2>2 DEF TimeLinePop, checkTimeLine
<1>3. CASE ~CollectionSchemeStep /\ ~TimeLinePop
  \* every other action leaves the enabled map alone
  <2>1. UNCHANGED enabled
    BY <1>3 DEF Next, Manager, Environment, onCollectionSchemeUpdate,
                onDecoderManifestUpdate, Tick, DecoderManifestStep,
                CheckTimeLineBegin, DocumentsStep, Wake, vars, mgrVars
  <2> QED
    BY <2>1, StartFrame
<1> QED
  BY <1>1, <1>2, <1>3

\* No scheme enters the enabled map before its start time, whatever the
\* order of list updates, clock ticks and heap pops: the three paths that
\* enable a scheme (a rebuild, an update, a due start entry) all compare
\* its start with a clock value that is never ahead of now.
THEOREM EnabledOnlyAfterStartHolds == Spec => EnabledOnlyAfterStart
<1>1. IInv /\ [Next]_vars => [NewlyEnabledStarted]_vars
  BY StartStep
<1> QED
  BY InvariantHolds, <1>1, PTL
     DEF Spec, EnabledOnlyAfterStart, NewlyEnabledStarted

=============================================================================
