----------------------- MODULE CollectionSchemeManager -----------------------
(***************************************************************************)
(* The policy-manager thread of src/src/CollectionSchemeManager.cpp.       *)
(*                                                                         *)
(* Two single-slot mailboxes (onCollectionSchemeUpdate,                    *)
(* onDecoderManifestUpdate) are written by the ingestion threads; the      *)
(* manager thread runs doWork: one pass processes the pending manifest,    *)
(* the pending scheme list, pops the timeline, emits the checkin, publishes *)
(* the active schemes, then waits on its signal.  A pass is split at the   *)
(* points where it reads the clock, so the clock and the ingestion threads *)
(* interleave with it.                                                     *)
(*                                                                         *)
(* A collection scheme is abstracted to its start time, expiry time and    *)
(* the decoder manifest it references; a scheme list to a function from   *)
(* scheme IDs to schemes (IDs are unique in a list).  The min-heap         *)
(* mTimeLine is a set of <<time, id>> pairs: two equal pairs pop together  *)
(* and the second is always discarded as stale or not found, so merging    *)
(* them loses no behaviour.                                                *)
(***************************************************************************)
EXTENDS Naturals, FiniteSets

CONSTANTS
    Ids,          \* collection scheme IDs (campaign sync IDs)
    DMIds,        \* decoder manifest IDs
    MaxTime,      \* last value of the system clock (ms abstracted to ticks)
    SchemeLists,  \* scheme lists the cloud may deliver
    MaxUpdates,   \* bound on mailbox deliveries by the ingestion threads
    None,         \* null shared_ptr / absent map entry
    NoDM,         \* the empty mCurrentDecoderManifestID
    BadList,      \* a scheme list whose build() fails
    Manifests     \* decoder manifests the cloud may deliver

Time == 0..MaxTime

Scheme == [start : Time, stop : Time, dm : DMIds]

\* A decoder manifest object: its ID and whether build() succeeds.
Manifest == [id : DMIds, valid : BOOLEAN]

ASSUME ConstantsAssumption ==
    /\ MaxTime \in Nat
    /\ MaxUpdates \in Nat
    /\ None \notin Scheme \cup Manifest
    /\ NoDM \notin DMIds
    /\ BadList \notin SchemeLists
    /\ Ids \cap DMIds = {}
    /\ SchemeLists \subseteq [Ids -> Scheme \cup {None}]
    /\ Manifests \subseteq Manifest
    \* a built scheme starts before it expires
    /\ \A l \in SchemeLists, i \in Ids : l[i] # None => l[i].start < l[i].stop

VARIABLES
    now,            \* mClock->systemTimeSinceEpochMs()
    updates,        \* number of mailbox deliveries so far
    schemeInput,    \* mCollectionSchemeListInput
    schemeAvail,    \* mCollectionSchemeAvailable
    dmInput,        \* mDecoderManifestInput
    dmAvail,        \* mDecoderManifestAvailable
    wakeup,         \* pending notify() on mWait
    schemeList,     \* mCollectionSchemeList
    processScheme,  \* mProcessCollectionScheme
    dm,             \* mDecoderManifest
    processDM,      \* mProcessDecoderManifest
    currentDM,      \* mCurrentDecoderManifestID
    enabled,        \* mEnabledCollectionSchemeMap
    idle,           \* mIdleCollectionSchemeMap
    timeline,       \* mTimeLine
    persistedList,  \* collection scheme list in persistent storage
    persistedDM,    \* decoder manifest in persistent storage
    checkin,        \* last documents passed to onCheckinDocumentsChanged
    published,      \* active schemes last sent to the listeners
    pc,             \* position of the manager thread in doWork
    checkTime,      \* checkTime read before checkTimeLine
    dmChanged,      \* decoderManifestChanged of the current pass
    mapChanged,     \* enabledCollectionSchemeMapChanged of the current pass
    initialCheckin  \* initialCheckinDocumentsUpdate

envVars == <<now, updates, schemeInput, schemeAvail, dmInput, dmAvail, wakeup>>
mgrVars == <<schemeList, processScheme, dm, processDM, currentDM, enabled, idle,
             timeline, persistedList, persistedDM, checkin, published, pc,
             checkTime, dmChanged, mapChanged, initialCheckin>>
vars == <<envVars, mgrVars>>

-----------------------------------------------------------------------------
(* Helpers                                                                 *)

NoSchemes == [i \in Ids |-> None]

Loaded(m) == {i \in Ids : m[i] # None}

\* startTime <= currTime < stopTime: the scheme must run now
Active(c, t) == c.start <= t /\ t < c.stop

\* the entries at the top of the min-heap
Top(tl) == {e \in tl : \A f \in tl : e[1] <= f[1]}

isCollectionSchemeLoaded == Loaded(enabled) \cup Loaded(idle) # {}

isCollectionSchemesInSyncWithDm ==
    \A i \in Loaded(enabled) \cup Loaded(idle) :
        (IF enabled[i] # None THEN enabled[i] ELSE idle[i]).dm = currentDM

-----------------------------------------------------------------------------
(* Ingestion threads and the clock                                         *)

\* Mutant: the callback stores the list but forgets mWait.notify().
MutantUpdateNoNotify(l) ==
    /\ updates < MaxUpdates
    /\ updates' = updates + 1
    /\ schemeInput' = l
    /\ schemeAvail' = TRUE
    /\ UNCHANGED <<now, dmInput, dmAvail, wakeup, mgrVars>>

onCollectionSchemeUpdate(l) ==
    /\ updates < MaxUpdates
    /\ updates' = updates + 1
    /\ schemeInput' = l
    /\ schemeAvail' = TRUE
    /\ wakeup' = TRUE
    /\ UNCHANGED <<now, dmInput, dmAvail, mgrVars>>

onDecoderManifestUpdate(m) ==
    /\ updates < MaxUpdates
    /\ updates' = updates + 1
    /\ dmInput' = m
    /\ dmAvail' = TRUE
    /\ wakeup' = TRUE
    /\ UNCHANGED <<now, schemeInput, schemeAvail, mgrVars>>

Tick ==
    /\ now < MaxTime
    /\ now' = now + 1
    /\ UNCHANGED <<updates, schemeInput, schemeAvail, dmInput, dmAvail, wakeup,
                   mgrVars>>

-----------------------------------------------------------------------------
(* doWork, step 1: processDecoderManifest                                  *)

processDecoderManifest ==
    \/ /\ dm = None \/ ~dm.valid
       /\ dmChanged' = FALSE
       /\ UNCHANGED <<currentDM, persistedDM>>
    \/ /\ dm # None /\ dm.valid
       /\ dm.id = currentDM
       /\ dmChanged' = FALSE
       /\ UNCHANGED <<currentDM, persistedDM>>
    \/ /\ dm # None /\ dm.valid
       /\ dm.id # currentDM
       /\ currentDM' = dm.id
       /\ persistedDM' = dm
       /\ dmChanged' = TRUE

DecoderManifestStep ==
    /\ pc = "dm"
    /\ pc' = "scheme"
    /\ \/ /\ processDM
          /\ processDM' = FALSE
          /\ processDecoderManifest
       \/ /\ ~processDM
          /\ dmChanged' = FALSE
          /\ UNCHANGED <<processDM, currentDM, persistedDM>>
    /\ UNCHANGED <<envVars, schemeList, processScheme, dm, enabled, idle,
                   timeline, persistedList, checkin, published, checkTime,
                   mapChanged, initialCheckin>>

-----------------------------------------------------------------------------
(* doWork, step 2: processCollectionScheme                                 *)

\* Mutant: an idle scheme gets only its start pushed, not its expiry.
MutantRebuildNoIdleStop(l, t) ==
    /\ idle' = [i \in Ids |-> IF l[i] # None /\ l[i].start > t
                              THEN l[i] ELSE idle[i]]
    /\ enabled' = [i \in Ids |-> IF l[i] # None /\ ~(l[i].start > t)
                                    /\ l[i].stop > t
                                 THEN l[i] ELSE enabled[i]]
    /\ timeline' = timeline
          \cup {<<l[i].start, i>> : i \in {j \in Loaded(l) : l[j].start > t}}
          \cup {<<l[i].stop, i>> : i \in {j \in Loaded(l) : Active(l[j], t)}}
    /\ mapChanged' = \E i \in Loaded(l) : Active(l[i], t)

\* Maps are empty: sort every scheme of the list into idle or enabled.
rebuildMapsandTimeLine(l, t) ==
    /\ idle' = [i \in Ids |-> IF l[i] # None /\ l[i].start > t
                              THEN l[i] ELSE idle[i]]
    /\ enabled' = [i \in Ids |-> IF l[i] # None /\ ~(l[i].start > t)
                                    /\ l[i].stop > t
                                 THEN l[i] ELSE enabled[i]]
    /\ timeline' = timeline
          \cup {<<l[i].start, i>> : i \in {j \in Loaded(l) : l[j].start > t}}
          \cup {<<l[i].stop, i>> : i \in {j \in Loaded(l) : l[j].stop > t}}
    /\ mapChanged' = \E i \in Loaded(l) : Active(l[i], t)

\* Per scheme ID, the branch of updateMapsandTimeLine it takes: gone from
\* the new list, found in the enabled map, found in the idle map, or new.
Branch(l, i) ==
    IF l[i] = None THEN "removed"
    ELSE IF enabled[i] # None THEN "enabled"
    ELSE IF idle[i] # None THEN "idle"
    ELSE "new"

\* Mutant: a new or idle scheme is enabled without the start-time check.
MutantUpdEnabledNoStart(l, t, i) ==
    CASE Branch(l, i) = "removed" -> None
      [] Branch(l, i) = "enabled" -> IF l[i].stop <= t THEN None ELSE l[i]
      [] OTHER                    -> IF t < l[i].stop THEN l[i] ELSE None

UpdEnabled(l, t, i) ==
    CASE Branch(l, i) = "removed" -> None
      [] Branch(l, i) = "enabled" -> IF l[i].stop <= t THEN None ELSE l[i]
      [] OTHER                    -> IF Active(l[i], t) THEN l[i] ELSE None

UpdIdle(l, t, i) ==
    CASE Branch(l, i) = "removed" -> None
      [] Branch(l, i) = "enabled" -> idle[i]
      [] Branch(l, i) = "idle"    -> IF Active(l[i], t) THEN None ELSE l[i]
      [] OTHER                    -> IF l[i].start > t THEN l[i] ELSE None

\* Mutant: a new expiry of an enabled scheme is not pushed.
MutantPushedNoEnabledStop(l, t, i) ==
    CASE Branch(l, i) = "removed" -> {}
      [] Branch(l, i) = "enabled" -> {}
      [] Branch(l, i) = "idle" ->
            IF Active(l[i], t) THEN {<<l[i].stop, i>>}
            ELSE IF l[i].start > t /\ (l[i].start # idle[i].start
                                       \/ l[i].stop # idle[i].stop)
                 THEN {<<l[i].start, i>>, <<l[i].stop, i>>}
                 ELSE {}
      [] OTHER ->
            IF Active(l[i], t) THEN {<<l[i].stop, i>>}
            ELSE IF l[i].start > t THEN {<<l[i].start, i>>, <<l[i].stop, i>>}
                 ELSE {}

\* Timeline entries pushed for scheme ID i.
UpdPushed(l, t, i) ==
    CASE Branch(l, i) = "removed" -> {}
      [] Branch(l, i) = "enabled" ->
            IF l[i].stop > t /\ l[i].stop # enabled[i].stop
            THEN {<<l[i].stop, i>>} ELSE {}
      [] Branch(l, i) = "idle" ->
            IF Active(l[i], t) THEN {<<l[i].stop, i>>}
            ELSE IF l[i].start > t /\ (l[i].start # idle[i].start
                                       \/ l[i].stop # idle[i].stop)
                 THEN {<<l[i].start, i>>, <<l[i].stop, i>>}
                 ELSE {}
      [] OTHER ->
            IF Active(l[i], t) THEN {<<l[i].stop, i>>}
            ELSE IF l[i].start > t THEN {<<l[i].start, i>>, <<l[i].stop, i>>}
                 ELSE {}

\* Mutant: removing an enabled scheme missing from the list is not
\* reported as a change.
MutantChangedNoRemoval(l, t, i) ==
    CASE Branch(l, i) = "removed" -> FALSE
      [] Branch(l, i) = "enabled" -> l[i].stop <= t \/ l[i] # enabled[i]
      [] OTHER                    -> Active(l[i], t)

\* Whether scheme ID i changes the enabled map (the function's ret).
UpdChanged(l, t, i) ==
    CASE Branch(l, i) = "removed" -> enabled[i] # None
      [] Branch(l, i) = "enabled" -> l[i].stop <= t \/ l[i] # enabled[i]
      [] OTHER                    -> Active(l[i], t)

updateMapsandTimeLine(l, t) ==
    /\ enabled' = [i \in Ids |-> UpdEnabled(l, t, i)]
    /\ idle' = [i \in Ids |-> UpdIdle(l, t, i)]
    /\ timeline' = timeline \cup UNION {UpdPushed(l, t, i) : i \in Ids}
    /\ mapChanged' = \E i \in Ids : UpdChanged(l, t, i)

processCollectionScheme ==
    \/ /\ schemeList \in {None, BadList}
       /\ mapChanged' = FALSE
       /\ UNCHANGED <<enabled, idle, timeline, persistedList>>
    \/ /\ schemeList \notin {None, BadList}
       /\ persistedList' = schemeList
       /\ IF isCollectionSchemeLoaded
          THEN updateMapsandTimeLine(schemeList, now)
          ELSE rebuildMapsandTimeLine(schemeList, now)

CollectionSchemeStep ==
    /\ pc = "scheme"
    /\ pc' = "timeline"
    /\ \/ /\ processScheme
          /\ processScheme' = FALSE
          /\ processCollectionScheme
       \/ /\ ~processScheme
          /\ mapChanged' = FALSE
          /\ UNCHANGED <<processScheme, enabled, idle, timeline, persistedList>>
    /\ UNCHANGED <<envVars, schemeList, dm, processDM, currentDM, persistedDM,
                   checkin, published, checkTime, dmChanged, initialCheckin>>

-----------------------------------------------------------------------------
(* doWork, step 3: checkTimeLine, one heap pop per step                    *)

\* checkTime is read; nothing to do unless the top of the heap is due.
CheckTimeLineBegin ==
    /\ pc = "timeline"
    /\ checkTime' = now
    /\ pc' = IF timeline = {} \/ (\A e \in timeline : now < e[1])
             THEN "docs" ELSE "pop"
    /\ UNCHANGED <<envVars, schemeList, processScheme, dm, processDM, currentDM,
                   enabled, idle, timeline, persistedList, persistedDM,
                   checkin, published, dmChanged, mapChanged, initialCheckin>>

Found(i) == enabled[i] # None \/ idle[i] # None

\* The time of interest of the scheme an entry names: the expiry of an
\* enabled scheme, the start of an idle one.
TimeOfInterest(i) ==
    IF enabled[i] # None THEN enabled[i].stop ELSE idle[i].start

\* The entry still names a loaded scheme at its time of interest.
ValidEntry(e) == Found(e[2]) /\ TimeOfInterest(e[2]) = e[1]

checkTimeLine ==
    \/ /\ timeline = {}
       /\ pc' = "docs"
       /\ UNCHANGED <<enabled, idle, timeline, mapChanged>>
    \/ \E e \in Top(timeline) :
          LET i == e[2] IN
          \/ \* not found in either map, or start/stop updated: stale, drop it
             /\ ~ValidEntry(e)
             /\ timeline' = timeline \ {e}
             /\ UNCHANGED <<pc, enabled, idle, mapChanged>>
          \/ \* valid and due: enable the idle scheme or disable the enabled one
             /\ ValidEntry(e)
             /\ e[1] <= checkTime
             /\ enabled' = [enabled EXCEPT ![i] =
                               IF enabled[i] # None THEN None ELSE idle[i]]
             /\ idle' = [idle EXCEPT ![i] =
                            IF enabled[i] # None THEN idle[i] ELSE None]
             /\ timeline' = timeline \ {e}
             /\ mapChanged' = TRUE
             /\ UNCHANGED pc
          \/ \* valid and in the future: the next timer, stop searching
             /\ ValidEntry(e)
             /\ e[1] > checkTime
             /\ pc' = "docs"
             /\ UNCHANGED <<enabled, idle, timeline, mapChanged>>

TimeLinePop ==
    /\ pc = "pop"
    /\ checkTimeLine
    /\ UNCHANGED <<envVars, schemeList, processScheme, dm, processDM, currentDM,
                   persistedList, persistedDM, checkin, published, checkTime,
                   dmChanged, initialCheckin>>

-----------------------------------------------------------------------------
(* doWork, step 4: checkin and publication to the listeners                *)

\* Mutant: the empty manifest ID is added to the checkin.
MutantCheckinWithEmptyDM ==
    checkin' = Loaded(enabled) \cup Loaded(idle) \cup {currentDM}

updateCheckinDocuments ==
    checkin' = Loaded(enabled) \cup Loaded(idle)
                 \cup (IF currentDM = NoDM THEN {} ELSE {currentDM})

\* All enabled schemes, or none if any loaded scheme is out of sync.
updateActiveCollectionSchemeListeners ==
    published' = IF isCollectionSchemesInSyncWithDm THEN enabled ELSE NoSchemes

DocumentsStep ==
    /\ pc = "docs"
    /\ pc' = "wait"
    /\ IF dmChanged \/ mapChanged \/ initialCheckin
       THEN updateCheckinDocuments /\ initialCheckin' = FALSE
       ELSE UNCHANGED <<checkin, initialCheckin>>
    /\ IF dmChanged \/ mapChanged
       THEN updateActiveCollectionSchemeListeners
       ELSE UNCHANGED published
    /\ UNCHANGED <<envVars, schemeList, processScheme, dm, processDM, currentDM,
                   enabled, idle, timeline, persistedList, persistedDM,
                   checkTime, dmChanged, mapChanged>>

-----------------------------------------------------------------------------
(* doWork, step 5: wait on mWait, then updateAvailable                     *)

updateAvailable ==
    /\ IF schemeAvail /\ schemeInput # None
       THEN schemeList' = schemeInput /\ processScheme' = TRUE
       ELSE UNCHANGED <<schemeList, processScheme>>
    /\ schemeAvail' = FALSE
    /\ IF dmAvail /\ dmInput # None
       THEN dm' = dmInput /\ processDM' = TRUE
       ELSE UNCHANGED <<dm, processDM>>
    /\ dmAvail' = FALSE

\* With an empty timeline the thread waits for a notify(); otherwise the
\* timed wait (at most mIdleTimeMs) may return at any time.
Wake ==
    /\ pc = "wait"
    /\ timeline # {} \/ wakeup
    /\ wakeup' = FALSE
    /\ updateAvailable
    /\ pc' = "dm"
    /\ UNCHANGED <<now, updates, schemeInput, dmInput, currentDM, enabled, idle,
                   timeline, persistedList, persistedDM, checkin, published,
                   checkTime, dmChanged, mapChanged, initialCheckin>>

-----------------------------------------------------------------------------

Init ==
    /\ now = 0
    /\ updates = 0
    /\ schemeInput = None
    /\ schemeAvail = FALSE
    /\ dmInput = None
    /\ dmAvail = FALSE
    /\ wakeup = FALSE
    /\ schemeList = None
    /\ processScheme = FALSE
    /\ dm = None
    /\ processDM = FALSE
    /\ currentDM = NoDM
    /\ enabled = NoSchemes
    /\ idle = NoSchemes
    /\ timeline = {}
    /\ persistedList = None
    /\ persistedDM = None
    /\ checkin = {}
    /\ published = NoSchemes
    /\ pc = "dm"
    /\ checkTime = 0
    /\ dmChanged = FALSE
    /\ mapChanged = FALSE
    /\ initialCheckin = TRUE

Manager ==
    \/ DecoderManifestStep
    \/ CollectionSchemeStep
    \/ CheckTimeLineBegin
    \/ TimeLinePop
    \/ DocumentsStep
    \/ Wake

Environment ==
    \/ \E l \in SchemeLists \cup {BadList} : onCollectionSchemeUpdate(l)
    \/ \E m \in Manifests : onDecoderManifestUpdate(m)
    \/ Tick

Next == Manager \/ Environment

\* The manager thread is scheduled whenever it can run; the cloud and the
\* clock owe it nothing.
Spec == Init /\ [][Next]_vars /\ WF_vars(Manager)


-----------------------------------------------------------------------------
(* Properties                                                              *)

\* Every variable holds a value of its type.
TypeOK ==
    /\ now \in Time
    /\ updates \in 0..MaxUpdates
    /\ schemeInput \in SchemeLists \cup {BadList, None}
    /\ schemeAvail \in BOOLEAN
    /\ dmInput \in Manifest \cup {None}
    /\ dmAvail \in BOOLEAN
    /\ wakeup \in BOOLEAN
    /\ schemeList \in SchemeLists \cup {BadList, None}
    /\ processScheme \in BOOLEAN
    /\ dm \in Manifest \cup {None}
    /\ processDM \in BOOLEAN
    /\ currentDM \in DMIds \cup {NoDM}
    /\ enabled \in [Ids -> Scheme \cup {None}]
    /\ idle \in [Ids -> Scheme \cup {None}]
    /\ timeline \subseteq Time \X Ids
    /\ persistedList \in SchemeLists \cup {None}
    /\ persistedDM \in Manifest \cup {None}
    /\ checkin \subseteq Ids \cup DMIds
    /\ published \in [Ids -> Scheme \cup {None}]
    /\ pc \in {"dm", "scheme", "timeline", "pop", "docs", "wait"}
    /\ checkTime \in Time
    /\ dmChanged \in BOOLEAN
    /\ mapChanged \in BOOLEAN
    /\ initialCheckin \in BOOLEAN

\* An enabled scheme that has not expired yet keeps an entry at its expiry
\* time in mTimeLine, so checkTimeLine will disable it: every branch of
\* updateMapsandTimeLine that changes a stop time, and checkTimeLine's
\* enabling of an idle scheme, must leave that entry behind.
TimelineCoversEnabled ==
    \A i \in Loaded(enabled) :
        enabled[i].stop > now => <<enabled[i].stop, i>> \in timeline

\* An idle scheme that has not expired keeps entries at its start and its
\* expiry time: the start entry enables it, the expiry entry then disables
\* it, and stale entries popped on the way never remove them.
TimelineCoversIdle ==
    \A i \in Loaded(idle) :
        idle[i].stop > now =>
            /\ <<idle[i].start, i>> \in timeline
            /\ <<idle[i].stop, i>> \in timeline

\* Between passes, the listeners (inspection engine, decoders) never hold a
\* scheme the manager no longer has enabled, or an outdated copy of one:
\* every path that removes, expires or replaces an enabled scheme must set
\* enabledCollectionSchemeMapChanged so that the pass republishes.
PublishedAreEnabled ==
    pc = "wait" =>
        \A i \in Loaded(published) : published[i] = enabled[i]

\* A scheme enters the enabled map only once its start time has come:
\* checkTimeLine enables an idle scheme only when its start entry is due
\* at checkTime, which is never ahead of the clock, and both
\* updateMapsandTimeLine and rebuildMapsandTimeLine enable a new or idle
\* scheme only when startTime <= currTime.
EnabledOnlyAfterStart ==
    [][\A i \in Ids :
          enabled[i] = None /\ enabled'[i] # None => enabled'[i].start <= now]_vars

\* A scheme list or manifest handed to a mailbox is eventually taken by
\* updateAvailable and processed by the manager thread: the notify() of the
\* callback is not lost even when the thread waits with an empty timeline.
InputEventuallyProcessed ==
    (schemeAvail \/ dmAvail) ~>
        (~schemeAvail /\ ~dmAvail /\ ~processScheme /\ ~processDM)

-----------------------------------------------------------------------------
(* Statements of the spec that the code does not meet (violation runs)     *)

\* spec.md section 3: a scheme is dropped once now >= expiry_time_ms.  After
\* checkTimeLine, no enabled scheme has expired at checkTime.
ExpiredSchemesDisabled ==
    pc \in {"docs", "wait"} =>
        \A i \in Loaded(enabled) : enabled[i].stop > checkTime

\* spec.md section 4.9: on any change to the enabled or idle schemes or the
\* manifest ID a checkin is produced; between passes the last checkin lists
\* exactly the loaded schemes and the current manifest.
CheckinCurrent ==
    pc = "wait" =>
        checkin = Loaded(enabled) \cup Loaded(idle)
                    \cup (IF currentDM = NoDM THEN {} ELSE {currentDM})

\* spec.md section 4.1: a scheme whose manifest differs from the current one
\* is excluded from the inspection matrix; when the active schemes are
\* published, every enabled scheme that references the current manifest is
\* among them.
OnlyOutOfSyncExcluded ==
    [][ (pc = "docs" /\ (dmChanged \/ mapChanged)) =>
          \A i \in Loaded(enabled) :
              enabled[i].dm = currentDM => published'[i] = enabled[i] ]_vars

=============================================================================
