# TLA+ models of the FleetWise Edge agent

This directory holds TLA+ models of the edge agent in `src/`. With them come the
TLC configurations that model-check the models, and TLAPS proofs of their main
invariants. Every definition is translated from the C++ source. The line ranges
each definition stands for are listed under `map` in `PROJECT.json`.

## The system

The agent runs several threads that communicate through mailboxes, listener
callbacks and condition variables (`Signal`).

| Part (spec.md) | Source | Threads and state | Interacts with |
|---|---|---|---|
| Policy Manager (4.1) | `src/src/CollectionSchemeManager.cpp` | One thread (`doWork`). Two single-slot mailboxes are written by the ingestion threads. The thread holds the enabled and idle scheme maps, the min-heap `mTimeLine`, the current manifest ID and persistent storage. | It publishes the active schemes, decoder dictionaries, and inspection and fetch matrices to every other part, and it emits checkin documents. |
| OBD Transactor (4.3) | `src/src/OBDOverCANModule.cpp` | One thread that runs ECU detection, then the PID and DTC timers. `onChangeOfActiveDictionary` and `onChangeInspectionMatrix` run on the manager thread. | Receives dictionaries and matrices. Pushes samples to the signal buffer. |
| Raw Frame Reader (4.2) | `src/unnamed/part_002` (`CANDataSource`) | One thread per CAN interface, reading in batches of 10 and sleeping while its dictionary is null. | Receives dictionaries. Feeds the CAN decoder. |
| Example blob source | `src/unnamed/part_002`, `src/src/MyBlobDataSource.h` | `pushData` runs under `mDecoderDictMutex`. | Receives dictionaries. |
| Sender Worker (4.8) | `src/src/DataSenderManagerWorkerThread.cpp` | One thread that drains the outbound queues and retries persisted data on a timer when connectivity is up. | Notified by the producers. |
| Decoders, evaluator, trigger engine, checkin sender (4.4-4.7, 4.9) | not under `src/` | | |
| Build, CI, tools, unit test | `src/unnamed/part_000`, `part_001`, `src/CMakeLists.txt`, `src/tools`, `src/test` | No run-time state. | |

The behaviours that make the system hard to test are these:
- cloud updates arriving between the steps of a manager pass, which reads the clock three times;
- stale heap entries, which are never removed on update;
- notify/wait races;
- unsynchronised access to the OBD ECU list from two threads;
- the discard rule of the CAN reader after sleep;
- retry timers whose interval may be zero;
- a crash between persisting an input and acting on it.

`PROJECT.json` lists each hazard at the line where it bites.

## Modules

### `CollectionSchemeManager.tla`: the Policy Manager

The scheme and manifest data are abstracted as follows:
- A collection scheme is a record: start time, expiry time, and the manifest ID it references.
- A scheme list is a function from scheme IDs to schemes or `None`.
- A manifest is its ID plus whether `build()` succeeds.
- `mTimeLine` is a set of `<<time, id>>` pairs. Two equal pairs in the C++ heap pop one after the other, and the second one is always stale or not found, so merging them loses no behaviour.

| Variable | C++ |
|---|---|
| `schemeInput`, `schemeAvail`, `dmInput`, `dmAvail` | the mailboxes (`m...Input`, `m...Available`) |
| `wakeup` | a pending `mWait.notify()` |
| `schemeList`, `processScheme`, `dm`, `processDM` | `mCollectionSchemeList`, `mProcessCollectionScheme`, `mDecoderManifest`, `mProcessDecoderManifest` |
| `currentDM` | `mCurrentDecoderManifestID` |
| `enabled`, `idle` | `mEnabledCollectionSchemeMap`, `mIdleCollectionSchemeMap` |
| `timeline` | `mTimeLine` |
| `persistedList`, `persistedDM` | what `store()` wrote |
| `checkin`, `published` | the last documents given to `onCheckinDocumentsChanged`, and the active schemes given to the listeners |
| `pc`, `checkTime`, `dmChanged`, `mapChanged`, `initialCheckin` | the position in `doWork` and its local variables |

The environment has three actions:
- `onCollectionSchemeUpdate(l)` and `onDecoderManifestUpdate(m)` are the ingestion callbacks. The inputs are drawn from the constants `SchemeLists` (plus `BadList`, a list whose `build()` fails) and `Manifests`.
- `Tick` advances the system clock by one. The clock never goes back: the comment at `CollectionSchemeManager.cpp:314-317` allows system time to jump, which the model leaves out, and `EnabledOnlyAfterStart` and its proof rest on `checkTime <= now`, which a backward jump would break.

A pass of `doWork` is split at the points where it reads the clock, or where other threads can run in between:

1. `DecoderManifestStep`: `processDecoderManifest`.
2. `CollectionSchemeStep`: `processCollectionScheme`, which runs either `rebuildMapsandTimeLine` (both maps empty) or `updateMapsandTimeLine`. The per-ID branches of `updateMapsandTimeLine` are `UpdEnabled`, `UpdIdle`, `UpdPushed` and `UpdChanged`. Which branch applies is chosen by `Branch`, which follows the code's found-in-enabled / found-in-idle / new chain plus the removal loops.
3. `CheckTimeLineBegin`: reads `checkTime`, then takes the early return of `checkTimeLine`.
4. `TimeLinePop`: one iteration of the `checkTimeLine` loop. It drops a stale entry, or flips a due scheme, or stops at the first future entry.
5. `DocumentsStep`: `updateCheckinDocuments` and `updateActiveCollectionSchemeListeners`, under the code's flags.
6. `Wake`: the wait on `mWait`, followed by `updateAvailable`.
   - With an empty timeline, the wait needs a notify.
   - Otherwise the timed wait may return at any moment, because the timer is bounded by `mIdleTimeMs`.

The extraction of matrices and dictionaries is left out: that code is not under `src/`. The model records what is handed to the listeners (`published`), not how it is compiled.

### `MCCollectionSchemeManager.tla` and its configurations

The instance has:
- two schemes, `s1` and `s2`;
- two manifests, `d1` and `d2`, with `d2` in a valid and an invalid version;
- 12 scheme lists, combining `s1` in {absent, [0,2) on d1, [0,3) on d1, [0,2) on d2} with `s2` in {absent, [1,3) on d1, [1,2) on d1};
- `MaxTime = 3` and `MaxUpdates = 3`.

These bounds are enough for every interesting case to happen:
- Times 0..3 let a scheme be new, idle, enabled, rescheduled and expired.
- `s2` can be shortened after its start has passed.
- `s1` can change manifest.
- Three deliveries allow two updates of a list plus a manifest.

The constants are not symmetric, since the scheme times differ, so no symmetry reduction is used. Deadlock checking is off: when the inputs are exhausted and the clock has stopped, the thread blocks in `mWait.wait(WaitWithPredicate)`, which is the program's idle state.

### `DataSenderManagerWorkerThread.tla`: the Sender Worker

Payloads are model values. The state is:
- `queue`, the outbound queues;
- `persisted`, the payloads in storage, which start as `StoredAtStart`, left by an earlier run;
- `sent`;
- `connected`, from `mConnectivityModule.isAlive()`;
- `elapsed`, the retry timer, which saturates at `RetryInterval`, the only value the code compares it with;
- `uploadedOnce`, for `uploadedPersistedDataOnce`;
- `wakeup`, a pending `mWait.notify()`.

The actions are:
- `Produce(p)`: a queue push followed by `onDataReadyToPublish`.
- `ConnectivityChange` and `Tick`.
- The three steps of the `doWork` loop:
  - `Wait`: timed when the interval is positive, else it needs a notify;
  - `ConsumeQueues`: `consumeAll`;
  - `RetryPersisted`: the `!uploadedPersistedDataOnce || timer due` branch.

`DataSenderManager` and the connectivity module are not under `src/`. Following spec.md 4.8 and the `SendFailure` rule of section 7, they are modelled as: a send succeeds exactly when connected; a failed send is persisted when the payload's scheme has `persist_flag` set (payloads outside the constant `NoPersist`), and discarded otherwise (the variable `discarded`). `MCDataSenderManagerWorkerThread` instantiates two new payloads, one of them (`x2`) without `persist_flag`, and one stored payload. `MCDataSenderRetry.cfg` uses a retry interval of 2 ticks, enough for a due, a not-due and a reset timer. `MCDataSenderNoRetry.cfg` uses an interval of 0.

### `DataDelivery.tla`: what the Sender Worker promises

An abstract delivery service over the same payloads. `pending` holds the payloads accepted but neither sent nor dropped, starting with `StoredAtStart`; `delivered` holds those sent, and `lost` those dropped. `Submit(p)` accepts a payload never seen before. `Deliver(S)` sends a nonempty set of pending payloads in one step. `Discard(S)` drops pending payloads of `Discardable`, the payloads whose scheme does not ask for persistence. A payload is sent at most once, and only a `Discardable` one is ever lost: delivery is best-effort for those alone, as spec.md section 7 says. The sender module instantiates it as `Delivery` with `pending <- queue \cup persisted`, `delivered <- sent`, `lost <- discarded` and `Discardable <- NoPersist`, and `DeliverySpec` is `Delivery!Spec`:
- `Produce(p)` is a `Submit(p)`;
- a connected `ConsumeQueues` with a nonempty queue is a `Deliver(queue)`;
- a `RetryPersisted` that uploads is a `Deliver(persisted)`;
- an offline `ConsumeQueues` is a `Discard` of the queued payloads without `persist_flag`, the others moving into storage, or a stutter when all of them have the flag;
- every other step leaves the three sets unchanged and is a stutter.

The promise rests on the thread: `consumeAll` takes every payload out of the queues, connected or not, and must hand each one to `processData`. A thread that dropped the queue while offline, without calling `processData`, would lose payloads that asked for persistence; that is the mutant of this property.

### `OBDOverCANModule.tla`: the OBD Transactor

The OBD thread (`doWork`) and the two callbacks the manager thread calls on it. An ECU is its rx ID, a number. A dictionary is a record of the PIDs it has decoders for (`keys`) and the PIDs whose signals are collected (`requested`). The ECUs' supported-PID bitmaps are the constant `Supported`. The state is:
- `decoderDict`, `pidsRequested`, `manifestAvailable`, `shouldRequestDTCs`: the members of the same names;
- `dataAvailable`, a pending `mDataAvailableWait.notify()`;
- `ecus`, `mECUs` in creation order, and `toInit`, the rx IDs `initECUs` still has to create;
- `pidAssigned` and `pidRequestList`, `mPIDAssigned` and each ECU's request list;
- `hasAcquiredSupportedPIDs`, the local of `doWork`;
- `pidTimer` and `dtcTimer`, in whole seconds, saturating at their interval;
- `pc`, the position of the OBD thread.

The OBD thread's actions follow `doWork` in order:
- `DetectCheck` and `WakeOnData`: the check for a dictionary or a DTC request, then the wait on `mDataAvailableWait`.
- `Discover`: both `autoDetectECUs` calls, abstracted to the set of ECUs that answered.
- `RetryWait`: the one-second wait when nobody answered.
- `InitECU`: one iteration of `initECUs`, in ascending rx order, with `init()` failing into the fatal assert.
- `InitDone`: the timer resets.
- `RequestPIDs`, `CheckDTCs`, `RequestDTCs` and `WaitCycle`: the request loop.

The manager thread's actions are `onChangeOfActiveDictionary(d)` and `onChangeInspectionMatrix(dtc)`. Each dictionary callback holds `mDecoderDictMutex`, as does the PID step, so each is atomic. `initECUs` and the DTC requests hold no mutex, so they are separate steps. `OBDOverCANECU::updatePIDRequestList` is not under `src/`. Following spec.md 4.3 it is modelled as `PartitionPIDs`: each ECU, in order, takes the requested PIDs it supports that no earlier ECU took.

`MCOBDOverCANModule` has two ECUs, one supporting PID `p1` and one supporting both PIDs. It has two dictionaries, one requesting both PIDs and one requesting `p2` only, plus a null dictionary. The PID interval is 1 s and the DTC interval 2 s, so the timers are due at different passes. Three manager callbacks are enough for one callback before detection, one during `initECUs` and one in the loop.

### `OBDECUDetection.tla`: ECU detection frame by frame

`autoDetectECUs` and the detection loop around it. `Discover` above abstracts these. A frame is its 29-bit ID and the set of flags the kernel sets in the upper bits of `can_id`. `FrameCANId` does what the code's comparison does:
- in 29-bit mode, `can_id & CAN_EFF_MASK` strips the flags;
- in 11-bit mode, the raw `can_id` exceeds every range as soon as a flag is set.

The actions are:
- `OpenAndBroadcast`: socket, ioctl, bind and write, any of which may fail;
- `ReceiveFrame`: one poll and recv, keeping in-range IDs;
- `EndAttempt`: the window ends or a poll times out, or a poll, recv or close fails;
- `AfterAttempt`: the 29-bit fallback, `initECUs` with `getTxIDByRxID`, or the retry;
- `RetryRound`.

`getTxIDByRxID` is written with the three operations the code performs on the 29-bit ID: `GetByte` (`& 0xFF`), `ShiftLeft` (`<< 8`) and `OrTemplate` (`| 0x18DA00F1`). The shifted byte has its bits only in the second byte, and the template has that byte clear, so the or adds the two numbers. A byte shifted by 8 stays below 2^16, so the `uint32_t` cannot overflow. Modelled this way, the operators are plain arithmetic, so the proof module can reason about them; the `Bitwise` module cannot be used in a module with theorems.

`MCOBDECUDetection` puts frames on and just outside both ranges on the bus, plus a remote frame with an in-range 11-bit ID. It allows three frames per attempt.

## Runs

| Run | Expect | What it shows |
|---|---|---|
| `csm_safety` | pass (~735k distinct states, 1.5 min) | `TimelineCoversEnabled` and `TimelineCoversIdle`: every unexpired enabled scheme has its expiry entry in the heap, and every unexpired idle scheme has its start and expiry entries. `PublishedAreEnabled`: between passes, the listeners hold no scheme the manager no longer enables, and no outdated copy of one. `EnabledOnlyAfterStart` (an action property): no step enables a scheme whose start time is still ahead of the clock. `InputEventuallyProcessed`: a delivered list or manifest is eventually taken and processed, so no notify is lost. Plus `TypeOK`. |
| `csm_expired_enabled` | violation of `ExpiredSchemesDisabled` | **Code bug.** An idle scheme [1,3) is updated to [1,2) after the clock reached 2 but before `checkTimeLine`. The update takes the `else` branch at `CollectionSchemeManager.cpp:739-742`, which pushes nothing. The old start entry is still valid and enables the scheme. Its only expiry entry (3) is stale and gets dropped. The scheme then stays enabled after its expiry, contrary to spec.md section 3. |
| `csm_idle_checkin` | violation of `CheckinCurrent` | **Divergence.** Adding or removing an idle scheme sets no change flag, so no checkin is sent (line 209). spec.md 4.9 asks for one on any change to the enabled or idle schemes. |
| `csm_dm_sync_all` | violation of `OnlyOutOfSyncExcluded` | **Divergence.** One scheme on another manifest makes `isCollectionSchemesInSyncWithDm` false, and the whole published set becomes empty (line 977). spec.md 4.1 excludes only that scheme. |
| `ds_retry` | pass | `QueuedEventuallyHandled`: every queued payload is drained. `PersistedEventuallyRetried`: every persisted payload is eventually resent while the connection stays up, across any order of pushes, connectivity changes and timer expiries. `DeliverySpec`: the thread implements `DataDelivery`, so no payload is sent twice, and only one without `persist_flag` is ever lost, after a failed send. |
| `ds_no_retry` | pass, deadlock not checked | With interval 0 the wait has no timeout, and the producers' notify alone still drains every queue. Here persisted data is tried only on the first connected pass, by design, so `PersistedEventuallyRetried` is not claimed. |
| `obd_requests` | pass (6.9k distinct states), deadlock not checked | `PIDsPartitioned`: once the loop has acquired the supported PIDs with a dictionary, each requested PID is asked of exactly the first ECU of `mECUs` that supports it, and of no other. This holds even though the manager reassigns over a partly built `mECUs`. `WokenWhenWorkArrives`: a thread asleep for want of work is woken once a dictionary or a DTC request arrives, even when the callback runs between the check and the wait. |
| `obd_socket_owner` | violation of `ECUsOwnedByOBDThread` | **Divergence.** A dictionary callback runs `assignPIDsToECUs` on the manager thread (line 655). It walks `mECUs` and uses the ECU sockets while the OBD thread is pushing to `mECUs` in `initECUs` (line 486) without the mutex. spec.md section 5 says each socket is owned by one thread. |
| `obd_detect` | pass, deadlock not checked | `TxIDsFollowSpec`: every detected ECU answered in the attempt's addressing mode and gets the tx ID of spec.md 4.3. No two ECUs share a tx ID, and no tx ID is another ECU's rx ID. Plus `TypeOK`. |
| `obd_detect_failure` | violation of `NoECUsFromFailedDetection` | **Divergence.** A recv fails after one answer, so `autoDetectECUs` returns false. `doWork` ignores the return value (line 141) and creates an ECU from the partial result. spec.md 4.3 says a failure yields an empty set and a retry. |

Each property of `csm_safety` is broken by a mutant of the code that TLC finds, listed under `mutants`:
- a callback that forgets `notify()`;
- a rebuild that pushes no expiry entry for idle schemes;
- an update that does not push a changed expiry;
- a removal that does not set the change flag;
- an update that enables a new or idle scheme without comparing its start with the clock;
- a checkin that includes the empty manifest ID.

The sender runs' mutants are:
- a consumeAll that skips the queues while offline;
- a consumeAll that empties the queues while offline without handing them to `processData`;
- a retry that drops the timer clause;
- an `onDataReadyToPublish` with no notify.

The OBD runs' mutants are:
- an `assignPIDsToECUs` that does not clear `mPIDAssigned`;
- an `onChangeInspectionMatrix` that enables DTCs without a notify;
- a frame loop without the range check;
- an 11-bit tx ID computed as `rx + 8` instead of `rx - 8`.

### Fairness

`Spec` has weak fairness on `Manager`, the steps of the manager thread. The thread is never starved while it can run. The cloud and the clock get no fairness, because the code cannot assume that more input arrives. `InputEventuallyProcessed` depends only on the thread's own fairness and on `notify()` setting `wakeup`. `wakeup` stands for the `Signal` class, which is not under `src/`: it is modelled from its use as a sticky notification.

The sender's `Spec` has weak fairness on the thread's steps (`Worker`) and on `Tick`, because real time passes. Producers and connectivity get no fairness. `PersistedEventuallyRetried` therefore reads: a persisted payload is eventually gone, unless the connection is seen down.

The OBD module's `Spec` has weak fairness on `OBDThread` and on `Tick`: the thread runs whenever it can, and seconds pass. The manager thread owes it no callback. The detection model checks only safety, so it has no fairness.

## Proofs

All proofs are checked by `tlapm`. Those of `CollectionSchemeManagerProofs.tla` hold for every value of the constants that satisfies `ConstantsAssumption`:
- `MaxTime` and `MaxUpdates` are naturals;
- the sentinels are distinct from the data;
- the lists map IDs to schemes or `None`;
- every built scheme starts before it expires, which is what `build()` validates.

**`TypeCorrect`** (`Spec => []TypeOK`) is proved in two halves. `DataStep` handles the data conjuncts with SMT. `FlagStep` handles the Boolean flags with Zenon; Z3 fails on obligations that mix the two. The lemma `PushedTyped` covers the entries `updateMapsandTimeLine` pushes.

**`InvariantHolds`** (`Spec => []IInv`) and **`TimelineCovers`** (`Spec => [](TimelineCoversEnabled /\ TimelineCoversIdle)`). The coverage invariants are not inductive on their own. The strengthening `IInv` adds:
- `checkTime <= now`: a due entry popped by `checkTimeLine` is never in the future of the clock.
- `MapsDisjoint`: no ID is both enabled and idle, so a valid entry for an idle scheme is its start entry.
- `IdleWellFormed`: an idle scheme starts before it stops. Its expiry entry, which is stale while the scheme is idle, therefore cannot reach the top of the heap while its start entry is still there.

The argument runs through four lemmas:
- `UpdateCoversId`: per ID and per branch of `updateMapsandTimeLine`, either the entry needed is pushed, or the old one still matches because the time did not change.
- `RebuildCoversId`: the same for the rebuild on empty maps.
- `NeededNotStale`: an entry the invariant needs is never the stale one `checkTimeLine` drops.
- `CoverageStep`: combines the three above, one case per action.

The bug found by `csm_expired_enabled` does not contradict this theorem. There the scheme's expiry is at or before `now`, so the coverage invariant asks nothing of it: the theorem guarantees a timer for every scheme that still has one to come.

**`TimelineCoversIdleHolds`** restates the idle half of `TimelineCovers` as `Spec => []TimelineCoversIdle`, the invariant the run checks.

`CollectionSchemeManagerPublishProofs.tla` proves two more properties of the manager, under the same assumption:
- **`PublishedAreEnabledHolds`** (`Spec => []PublishedAreEnabled`). The invariant is not inductive: between `CollectionSchemeStep` and `DocumentsStep`, `published` lags behind `enabled`. The strengthening `PubInv` says that every published scheme is the current version in the enabled map (`PublishedCurrent`). The one exception is the stretch from the scheme step to the documents step (`pc` in `timeline`, `pop`, `docs`) with a change flag set, because that flag makes the documents step republish. The lemmas `UpdateUnchangedEnabled` and `RebuildUnchangedEnabled` show that an update leaving `mapChanged` false leaves every enabled entry as it was. `PubStep` proves one case per action.
- **`EnabledOnlyAfterStartHolds`** (`Spec => EnabledOnlyAfterStart`), an action property. Schemes are enabled in three places: by `updateMapsandTimeLine`, by the rebuild, and by `checkTimeLine`. The first two compare the start time with the clock they read (`UpdateEnablesStarted`). The third pops a start entry whose time is at most `checkTime`, and `checkTime <= now` is part of `IInv`. `StartStep` combines these, one case per action.

**`SenderTypeCorrect`** (`DataSenderManagerWorkerThreadProofs.tla`) proves `Spec => []TypeOK` for the sender thread, for any retry interval, using `SenderAssumption`. The sender's and the OBD module's `TypeOK` are proved but not checked by a run: no change to the code, only to the model's timers, can break them.

**`SenderRefinesDelivery`** (`Spec => DeliverySpec`, same module) proves that the sender thread implements `DataDelivery` for every retry interval, set of payloads and choice of `NoPersist`. It rests on `Disjoint`: `queue`, `persisted`, `sent` and `discarded` are pairwise disjoint (`DisjointStep`). Without it, a produced payload already in storage would not be a new submission, a delivered set could overlap `sent`, and the payloads an offline `consumeAll` drops could include stored ones. `RefinementStep` maps each action to `Submit`, `Deliver`, `Discard` or a stutter, as listed for `DataDelivery.tla` above. Initial states map to `Init` directly.

**`DetectionTypeCorrect`** and **`TxIDsFollowSpecHolds`** (`OBDECUDetectionProofs.tla`) hold for every set of frames and every window size that satisfy `DetectionAssumption`. The inductive invariant `DInv` adds three facts to `TypeOK`:
- the collected IDs lie in the range of the current addressing mode. The 29-bit attempt starts only when the 11-bit one collected nothing.
- a retry round starts with nothing collected.
- the ECU table is empty until `pc = "done"`, and is then exactly `initECUs` applied to the collected IDs.

Two lemmas do the arithmetic. `TxIDIsSpec` says that `getTxIDByRxID` computes the spec's formula on the range. `TxIDsSeparate` says that two distinct rx IDs of one range have distinct tx IDs, and that neither's tx ID is the other's rx ID. 11-bit tx IDs lie below the range. A 29-bit tx ID `0x18DAxxF1` lies in the range only when `xx` is `F1`, and then it is the ECU's own rx ID.

**`OBDTypeCorrect`** and **`PIDsPartitionedHolds`** (`OBDOverCANModuleProofs.tla`) hold for every value of the constants that satisfies `OBDAssumption`:
- ECUs are naturals;
- `Supported` maps ECUs to PID sets;
- a dictionary requests only PIDs it has decoders for;
- the intervals are naturals, not both 0, as `connect()` requires.

`PIDsPartitioned` is not inductive. A dictionary callback during `initECUs` partitions over the ECUs created so far, and later pushes do not change that. The invariant survives only because `hasAcquiredSupportedPIDs` is still false then. The strengthening `IInv` adds `Structure`:
- `mECUs` has no duplicate;
- the ECUs still to create are not in it;
- `mECUs` is empty before detection ends;
- `hasAcquiredSupportedPIDs` implies the thread is in the request loop, where `mECUs` no longer changes.

The lemma `PartitionFirstSupporter` states what `PartitionPIDs` computes for an ECU at a given index. `PartitionEstablishes` and `PartitionFrame` cover a reassignment and an unchanged list. The step lemmas are split into data (SMT) and flags (Zenon), as above.

Every safety invariant and action property of a passing run now has a theorem. The liveness properties `InputEventuallyProcessed`, `QueuedEventuallyHandled`, `PersistedEventuallyRetried` and `WokenWhenWorkArrives` are checked by TLC only. TLAPS cannot prove properties that depend on fairness and ENABLED.

## Not modelled yet, and the plan

Next, in order:
1. **OBD Transactor**, what is left:
   - `stop()` and `isAlive`;
   - the `flush()` timeout budget;
   - the broadcast ISO-TP socket;
   - the external PID API. Its buffers are data.
2. **Raw Frame Reader**: sleep on a null dictionary, the notify from `onChangeOfActiveDictionary`, and the discard-after-wake rule (a likely violation run against spec.md 4.2).
3. **Sender Worker**: `start()`/`stop()` and the stop notify.
4. **Policy Manager restart**: `retrieve()` at thread start from `persistedList` and `persistedDM`, with a crash between `store()` and the map update.
5. An **abstract scheme lifecycle** (idle → enabled → gone, driven by time), shown to be implemented by the manager through a refinement mapping, and a composition of the manager with `OBDOverCANModule` through the published dictionary and inspection matrix.

Not modelled at all:
- the extractors, decoders, evaluator and trigger engine, whose code is not under `src/`;
- frame and timestamp encoding;
- logging and tracing;
- the build and tool files.
