------------------------- MODULE OBDOverCANModule -------------------------
(***************************************************************************)
(* The OBD thread of src/src/OBDOverCANModule.cpp and the two callbacks    *)
(* the policy manager's thread calls on it.                                *)
(*                                                                         *)
(* The OBD thread (doWork) first detects the ECUs: it sleeps on            *)
(* mDataAvailableWait while there is no OBD dictionary and no DTC request, *)
(* broadcasts a discovery request, retries after a second when nobody      *)
(* answers, and creates one OBDOverCANECU per answering rx ID (initECUs).  *)
(* It then loops on two timers: on PID expiry it requests the PIDs of the  *)
(* dictionary (assigning them to ECUs on the first pass), on DTC expiry it *)
(* requests the stored DTCs when an inspection matrix asks for them.       *)
(*                                                                         *)
(* onChangeOfActiveDictionary and onChangeInspectionMatrix run on the      *)
(* manager thread.  The first takes mDecoderDictMutex, as does the PID    *)
(* step of the OBD thread, so each is one atomic action here; initECUs and *)
(* the DTC requests run without that mutex and are steps of their own.     *)
(*                                                                         *)
(* An ECU is its rx ID, a number: initECUs walks a std::set, so ECUs are  *)
(* created in ascending rx order.  A dictionary is the set of PIDs it has  *)
(* decoders for and the set of PIDs whose signals are to be collected.    *)
(* The supported-PID bitmaps of the ECUs are the constant Supported.       *)
(* Timers count whole seconds and saturate at their interval, the only     *)
(* value the code compares them with.                                      *)
(***************************************************************************)
EXTENDS Naturals, Sequences

CONSTANTS
    ECUs,           \* rx IDs of the ECUs that may answer discovery
    PIDs,           \* OBD service-01 PIDs
    Supported,      \* the supported-PID bitmap of each ECU
    Dictionaries,   \* OBD decoder dictionaries the manager may publish
    NoDictionary,   \* a null dictionary, or one without exactly one channel
    PIDInterval,    \* mPIDRequestIntervalSeconds
    DTCInterval,    \* mDTCRequestIntervalSeconds
    MaxUpdates      \* bound on the callbacks of the manager thread

ASSUME OBDAssumption ==
    /\ ECUs \subseteq Nat
    /\ Supported \in [ECUs -> SUBSET PIDs]
    /\ Dictionaries \subseteq [keys : SUBSET PIDs, requested : SUBSET PIDs]
    \* a PID is requested only for a signal of one of its decoders
    /\ \A d \in Dictionaries : d.requested \subseteq d.keys
    /\ NoDictionary \notin Dictionaries
    /\ PIDInterval \in Nat /\ DTCInterval \in Nat
    \* connect() starts no thread when both intervals are 0
    /\ PIDInterval + DTCInterval > 0
    /\ MaxUpdates \in Nat

VARIABLES
    decoderDict,        \* the PIDs of mDecoderDictionary
    pidsRequested,      \* mPIDsRequestedByDecoderDict[SID::CURRENT_STATS]
    manifestAvailable,  \* mDecoderManifestAvailable
    shouldRequestDTCs,  \* mShouldRequestDTCs
    dataAvailable,      \* pending notify() on mDataAvailableWait
    ecus,               \* mECUs, in creation order
    toInit,             \* the rx IDs initECUs has still to create
    pidAssigned,        \* mPIDAssigned
    pidRequestList,     \* the PID request list of each OBDOverCANECU
    hasAcquiredSupportedPIDs,
    pidTimer,           \* mPIDTimer, elapsed seconds
    dtcTimer,           \* mDTCTimer, elapsed seconds
    pc,                 \* position of the OBD thread in doWork
    updates             \* number of manager callbacks so far

vars == <<decoderDict, pidsRequested, manifestAvailable, shouldRequestDTCs,
          dataAvailable, ecus, toInit, pidAssigned, pidRequestList,
          hasAcquiredSupportedPIDs, pidTimer, dtcTimer, pc, updates>>

EcuSet == {ecus[i] : i \in 1..Len(ecus)}

PIDDue == PIDInterval > 0 /\ pidTimer >= PIDInterval

DTCDue == DTCInterval > 0 /\ dtcTimer >= DTCInterval

-----------------------------------------------------------------------------
(* assignPIDsToECUs                                                        *)

\* OBDOverCANECU::updatePIDRequestList, called on each ECU in turn: the ECU
\* takes the requested PIDs it supports that no earlier ECU took.
TakenBefore(start, es, req, i) ==
    start \cup UNION {req \cap Supported[es[j]] : j \in 1..(i - 1)}

PartitionPIDs(start, es, req) ==
    [e \in ECUs |->
        IF \E i \in 1..Len(es) : es[i] = e
        THEN LET i == CHOOSE k \in 1..Len(es) : es[k] = e
             IN (req \cap Supported[e]) \ TakenBefore(start, es, req, i)
        ELSE pidRequestList[e]]

\* Mutant: mPIDAssigned is not cleared before the ECUs are walked.
MutantAssignNoClear(req) ==
    /\ pidAssigned' = pidAssigned \cup UNION {req \cap Supported[e] : e \in EcuSet}
    /\ pidRequestList' = PartitionPIDs(pidAssigned, ecus, req)

\* mPIDAssigned is cleared, then every ECU of mECUs, in order, gets the
\* requested PIDs it supports that no earlier ECU took.
assignPIDsToECUs(req) ==
    /\ pidAssigned' = UNION {req \cap Supported[e] : e \in EcuSet}
    /\ pidRequestList' = PartitionPIDs({}, ecus, req)

-----------------------------------------------------------------------------
(* ECU detection                                                           *)

\* The dictionary is read under the mutex, then the DTC flag: with neither
\* the thread sleeps on mDataAvailableWait.
DetectCheck ==
    /\ pc = "detect"
    /\ pc' = IF ~shouldRequestDTCs /\ decoderDict = {} THEN "sleep" ELSE "discover"
    /\ UNCHANGED <<decoderDict, pidsRequested, manifestAvailable, shouldRequestDTCs,
                   dataAvailable, ecus, toInit, pidAssigned, pidRequestList,
                   hasAcquiredSupportedPIDs, pidTimer, dtcTimer, updates>>

\* mDataAvailableWait.wait(WaitWithPredicate) returns on a notify.
WakeOnData ==
    /\ pc = "sleep"
    /\ dataAvailable
    /\ dataAvailable' = FALSE
    /\ pc' = "discover"
    /\ UNCHANGED <<decoderDict, pidsRequested, manifestAvailable, shouldRequestDTCs,
                   ecus, toInit, pidAssigned, pidRequestList,
                   hasAcquiredSupportedPIDs, pidTimer, dtcTimer, updates>>

\* autoDetectECUs with 11-bit, then 29-bit addressing: any subset of the
\* ECUs answers within the window.  A socket call that fails part-way
\* keeps the answers collected so far, and doWork ignores the result of
\* autoDetectECUs, so a partial set is used too (OBDECUDetection).
\* With no answer the thread waits a second and starts over.
Discover ==
    /\ pc = "discover"
    /\ \E found \in SUBSET ECUs :
          IF found = {}
          THEN pc' = "retry" /\ UNCHANGED toInit
          ELSE pc' = "init" /\ toInit' = found
    /\ UNCHANGED <<decoderDict, pidsRequested, manifestAvailable, shouldRequestDTCs,
                   dataAvailable, ecus, pidAssigned, pidRequestList,
                   hasAcquiredSupportedPIDs, pidTimer, dtcTimer, updates>>

\* mWait.wait(SLEEP_TIME_SECS * 1000): only stop() notifies mWait.
RetryWait ==
    /\ pc = "retry"
    /\ pc' = "detect"
    /\ UNCHANGED <<decoderDict, pidsRequested, manifestAvailable, shouldRequestDTCs,
                   dataAvailable, ecus, toInit, pidAssigned, pidRequestList,
                   hasAcquiredSupportedPIDs, pidTimer, dtcTimer, updates>>

\* One iteration of initECUs, without mDecoderDictMutex: the ECU of the
\* smallest remaining rx ID is created and pushed to mECUs; when its
\* init() fails the graceful fatal assert ends the thread.
InitECU ==
    /\ pc = "init"
    /\ toInit # {}
    /\ \E e \in toInit :
       /\ \A y \in toInit : e <= y
       /\ \/ /\ ecus' = Append(ecus, e)
             /\ toInit' = toInit \ {e}
             /\ pidRequestList' = [pidRequestList EXCEPT ![e] = {}]
             /\ UNCHANGED pc
          \/ /\ pc' = "fatal"
             /\ UNCHANGED <<ecus, toInit, pidRequestList>>
    /\ UNCHANGED <<decoderDict, pidsRequested, manifestAvailable, shouldRequestDTCs,
                   dataAvailable, pidAssigned, hasAcquiredSupportedPIDs,
                   pidTimer, dtcTimer, updates>>

\* Detection is over: both timers are reset before the request loop.
InitDone ==
    /\ pc = "init"
    /\ toInit = {}
    /\ pidTimer' = 0
    /\ dtcTimer' = 0
    /\ pc' = "loop"
    /\ UNCHANGED <<decoderDict, pidsRequested, manifestAvailable, shouldRequestDTCs,
                   dataAvailable, ecus, toInit, pidAssigned, pidRequestList,
                   hasAcquiredSupportedPIDs, updates>>

-----------------------------------------------------------------------------
(* The request loop                                                        *)

\* The manifest flag is reset, then, when the PID timer is due, under
\* mDecoderDictMutex: with a dictionary the PIDs are assigned on the first
\* pass and each ECU is asked for its PIDs.
RequestPIDs ==
    /\ pc = "loop"
    /\ manifestAvailable' = FALSE
    /\ pc' = "dtc"
    /\ IF PIDDue /\ decoderDict # {} /\ ~hasAcquiredSupportedPIDs
       THEN /\ hasAcquiredSupportedPIDs' = TRUE
            /\ assignPIDsToECUs(pidsRequested)
       ELSE UNCHANGED <<hasAcquiredSupportedPIDs, pidAssigned, pidRequestList>>
    /\ pidTimer' = IF PIDDue THEN 0 ELSE pidTimer
    /\ UNCHANGED <<decoderDict, pidsRequested, shouldRequestDTCs, dataAvailable,
                   ecus, toInit, dtcTimer, updates>>

\* When the DTC timer is due it is reset, and the DTCs are requested if an
\* inspection matrix asks for them.
CheckDTCs ==
    /\ pc = "dtc"
    /\ pc' = IF DTCDue /\ shouldRequestDTCs THEN "dtcRequest" ELSE "wait"
    /\ dtcTimer' = IF DTCDue THEN 0 ELSE dtcTimer
    /\ UNCHANGED <<decoderDict, pidsRequested, manifestAvailable, shouldRequestDTCs,
                   dataAvailable, ecus, toInit, pidAssigned, pidRequestList,
                   hasAcquiredSupportedPIDs, pidTimer, updates>>

\* getDTCData on every ECU of mECUs, without mDecoderDictMutex, and the
\* DTCInfo pushed to the signal buffer.
RequestDTCs ==
    /\ pc = "dtcRequest"
    /\ pc' = "wait"
    /\ UNCHANGED <<decoderDict, pidsRequested, manifestAvailable, shouldRequestDTCs,
                   dataAvailable, ecus, toInit, pidAssigned, pidRequestList,
                   hasAcquiredSupportedPIDs, pidTimer, dtcTimer, updates>>

\* calcSleepTime over both timers, then mWait.wait(sleepTime): the wait
\* ends when the first enabled timer is due.
WaitCycle ==
    /\ pc = "wait"
    /\ PIDDue \/ DTCDue
    /\ pc' = "loop"
    /\ UNCHANGED <<decoderDict, pidsRequested, manifestAvailable, shouldRequestDTCs,
                   dataAvailable, ecus, toInit, pidAssigned, pidRequestList,
                   hasAcquiredSupportedPIDs, pidTimer, dtcTimer, updates>>

\* A second passes on both timers.
Tick ==
    /\ pidTimer < PIDInterval \/ dtcTimer < DTCInterval
    /\ pidTimer' = IF pidTimer < PIDInterval THEN pidTimer + 1 ELSE pidTimer
    /\ dtcTimer' = IF dtcTimer < DTCInterval THEN dtcTimer + 1 ELSE dtcTimer
    /\ UNCHANGED <<decoderDict, pidsRequested, manifestAvailable, shouldRequestDTCs,
                   dataAvailable, ecus, toInit, pidAssigned, pidRequestList,
                   hasAcquiredSupportedPIDs, pc, updates>>

-----------------------------------------------------------------------------
(* The callbacks of the manager thread                                     *)

\* Under mDecoderDictMutex the dictionary is cleared; a null or
\* multi-channel dictionary stops there.  Otherwise its PIDs are stored,
\* the PIDs are assigned again over the ECUs created so far, and the
\* thread is notified.
onChangeOfActiveDictionary(d) ==
    /\ updates < MaxUpdates
    /\ updates' = updates + 1
    /\ IF d = NoDictionary
       THEN /\ decoderDict' = {}
            /\ UNCHANGED <<pidsRequested, manifestAvailable, dataAvailable,
                           pidAssigned, pidRequestList>>
       ELSE /\ decoderDict' = d.keys
            /\ pidsRequested' = d.requested
            /\ assignPIDsToECUs(d.requested)
            /\ manifestAvailable' = TRUE
            /\ dataAvailable' = TRUE
    /\ UNCHANGED <<shouldRequestDTCs, ecus, toInit, hasAcquiredSupportedPIDs,
                   pidTimer, dtcTimer, pc>>

\* Mutant: enabling DTC requests does not wake the sleeping thread.
MutantMatrixNoNotify(dtc) ==
    /\ updates < MaxUpdates
    /\ updates' = updates + 1
    /\ shouldRequestDTCs' = dtc
    /\ UNCHANGED <<decoderDict, pidsRequested, manifestAvailable, dataAvailable,
                   ecus, toInit, pidAssigned, pidRequestList,
                   hasAcquiredSupportedPIDs, pidTimer, dtcTimer, pc>>

\* DTC requests are enabled, and the thread notified, when a condition of
\* the inspection matrix includes active DTCs; otherwise they are disabled
\* without a notify.
onChangeInspectionMatrix(dtc) ==
    /\ updates < MaxUpdates
    /\ updates' = updates + 1
    /\ shouldRequestDTCs' = dtc
    /\ dataAvailable' = (dtc \/ dataAvailable)
    /\ UNCHANGED <<decoderDict, pidsRequested, manifestAvailable,
                   ecus, toInit, pidAssigned, pidRequestList,
                   hasAcquiredSupportedPIDs, pidTimer, dtcTimer, pc>>

-----------------------------------------------------------------------------

\* start(): no manifest, no DTC requests; the ECU objects do not exist yet.
Init ==
    /\ decoderDict = {}
    /\ pidsRequested = {}
    /\ manifestAvailable = FALSE
    /\ shouldRequestDTCs = FALSE
    /\ dataAvailable = FALSE
    /\ ecus = <<>>
    /\ toInit = {}
    /\ pidAssigned = {}
    /\ pidRequestList = [e \in ECUs |-> {}]
    /\ hasAcquiredSupportedPIDs = FALSE
    /\ pidTimer = 0
    /\ dtcTimer = 0
    /\ pc = "detect"
    /\ updates = 0

OBDThread ==
    \/ DetectCheck \/ WakeOnData \/ Discover \/ RetryWait \/ InitECU \/ InitDone
    \/ RequestPIDs \/ CheckDTCs \/ RequestDTCs \/ WaitCycle

ManagerThread ==
    \/ \E d \in Dictionaries \cup {NoDictionary} : onChangeOfActiveDictionary(d)
    \/ \E dtc \in BOOLEAN : onChangeInspectionMatrix(dtc)

Next == OBDThread \/ ManagerThread \/ Tick

\* The OBD thread runs whenever it can and seconds pass; the manager thread
\* owes it no callback.
Spec == Init /\ [][Next]_vars /\ WF_vars(OBDThread) /\ WF_vars(Tick)

-----------------------------------------------------------------------------
(* Properties                                                              *)

\* Every variable holds a value of its type.
TypeOK ==
    /\ decoderDict \subseteq PIDs
    /\ pidsRequested \subseteq PIDs
    /\ manifestAvailable \in BOOLEAN
    /\ shouldRequestDTCs \in BOOLEAN
    /\ dataAvailable \in BOOLEAN
    /\ ecus \in Seq(ECUs)
    /\ toInit \subseteq ECUs
    /\ pidAssigned \subseteq PIDs
    /\ pidRequestList \in [ECUs -> SUBSET PIDs]
    /\ hasAcquiredSupportedPIDs \in BOOLEAN
    /\ pidTimer \in 0..PIDInterval
    /\ dtcTimer \in 0..DTCInterval
    /\ pc \in {"detect", "sleep", "discover", "retry", "init", "fatal",
               "loop", "dtc", "dtcRequest", "wait"}
    /\ updates \in 0..MaxUpdates

\* Whenever the request loop may ask the ECUs for PIDs (it has passed its
\* first PID step and holds a dictionary), the request lists of the ECUs
\* partition the requested PIDs: a requested PID is asked of exactly the
\* first ECU of mECUs that supports it, and no ECU is asked for a PID the
\* dictionary does not request.  Both threads rewrite the lists: the
\* manager in onChangeOfActiveDictionary, over the ECUs initECUs has
\* created so far, and the OBD thread on its first PID step.
PIDsPartitioned ==
    hasAcquiredSupportedPIDs /\ decoderDict # {} =>
        /\ \A e \in EcuSet : pidRequestList[e] \subseteq pidsRequested
        /\ \A p \in pidsRequested, i \in 1..Len(ecus) :
              p \in pidRequestList[ecus[i]] <=>
                  /\ p \in Supported[ecus[i]]
                  /\ \A j \in 1..(i - 1) : p \notin Supported[ecus[j]]

\* The OBD thread asleep before detection, for want of a dictionary and of
\* DTC requests, is woken once either arrives: the notify of a callback
\* that runs between the thread's check and its wait is not lost.
WokenWhenWorkArrives ==
    (pc = "sleep" /\ (decoderDict # {} \/ shouldRequestDTCs)) ~> (pc # "sleep")

\* Steps in which the manager thread walks mECUs and talks to the ECUs'
\* ISO-TP sockets (assignPIDsToECUs in onChangeOfActiveDictionary).
ManagerUsesECUs ==
    \E d \in Dictionaries : onChangeOfActiveDictionary(d)

\* spec.md section 5: sockets are owned by exactly one thread, and the
\* artifacts are the only state shared between threads.  The manager
\* thread never walks mECUs or uses the ECU sockets while the OBD thread,
\* without mDecoderDictMutex, pushes to mECUs (initECUs) or requests DTCs.
ECUsOwnedByOBDThread ==
    [][ManagerUsesECUs => pc \notin {"init", "dtcRequest"}]_vars

=============================================================================
