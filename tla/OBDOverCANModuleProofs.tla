--------------------- MODULE OBDOverCANModuleProofs ----------------------
(***************************************************************************)
(* Proofs about the OBD thread and the manager's callbacks: type           *)
(* correctness, and that the PID request lists of the ECUs partition the  *)
(* requested PIDs whenever the thread may send PID requests.              *)
(***************************************************************************)
EXTENDS OBDOverCANModule, TLAPS

LoopPCs == {"loop", "dtc", "dtcRequest", "wait"}

Injective(s) == \A i, j \in 1..Len(s) : s[i] = s[j] => i = j

\* What detection leaves behind: mECUs holds each rx ID once, initECUs
\* only has IDs left that are not in it yet, mECUs is empty until
\* initECUs starts, and the supported PIDs are acquired only in the loop.
Structure ==
    /\ Injective(ecus)
    /\ toInit \cap EcuSet = {}
    /\ pc \in {"detect", "sleep", "discover", "retry"} => ecus = <<>>
    /\ hasAcquiredSupportedPIDs => pc \in LoopPCs

IInv == TypeOK /\ Structure /\ PIDsPartitioned

\* TypeOK split into the part about data, for the SMT solver, and the part
\* about the Boolean flags, for Zenon.
TypeData ==
    /\ decoderDict \subseteq PIDs
    /\ pidsRequested \subseteq PIDs
    /\ ecus \in Seq(ECUs)
    /\ toInit \subseteq ECUs
    /\ pidAssigned \subseteq PIDs
    /\ pidRequestList \in [ECUs -> SUBSET PIDs]
    /\ pidTimer \in 0..PIDInterval
    /\ dtcTimer \in 0..DTCInterval
    /\ pc \in {"detect", "sleep", "discover", "retry", "init", "fatal",
               "loop", "dtc", "dtcRequest", "wait"}
    /\ updates \in 0..MaxUpdates

TypeFlags ==
    /\ manifestAvailable \in BOOLEAN
    /\ shouldRequestDTCs \in BOOLEAN
    /\ dataAvailable \in BOOLEAN
    /\ hasAcquiredSupportedPIDs \in BOOLEAN

LEMMA TypeSplit == TypeOK <=> TypeData /\ TypeFlags
BY Zenon DEF TypeOK, TypeData, TypeFlags

\* The ECU at position i of an mECUs without repeats is found at i.
LEMMA ChooseIndex ==
    ASSUME NEW es \in Seq(ECUs), Injective(es), NEW i \in 1..Len(es)
    PROVE  (CHOOSE k \in 1..Len(es) : es[k] = es[i]) = i
<1>1. \E k \in 1..Len(es) : es[k] = es[i]
  OBVIOUS
<1>2. \A k \in 1..Len(es) : es[k] = es[i] => k = i
  BY DEF Injective
<1> QED
  BY <1>1, <1>2

\* assignPIDsToECUs keeps every request list a set of PIDs.
LEMMA PartitionTyped ==
    ASSUME NEW start, NEW es \in Seq(ECUs), NEW req \in SUBSET PIDs,
           pidRequestList \in [ECUs -> SUBSET PIDs]
    PROVE  PartitionPIDs(start, es, req) \in [ECUs -> SUBSET PIDs]
BY DEF PartitionPIDs

\* After assignPIDsToECUs each ECU of mECUs is asked for exactly the
\* requested PIDs that it supports and no earlier ECU supports.
LEMMA PartitionFirstSupporter ==
    ASSUME NEW es \in Seq(ECUs), Injective(es), NEW req \in SUBSET PIDs,
           NEW i \in 1..Len(es)
    PROVE  /\ PartitionPIDs({}, es, req)[es[i]] \subseteq req
           /\ \A p \in req :
                 p \in PartitionPIDs({}, es, req)[es[i]] <=>
                     /\ p \in Supported[es[i]]
                     /\ \A j \in 1..(i - 1) : p \notin Supported[es[j]]
<1>1. PartitionPIDs({}, es, req)[es[i]]
        = (req \cap Supported[es[i]]) \ TakenBefore({}, es, req, i)
  <2>1. (CHOOSE k \in 1..Len(es) : es[k] = es[i]) = i
    BY ChooseIndex
  <2>2. es[i] \in ECUs /\ \E k \in 1..Len(es) : es[k] = es[i]
    OBVIOUS
  <2> QED
    BY <2>1, <2>2 DEF PartitionPIDs
<1>2. \A p \in req : p \in TakenBefore({}, es, req, i)
                      <=> \E j \in 1..(i - 1) : p \in Supported[es[j]]
  BY DEF TakenBefore
<1> QED
  BY <1>1, <1>2

\* Every step keeps the data in its type.
LEMMA DataStep == TypeData /\ TypeFlags /\ [Next]_vars => TypeData'
<1> SUFFICES ASSUME TypeData, TypeFlags, [Next]_vars PROVE TypeData'
  OBVIOUS
<1> USE OBDAssumption
<1>1. CASE DetectCheck
  BY <1>1 DEF DetectCheck, TypeData
<1>2. CASE WakeOnData
  BY <1>2 DEF WakeOnData, TypeData
<1>3. CASE Discover
  BY <1>3 DEF Discover, TypeData
<1>4. CASE RetryWait
  BY <1>4 DEF RetryWait, TypeData
<1>5. CASE InitECU
  <2>1. PICK e \in toInit :
          \/ /\ ecus' = Append(ecus, e)
             /\ toInit' = toInit \ {e}
             /\ pidRequestList' = [pidRequestList EXCEPT ![e] = {}]
             /\ UNCHANGED pc
          \/ /\ pc' = "fatal"
             /\ UNCHANGED <<ecus, toInit, pidRequestList>>
    BY <1>5 DEF InitECU
  <2>2. e \in ECUs
    BY DEF TypeData
  <2>3. UNCHANGED <<decoderDict, pidsRequested, pidAssigned, pidTimer,
                    dtcTimer, updates>>
    BY <1>5 DEF InitECU
  <2>4. CASE /\ ecus' = Append(ecus, e)
             /\ toInit' = toInit \ {e}
             /\ pidRequestList' = [pidRequestList EXCEPT ![e] = {}]
             /\ UNCHANGED pc
    BY <2>2, <2>3, <2>4 DEF TypeData
  <2>5. CASE /\ pc' = "fatal"
             /\ UNCHANGED <<ecus, toInit, pidRequestList>>
    BY <2>3, <2>5 DEF TypeData
  <2> QED
    BY <2>1, <2>4, <2>5
<1>6. CASE InitDone
  BY <1>6 DEF InitDone, TypeData
<1>7. CASE RequestPIDs
  <2>1. CASE PIDDue /\ decoderDict # {} /\ ~hasAcquiredSupportedPIDs
    <3>1. PartitionPIDs({}, ecus, pidsRequested) \in [ECUs -> SUBSET PIDs]
      BY PartitionTyped DEF TypeData
    <3> QED
      BY <1>7, <2>1, <3>1 DEF RequestPIDs, assignPIDsToECUs, TypeData
  <2>2. CASE ~(PIDDue /\ decoderDict # {} /\ ~hasAcquiredSupportedPIDs)
    BY <1>7, <2>2 DEF RequestPIDs, TypeData
  <2> QED
    BY <2>1, <2>2
<1>8. CASE CheckDTCs
  BY <1>8 DEF CheckDTCs, TypeData
<1>9. CASE RequestDTCs
  BY <1>9 DEF RequestDTCs, TypeData
<1>10. CASE WaitCycle
  BY <1>10 DEF WaitCycle, TypeData
<1>11. CASE Tick
  BY <1>11 DEF Tick, TypeData
<1>12. ASSUME NEW d \in Dictionaries \cup {NoDictionary},
              onChangeOfActiveDictionary(d)
       PROVE  TypeData'
  <2>1. CASE d = NoDictionary
    BY <1>12, <2>1 DEF onChangeOfActiveDictionary, TypeData
  <2>2. CASE d # NoDictionary
    <3>1. d.keys \subseteq PIDs /\ d.requested \subseteq PIDs
      BY <2>2
    <3>2. PartitionPIDs({}, ecus, d.requested) \in [ECUs -> SUBSET PIDs]
      BY <3>1, PartitionTyped DEF TypeData
    <3> QED
      BY <1>12, <2>2, <3>1, <3>2
         DEF onChangeOfActiveDictionary, assignPIDsToECUs, TypeData
  <2> QED
    BY <2>1, <2>2
<1>13. ASSUME NEW dtc \in BOOLEAN, onChangeInspectionMatrix(dtc) PROVE TypeData'
  BY <1>13 DEF onChangeInspectionMatrix, TypeData
<1>14. CASE UNCHANGED vars
  BY <1>14 DEF vars, TypeData
<1> QED
  BY <1>1, <1>2, <1>3, <1>4, <1>5, <1>6, <1>7, <1>8, <1>9, <1>10, <1>11,
     <1>12, <1>13, <1>14 DEF Next, OBDThread, ManagerThread

\* Every step keeps the flags Boolean.
LEMMA FlagStep == TypeFlags /\ [Next]_vars => TypeFlags'
<1> SUFFICES ASSUME TypeFlags, [Next]_vars PROVE TypeFlags'
  OBVIOUS
<1>1. CASE OBDThread
  <2>1. CASE RequestPIDs
    BY <2>1, Zenon DEF RequestPIDs, assignPIDsToECUs, TypeFlags
  <2>2. CASE InitECU
    BY <2>2, Zenon DEF InitECU, TypeFlags
  <2>3. CASE ~RequestPIDs /\ ~InitECU
    BY <1>1, <2>3, Zenon
       DEF OBDThread, DetectCheck, WakeOnData, Discover, RetryWait,
           InitDone, CheckDTCs, RequestDTCs, WaitCycle, TypeFlags
  <2> QED
    BY <2>1, <2>2, <2>3
<1>2. CASE Tick
  BY <1>2, Zenon DEF Tick, TypeFlags
<1>3. ASSUME NEW d \in Dictionaries \cup {NoDictionary},
             onChangeOfActiveDictionary(d)
      PROVE  TypeFlags'
  BY <1>3, Zenon DEF onChangeOfActiveDictionary, assignPIDsToECUs, TypeFlags
<1>4. ASSUME NEW dtc \in BOOLEAN, onChangeInspectionMatrix(dtc) PROVE TypeFlags'
  BY <1>4, Zenon DEF onChangeInspectionMatrix, TypeFlags
<1>5. CASE UNCHANGED vars
  BY <1>5, Zenon DEF vars, TypeFlags
<1> QED
  BY <1>1, <1>2, <1>3, <1>4, <1>5 DEF Next, ManagerThread

\* Every step of the OBD thread, of the manager's callbacks and of the
\* clock keeps each variable in its type.
THEOREM OBDTypeCorrect == Spec => []TypeOK
<1>1. Init => TypeData /\ TypeFlags
  <2> SUFFICES ASSUME Init PROVE TypeData /\ TypeFlags
    OBVIOUS
  <2>1. TypeData
    BY OBDAssumption DEF Init, TypeData
  <2>2. TypeFlags
    BY Zenon DEF Init, TypeFlags
  <2> QED
    BY <2>1, <2>2
<1>2. TypeData /\ TypeFlags /\ [Next]_vars => (TypeData /\ TypeFlags)'
  BY DataStep, FlagStep
<1>3. TypeData /\ TypeFlags => TypeOK
  BY TypeSplit
<1> QED
  BY <1>1, <1>2, <1>3, PTL DEF Spec

\* A step that rewrites the request lists with assignPIDsToECUs over the
\* current mECUs and stores the same requested PIDs establishes the
\* partition.
LEMMA PartitionEstablishes ==
    ASSUME ecus \in Seq(ECUs), Injective(ecus), NEW req \in SUBSET PIDs,
           pidRequestList' = PartitionPIDs({}, ecus, req),
           pidsRequested' = req, ecus' = ecus
    PROVE  PIDsPartitioned'
<1>1. \A e \in EcuSet' : pidRequestList'[e] \subseteq pidsRequested'
  <2> SUFFICES ASSUME NEW i \in 1..Len(ecus)
               PROVE  pidRequestList'[ecus[i]] \subseteq req
    BY DEF EcuSet
  <2> QED
    BY PartitionFirstSupporter
<1>2. \A p \in pidsRequested', i \in 1..Len(ecus') :
          p \in pidRequestList'[ecus'[i]] <=>
              /\ p \in Supported[ecus'[i]]
              /\ \A j \in 1..(i - 1) : p \notin Supported[ecus'[j]]
  BY PartitionFirstSupporter
<1> QED
  BY <1>1, <1>2 DEF PIDsPartitioned

\* The partition depends on the flag, the dictionary, mECUs, the request
\* lists and the requested PIDs only.
LEMMA PartitionFrame ==
    ASSUME PIDsPartitioned,
           UNCHANGED <<hasAcquiredSupportedPIDs, decoderDict, ecus,
                       pidRequestList, pidsRequested>>
    PROVE  PIDsPartitioned'
BY DEF PIDsPartitioned, EcuSet

\* Every step keeps the structure detection leaves behind.
LEMMA StructureStep == TypeData /\ Structure /\ [Next]_vars => Structure'
<1> SUFFICES ASSUME TypeData, Structure, [Next]_vars PROVE Structure'
  OBVIOUS
<1>1. CASE DetectCheck \/ WakeOnData \/ RetryWait
  <2>1. pc \in {"detect", "sleep", "retry"}
        /\ pc' \in {"detect", "sleep", "discover", "retry"}
    BY <1>1 DEF DetectCheck, WakeOnData, RetryWait
  <2>2. UNCHANGED <<ecus, toInit, hasAcquiredSupportedPIDs>>
    BY <1>1 DEF DetectCheck, WakeOnData, RetryWait
  <2> QED
    BY <2>1, <2>2 DEF Structure, LoopPCs, EcuSet
<1>2. CASE Discover
  <2>1. ecus = <<>> /\ ecus' = <<>>
    BY <1>2 DEF Discover, Structure
  <2>2. ~hasAcquiredSupportedPIDs'
    BY <1>2, Zenon DEF Discover, Structure, LoopPCs
  <2>3. pc' \in {"retry", "init"}
    BY <1>2 DEF Discover
  <2> QED
    BY <2>1, <2>2, <2>3 DEF Structure, Injective, EcuSet
<1>3. CASE InitECU
  <2>1. PICK e \in toInit :
          \/ /\ ecus' = Append(ecus, e)
             /\ toInit' = toInit \ {e}
             /\ UNCHANGED pc
          \/ /\ pc' = "fatal"
             /\ UNCHANGED <<ecus, toInit>>
    BY <1>3 DEF InitECU
  <2>2. pc = "init" /\ hasAcquiredSupportedPIDs' = hasAcquiredSupportedPIDs
    BY <1>3 DEF InitECU
  <2>3. ~hasAcquiredSupportedPIDs
    BY <2>2 DEF Structure, LoopPCs
  <2>4. e \notin EcuSet /\ e \in ECUs
    BY DEF Structure, TypeData
  <2>5. CASE ecus' = Append(ecus, e) /\ toInit' = toInit \ {e} /\ UNCHANGED pc
    <3>1. Injective(ecus')
      BY <2>4, <2>5 DEF Structure, Injective, EcuSet, TypeData
    <3>2. toInit' \cap EcuSet' = {}
      BY <2>4, <2>5 DEF Structure, EcuSet, TypeData
    <3> QED
      BY <2>2, <2>3, <2>5, <3>1, <3>2 DEF Structure
  <2>6. CASE pc' = "fatal" /\ UNCHANGED <<ecus, toInit>>
    BY <2>2, <2>3, <2>6 DEF Structure, EcuSet
  <2> QED
    BY <2>1, <2>5, <2>6
<1>4. CASE InitDone \/ RequestPIDs \/ CheckDTCs \/ RequestDTCs \/ WaitCycle
  <2>1. pc' \in LoopPCs /\ UNCHANGED <<ecus, toInit>>
    BY <1>4 DEF InitDone, RequestPIDs, CheckDTCs, RequestDTCs, WaitCycle, LoopPCs
  <2> QED
    BY <2>1 DEF Structure, LoopPCs, EcuSet
<1>5. CASE Tick \/ ManagerThread \/ UNCHANGED vars
  <2>1. UNCHANGED <<ecus, toInit, pc, hasAcquiredSupportedPIDs>>
    BY <1>5 DEF Tick, ManagerThread, onChangeOfActiveDictionary,
                onChangeInspectionMatrix, vars
  <2> QED
    BY <2>1 DEF Structure, EcuSet
<1> QED
  BY <1>1, <1>2, <1>3, <1>4, <1>5 DEF Next, OBDThread

\* Every step keeps the request lists a partition of the requested PIDs.
LEMMA PartitionStep ==
    TypeData /\ Structure /\ PIDsPartitioned /\ [Next]_vars => PIDsPartitioned'
<1> SUFFICES ASSUME TypeData, Structure, PIDsPartitioned, [Next]_vars
             PROVE  PIDsPartitioned'
  OBVIOUS
<1>1. CASE \/ DetectCheck \/ WakeOnData \/ Discover \/ RetryWait \/ InitDone
           \/ CheckDTCs \/ RequestDTCs \/ WaitCycle \/ Tick
           \/ \E dtc \in BOOLEAN : onChangeInspectionMatrix(dtc)
           \/ UNCHANGED vars
  <2>1. UNCHANGED <<hasAcquiredSupportedPIDs, decoderDict, ecus,
                    pidRequestList, pidsRequested>>
    BY <1>1 DEF DetectCheck, WakeOnData, Discover, RetryWait, InitDone,
                CheckDTCs, RequestDTCs, WaitCycle, Tick,
                onChangeInspectionMatrix, vars
  <2> QED
    BY <2>1, PartitionFrame
<1>2. CASE InitECU
  <2>1. ~hasAcquiredSupportedPIDs /\ ~hasAcquiredSupportedPIDs'
    BY <1>2 DEF InitECU, Structure, LoopPCs
  <2> QED
    BY <2>1 DEF PIDsPartitioned
<1>3. CASE RequestPIDs
  <2>1. UNCHANGED <<decoderDict, ecus, pidsRequested>>
    BY <1>3 DEF RequestPIDs
  <2>2. CASE PIDDue /\ decoderDict # {} /\ ~hasAcquiredSupportedPIDs
    <3>1. pidRequestList' = PartitionPIDs({}, ecus, pidsRequested)
      BY <1>3, <2>2 DEF RequestPIDs, assignPIDsToECUs
    <3> QED
      BY <2>1, <3>1, PartitionEstablishes DEF Structure, TypeData
  <2>3. CASE ~(PIDDue /\ decoderDict # {} /\ ~hasAcquiredSupportedPIDs)
    <3>1. UNCHANGED <<hasAcquiredSupportedPIDs, pidRequestList>>
      BY <1>3, <2>3 DEF RequestPIDs
    <3> QED
      BY <2>1, <3>1, PartitionFrame
  <2> QED
    BY <2>2, <2>3
<1>4. ASSUME NEW d \in Dictionaries \cup {NoDictionary},
             onChangeOfActiveDictionary(d)
      PROVE  PIDsPartitioned'
  <2>1. CASE d = NoDictionary
    BY <1>4, <2>1 DEF onChangeOfActiveDictionary, PIDsPartitioned
  <2>2. CASE d # NoDictionary
    <3>1. d.requested \in SUBSET PIDs
      BY <2>2, OBDAssumption
    <3>2. /\ pidRequestList' = PartitionPIDs({}, ecus, d.requested)
          /\ pidsRequested' = d.requested
          /\ ecus' = ecus
      BY <1>4, <2>2 DEF onChangeOfActiveDictionary, assignPIDsToECUs
    <3> QED
      BY <3>1, <3>2, PartitionEstablishes DEF Structure, TypeData
  <2> QED
    BY <2>1, <2>2
<1> QED
  BY <1>1, <1>2, <1>3, <1>4 DEF Next, OBDThread, ManagerThread

\* IInv is inductive.
LEMMA IInvInductive == IInv /\ [Next]_vars => IInv'
<1> SUFFICES ASSUME IInv, [Next]_vars PROVE IInv'
  OBVIOUS
<1>1. TypeData /\ TypeFlags
  BY TypeSplit DEF IInv
<1>2. TypeData' /\ TypeFlags'
  BY <1>1, DataStep, FlagStep
<1>3. TypeOK'
  BY <1>2, Zenon DEF TypeOK, TypeData, TypeFlags
<1>4. Structure'
  BY <1>1, StructureStep DEF IInv
<1>5. PIDsPartitioned'
  BY <1>1, PartitionStep DEF IInv
<1> QED
  BY <1>3, <1>4, <1>5 DEF IInv

\* Whatever the number of ECUs, PIDs and dictionaries, and however the
\* manager's dictionary changes interleave with detection and the request
\* loop, the PID request lists always partition the requested PIDs among
\* the first supporting ECUs once the loop may send requests.
THEOREM PIDsPartitionedHolds == Spec => []PIDsPartitioned
<1>1. Init => IInv
  <2> SUFFICES ASSUME Init PROVE IInv
    OBVIOUS
  <2>1. TypeData /\ TypeFlags
    <3>1. TypeData
      BY OBDAssumption DEF Init, TypeData
    <3>2. TypeFlags
      BY Zenon DEF Init, TypeFlags
    <3> QED
      BY <3>1, <3>2
  <2>2. Structure
    BY DEF Init, Structure, Injective, EcuSet, LoopPCs
  <2>3. PIDsPartitioned
    BY DEF Init, PIDsPartitioned
  <2> QED
    BY <2>1, <2>2, <2>3, TypeSplit DEF IInv
<1>2. IInv => PIDsPartitioned
  BY DEF IInv
<1> QED
  BY <1>1, <1>2, IInvInductive, PTL DEF Spec

=============================================================================
