------------------------ MODULE OBDECUDetectionProofs ------------------------
(***************************************************************************)
(* Proofs about ECU detection: type correctness, and that the ECUs         *)
(* initECUs creates get the tx IDs of spec.md section 4.3, pairwise        *)
(* distinct and never another ECU's rx ID, for every set of frames on the  *)
(* bus and every window size.                                              *)
(***************************************************************************)
EXTENDS OBDECUDetection, TLAPS

\* The ECU table initECUs builds from the collected rx IDs.
Table == {<<rx, getTxIDByRxID(isExtendedID, rx)>> : rx \in canIDResponses}

\* The inductive invariant: the collected IDs all lie in the range of the
\* running attempt's addressing mode (the 29-bit attempt starts only with
\* none collected, and so does a new round), and the ECU table exists
\* exactly once detection is done.
DInv ==
    /\ TypeOK
    /\ canIDResponses \subseteq RxRange(isExtendedID)
    /\ pc = "retry" => canIDResponses = {}
    /\ ecuTable = IF pc = "done" THEN Table ELSE {}

-----------------------------------------------------------------------------
(* The tx ID arithmetic                                                    *)

\* On an rx ID of its range, getTxIDByRxID computes the spec's tx ID.
LEMMA TxIDIsSpec ==
    ASSUME NEW ext \in BOOLEAN, NEW rx \in RxRange(ext)
    PROVE  /\ getTxIDByRxID(ext, rx) = SpecTxID(ext, rx)
           /\ getTxIDByRxID(ext, rx) \in Nat
<1>1. CASE ext
  BY <1>1 DEF getTxIDByRxID, SpecTxID, RxRange, OrTemplate, ShiftLeft,
              GetByte, MASKING_GET_BYTE, MASKING_SHIFT_BITS,
              MASKING_TEMPLATE_TX_ID, LOWEST_ECU_EXTENDED_RX_ID,
              HIGHEST_ECU_EXTENDED_RX_ID
<1>2. CASE ~ext
  BY <1>2 DEF getTxIDByRxID, SpecTxID, RxRange, MASKING_REMOVE_BYTE,
              LOWEST_ECU_RX_ID, HIGHEST_ECU_RX_ID
<1> QED
  BY <1>1, <1>2

\* Two distinct rx IDs of one range get distinct tx IDs, and the tx ID of
\* one is never the rx ID of the other: 11-bit tx IDs lie below the range,
\* and a 29-bit tx ID 0x18DAxxF1 lies in the range only for xx = F1, where
\* it is the ECU's own rx ID.
LEMMA TxIDsSeparate ==
    ASSUME NEW ext \in BOOLEAN, NEW r1 \in RxRange(ext), NEW r2 \in RxRange(ext),
           r1 # r2
    PROVE  /\ SpecTxID(ext, r1) # SpecTxID(ext, r2)
           /\ SpecTxID(ext, r1) # r2
<1>1. CASE ext
  <2>1. r1 \in 417001728..417001983 /\ r2 \in 417001728..417001983
    BY <1>1 DEF RxRange, LOWEST_ECU_EXTENDED_RX_ID, HIGHEST_ECU_EXTENDED_RX_ID
  <2>2. r1 % 256 = r1 - 417001728 /\ r2 % 256 = r2 - 417001728
    BY <2>1
  <2> QED
    BY <1>1, <2>1, <2>2 DEF SpecTxID
<1>2. CASE ~ext
  BY <1>2 DEF SpecTxID, RxRange, LOWEST_ECU_RX_ID, HIGHEST_ECU_RX_ID
<1> QED
  BY <1>1, <1>2

-----------------------------------------------------------------------------
(* The inductive invariant                                                 *)

\* Detection starts in 11-bit mode with nothing collected and no ECUs.
LEMMA DInitHolds == Init => DInv
<1> SUFFICES ASSUME Init PROVE DInv
  OBVIOUS
<1>1. isExtendedID \in BOOLEAN /\ attemptFailed \in BOOLEAN
  BY DEF Init
<1>2. received \in 0..MaxFrames
  BY DetectionAssumption DEF Init
<1>3. ecuTable = IF pc = "done" THEN Table ELSE {}
  BY DEF Init
<1> QED
  BY <1>1, <1>2, <1>3 DEF Init, DInv, TypeOK

\* A detection step keeps the collected IDs in the current range and the
\* ECU table in step with pc.
LEMMA DStep == DInv /\ [Next]_vars => DInv'
<1> SUFFICES ASSUME DInv, [Next]_vars PROVE DInv'
  OBVIOUS
<1> USE DetectionAssumption DEF DInv, TypeOK
<1>1. CASE OpenAndBroadcast
  <2>1. attemptFailed' \in BOOLEAN
    BY <1>1 DEF OpenAndBroadcast
  <2>2. pc' \in {"poll", "after"} /\ received' = 0
    BY <1>1 DEF OpenAndBroadcast
  <2>3. /\ ecuTable = {} /\ ecuTable' = ecuTable
        /\ isExtendedID' = isExtendedID /\ canIDResponses' = canIDResponses
    BY <1>1 DEF OpenAndBroadcast
  <2>4. received' \in 0..MaxFrames
    BY <2>2
  <2>5. ecuTable' = IF pc' = "done" THEN Table' ELSE {}
    BY <2>2, <2>3
  <2> QED
    BY <2>1, <2>2, <2>3, <2>4, <2>5
<1>2. CASE ReceiveFrame
  <2>1. PICK f \in Frames :
          canIDResponses' =
              IF FrameCANId(isExtendedID, f) \in RxRange(isExtendedID)
              THEN canIDResponses \cup {FrameCANId(isExtendedID, f)}
              ELSE canIDResponses
    BY <1>2 DEF ReceiveFrame
  <2>2. canIDResponses' \subseteq RxRange(isExtendedID)
    BY <2>1
  <2>3. RxRange(isExtendedID) \subseteq RxRange(FALSE) \cup RxRange(TRUE)
    BY DEF RxRange
  <2>4. received' \in 0..MaxFrames
    BY <1>2, DetectionAssumption DEF ReceiveFrame
  <2> QED
    BY <1>2, <2>2, <2>3, <2>4 DEF ReceiveFrame
<1>3. CASE EndAttempt
  BY <1>3 DEF EndAttempt
<1>4. CASE AfterAttempt
  <2>1. CASE canIDResponses = {} /\ ~isExtendedID /\ isExtendedID' = TRUE
             /\ pc' = "open" /\ UNCHANGED ecuTable
    BY <1>4, <2>1 DEF AfterAttempt
  <2>2. CASE canIDResponses # {} /\ pc' = "done" /\ UNCHANGED isExtendedID
             /\ ecuTable' = {<<rx, getTxIDByRxID(isExtendedID, rx)>> : rx \in canIDResponses}
    <3>1. ecuTable' = Table'
      BY <1>4, <2>2 DEF AfterAttempt, Table
    <3>2. ASSUME NEW rx \in canIDResponses
          PROVE  getTxIDByRxID(isExtendedID, rx) \in Nat
      BY TxIDIsSpec
    <3>3. canIDResponses \subseteq Nat
      BY DEF RxRange, LOWEST_ECU_RX_ID, HIGHEST_ECU_RX_ID,
             LOWEST_ECU_EXTENDED_RX_ID, HIGHEST_ECU_EXTENDED_RX_ID
    <3>4. ecuTable' \subseteq Nat \X Nat
      BY <2>2, <3>2, <3>3
    <3> QED
      BY <1>4, <2>2, <3>1, <3>4 DEF AfterAttempt
  <2>3. CASE canIDResponses = {} /\ isExtendedID /\ pc' = "retry"
             /\ UNCHANGED <<isExtendedID, ecuTable>>
    BY <1>4, <2>3 DEF AfterAttempt
  <2> QED
    BY <1>4, <2>1, <2>2, <2>3 DEF AfterAttempt
<1>5. CASE RetryRound
  BY <1>5 DEF RetryRound
<1>6. CASE UNCHANGED vars
  BY <1>6 DEF vars, Table
<1> QED
  BY <1>1, <1>2, <1>3, <1>4, <1>5, <1>6 DEF Next

\* DInv holds in every reachable state.
LEMMA DInvHolds == Spec => []DInv
BY DInitHolds, DStep, PTL DEF Spec

-----------------------------------------------------------------------------
(* The theorems                                                            *)

\* Type correctness of ECU detection: whatever frames autoDetectECUs reads
\* and whichever socket calls fail, the collected IDs are ECU rx IDs, the
\* received count stays within the window and the ECU table holds pairs of
\* CAN IDs.
THEOREM DetectionTypeCorrect == Spec => []TypeOK
BY DInvHolds, PTL DEF DInv

\* The ECUs initECUs creates get the tx IDs of spec.md section 4.3 for the
\* addressing mode that found them, no two share a tx ID and none uses
\* another's rx ID as tx ID, for every set of frames and every window.
THEOREM TxIDsFollowSpecHolds == Spec => []TxIDsFollowSpec
<1>1. DInv => TxIDsFollowSpec
  <2> SUFFICES ASSUME DInv PROVE TxIDsFollowSpec
    OBVIOUS
  <2>1. CASE pc # "done"
    BY <2>1 DEF DInv, TxIDsFollowSpec
  <2>2. CASE pc = "done"
    <3>1. ecuTable = Table /\ isExtendedID \in BOOLEAN
          /\ canIDResponses \subseteq RxRange(isExtendedID)
      BY <2>2 DEF DInv, TypeOK
    <3>2. ASSUME NEW e \in ecuTable
          PROVE  /\ e[1] \in RxRange(isExtendedID)
                 /\ e[2] = SpecTxID(isExtendedID, e[1])
      BY <3>1, TxIDIsSpec DEF Table
    <3>3. ASSUME NEW e \in ecuTable, NEW f \in ecuTable, e # f
          PROVE  e[2] # f[2] /\ e[2] # f[1]
      <4>1. PICK r1 \in canIDResponses : e = <<r1, getTxIDByRxID(isExtendedID, r1)>>
        BY <3>1 DEF Table
      <4>2. PICK r2 \in canIDResponses : f = <<r2, getTxIDByRxID(isExtendedID, r2)>>
        BY <3>1 DEF Table
      <4>3. r1 # r2
        BY <3>3, <4>1, <4>2
      <4>4. getTxIDByRxID(isExtendedID, r1) = SpecTxID(isExtendedID, r1)
            /\ getTxIDByRxID(isExtendedID, r2) = SpecTxID(isExtendedID, r2)
        BY <3>1, TxIDIsSpec
      <4> QED
        BY <3>1, <4>1, <4>2, <4>3, <4>4, TxIDsSeparate
    <3> QED
      BY <3>2, <3>3 DEF TxIDsFollowSpec
  <2> QED
    BY <2>1, <2>2
<1> QED
  BY DInvHolds, <1>1, PTL

=============================================================================
