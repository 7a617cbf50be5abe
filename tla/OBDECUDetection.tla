-------------------------- MODULE OBDECUDetection --------------------------
(***************************************************************************)
(* ECU detection of src/src/OBDOverCANModule.cpp: one round of the         *)
(* detection loop of doWork, with autoDetectECUs run first with 11-bit,    *)
(* then with 29-bit addressing, and the tx IDs that initECUs derives from *)
(* the answering rx IDs (getTxIDByRxID).                                   *)
(*                                                                         *)
(* autoDetectECUs opens a raw CAN socket and broadcasts the request; each  *)
(* socket call may fail.  It then polls for frames until the window is    *)
(* over, a poll times out or a poll or a read fails, keeping the IDs of    *)
(* the frames in the ECU range of the addressing mode.  A frame is its    *)
(* 29-bit ID and the flags (EFF, RTR, ERR) the kernel sets in the upper    *)
(* bits of can_id; the window is bounded by MaxFrames received frames.     *)
(***************************************************************************)
EXTENDS Naturals

CONSTANTS
    Frames,     \* the frames that may be on the bus
    MaxFrames   \* frames received within MAX_WAITING_MS

ASSUME DetectionAssumption ==
    /\ Frames \subseteq [id : Nat, flags : SUBSET {"EFF", "RTR", "ERR"}]
    /\ MaxFrames \in Nat

\* Linux CAN and ECUID constants (linux/can.h and OBDDataTypes.h, spec.md
\* section 4.3).
LOWEST_ECU_RX_ID == 2024                \* 0x7E8
HIGHEST_ECU_RX_ID == 2031               \* 0x7EF
LOWEST_ECU_EXTENDED_RX_ID == 417001728  \* 0x18DAF100
HIGHEST_ECU_EXTENDED_RX_ID == 417001983 \* 0x18DAF1FF
MASKING_GET_BYTE == 255                 \* 0xFF
MASKING_SHIFT_BITS == 8
MASKING_TEMPLATE_TX_ID == 416940273     \* 0x18DA00F1
MASKING_REMOVE_BYTE == 8

VARIABLES
    isExtendedID,   \* the addressing mode of the running attempt
    canIDResponses, \* the rx IDs collected so far in this round
    received,       \* frames received in the running attempt
    attemptFailed,  \* autoDetectECUs of the running attempt returns false
    ecuTable,       \* the <<rx, tx>> pairs initECUs creates ECUs for
    pc

vars == <<isExtendedID, canIDResponses, received, attemptFailed, ecuTable, pc>>

-----------------------------------------------------------------------------

\* The ID autoDetectECUs compares: can_id & CAN_EFF_MASK, the ID without
\* the flags, with 29-bit addressing; the raw can_id with 11-bit
\* addressing, which is at least 2^29, above every ECU range, as soon as
\* a flag is set.
FrameCANId(ext, f) == IF ext \/ f.flags = {} THEN f.id ELSE 2^29

RxRange(ext) ==
    IF ext THEN LOWEST_ECU_EXTENDED_RX_ID..HIGHEST_ECU_EXTENDED_RX_ID
           ELSE LOWEST_ECU_RX_ID..HIGHEST_ECU_RX_ID

\* rx & 0xFF: the last byte.
GetByte(x) == x % (MASKING_GET_BYTE + 1)

\* x << n; shifting a byte by 8 never overflows a uint32_t.
ShiftLeft(x, n) == x * 2^n

\* x | 0x18DA00F1 for an x whose set bits all lie in its second byte, which
\* the template has clear: the or adds x to the template.
OrTemplate(x) == x + MASKING_TEMPLATE_TX_ID

\* Mutant: the 11-bit tx ID is computed with the wrong sign.
MutantTxAddsByte(ext, rx) ==
    IF ext THEN OrTemplate(ShiftLeft(GetByte(rx), MASKING_SHIFT_BITS))
           ELSE rx + MASKING_REMOVE_BYTE

\* 29-bit: the last byte of rx_id moved one byte up into the template;
\* 11-bit: rx_id - 8.
getTxIDByRxID(ext, rx) ==
    IF ext THEN OrTemplate(ShiftLeft(GetByte(rx), MASKING_SHIFT_BITS))
           ELSE rx - MASKING_REMOVE_BYTE

\* Socket, SIOCGIFINDEX, bind and the broadcast write: any failure closes
\* the socket and returns false.
OpenAndBroadcast ==
    /\ pc = "open"
    /\ \/ pc' = "poll" /\ attemptFailed' = FALSE
       \/ pc' = "after" /\ attemptFailed' = TRUE
    /\ received' = 0
    /\ UNCHANGED <<isExtendedID, canIDResponses, ecuTable>>

\* Mutant: every frame read is kept, the range check is dropped.
MutantReceiveNoRangeCheck ==
    /\ pc = "poll"
    /\ received < MaxFrames
    /\ \E f \in Frames :
          canIDResponses' = canIDResponses \cup {FrameCANId(isExtendedID, f)}
    /\ received' = received + 1
    /\ UNCHANGED <<isExtendedID, attemptFailed, ecuTable, pc>>

\* One frame read: kept when its ID lies in the ECU range.
ReceiveFrame ==
    /\ pc = "poll"
    /\ received < MaxFrames
    /\ \E f \in Frames :
          canIDResponses' =
              IF FrameCANId(isExtendedID, f) \in RxRange(isExtendedID)
              THEN canIDResponses \cup {FrameCANId(isExtendedID, f)}
              ELSE canIDResponses
    /\ received' = received + 1
    /\ UNCHANGED <<isExtendedID, attemptFailed, ecuTable, pc>>

\* The window is over or poll times out: the loop ends and the socket is
\* closed; a failing close() makes the call return false.  A failing poll
\* or recv returns false at once.  The collected IDs stay in
\* canIDResponses either way.
EndAttempt ==
    /\ pc = "poll"
    /\ \E failed \in BOOLEAN : attemptFailed' = failed
    /\ pc' = "after"
    /\ UNCHANGED <<isExtendedID, canIDResponses, received, ecuTable>>

\* doWork: with no answer the 29-bit attempt follows the 11-bit one; with
\* answers initECUs creates one ECU per distinct rx ID; otherwise the
\* thread waits a second and starts a new round.
AfterAttempt ==
    /\ pc = "after"
    /\ \/ /\ canIDResponses = {} /\ ~isExtendedID
          /\ isExtendedID' = TRUE
          /\ pc' = "open"
          /\ UNCHANGED ecuTable
       \/ /\ canIDResponses # {}
          /\ ecuTable' = {<<rx, getTxIDByRxID(isExtendedID, rx)>> : rx \in canIDResponses}
          /\ pc' = "done"
          /\ UNCHANGED isExtendedID
       \/ /\ canIDResponses = {} /\ isExtendedID
          /\ pc' = "retry"
          /\ UNCHANGED <<isExtendedID, ecuTable>>
    /\ UNCHANGED <<canIDResponses, received, attemptFailed>>

\* mWait.wait(SLEEP_TIME_SECS * 1000), then a new round in 11-bit mode.
RetryRound ==
    /\ pc = "retry"
    /\ pc' = "open"
    /\ isExtendedID' = FALSE
    /\ UNCHANGED <<canIDResponses, received, attemptFailed, ecuTable>>

Init ==
    /\ isExtendedID = FALSE
    /\ canIDResponses = {}
    /\ received = 0
    /\ attemptFailed = FALSE
    /\ ecuTable = {}
    /\ pc = "open"

Next ==
    \/ OpenAndBroadcast \/ ReceiveFrame \/ EndAttempt \/ AfterAttempt
    \/ RetryRound

Spec == Init /\ [][Next]_vars

-----------------------------------------------------------------------------
(* Properties                                                              *)

\* Every variable holds a value of its type.
TypeOK ==
    /\ isExtendedID \in BOOLEAN
    /\ canIDResponses \subseteq RxRange(FALSE) \cup RxRange(TRUE)
    /\ received \in 0..MaxFrames
    /\ attemptFailed \in BOOLEAN
    /\ ecuTable \subseteq Nat \X Nat
    /\ pc \in {"open", "poll", "after", "retry", "done"}

\* spec.md section 4.3: the tx ID is rx - 8 with 11-bit addressing and
\* 0x18DA00F1 | ((rx & 0xFF) << 8) with 29-bit addressing, i.e. the
\* template with the last byte of rx in its second byte.
SpecTxID(ext, rx) ==
    IF ext THEN 416940273 + (rx % 256) * 256 ELSE rx - 8

\* The ECUs initECUs creates all answered in the addressing mode of the
\* attempt, each gets the tx ID the spec gives its rx ID, and no two ECUs
\* share a tx ID or use another ECU's rx ID as their tx ID, so the ISO-TP
\* sockets of two ECUs never listen to each other's traffic.
TxIDsFollowSpec ==
    /\ \A e \in ecuTable :
          /\ e[1] \in RxRange(isExtendedID)
          /\ e[2] = SpecTxID(isExtendedID, e[1])
    /\ \A e, f \in ecuTable : e # f => e[2] # f[2] /\ e[2] # f[1]

\* spec.md section 4.3: any socket failure during discovery yields an
\* empty ECU set and a retry after a second.  ECUs are never created from
\* an autoDetectECUs call that returned false.
NoECUsFromFailedDetection ==
    pc = "done" => ~attemptFailed

=============================================================================
