--------------------------- MODULE RecoveryProofs ---------------------------
(***************************************************************************)
(* TypeOK is an invariant of the engine.  So is RecoveryInv, on a kernel   *)
(* that keeps the pages of a failed sync dirty, and it implies             *)
(* AlwaysRecoverable.                                                      *)
(***************************************************************************)
EXTENDS EngineInvariant, FormatProofs

-----------------------------------------------------------------------------
(* Types of the file. *)

(* A write keeps the file well typed. *)
LEMMA WritePrefixType ==
    ASSUME FileTypeOK, NEW cells \in Seq(Cell), NEW o \in Nat,
           NEW k \in 0 .. Len(cells), o + k <= FileCap,
           WritePrefix(cells, k, o)
    PROVE  FileTypeOK'
<1>1. \A x \in o .. o + k - 1 : x \in Offset /\ x - o + 1 \in 1 .. Len(cells)
  BY ConstantTypes DEF Offset
<1>2. \A x \in o .. o + k - 1 : cells[x - o + 1] \in Cell
  BY <1>1
<1>3. \A x \in Offset : Damaged(x) \in Cell
  BY SpecialCells DEF Damaged
<1>4. file' \in [Offset -> Cell]
  BY <1>2 DEF WritePrefix, FileTypeOK
<1>5. disk' \in [Offset -> SUBSET Cell]
  BY <1>2, <1>3 DEF WritePrefix, FileTypeOK
<1>6. unsynced' \subseteq Offset
  BY <1>1 DEF WritePrefix, FileTypeOK
<1> QED
  BY <1>4, <1>5, <1>6 DEF FileTypeOK

(* A whole write keeps the file well typed. *)
LEMMA WriteAllType ==
    ASSUME FileTypeOK, NEW cells \in Seq(Cell), NEW o \in Nat, write_all_at(cells, o)
    PROVE  FileTypeOK' /\ o + Len(cells) <= FileCap
  BY WritePrefixType DEF write_all_at, Fits

(* A failed write keeps the file well typed. *)
LEMMA WriteErrorType ==
    ASSUME FileTypeOK, NEW cells \in Seq(Cell), NEW o \in Nat, WriteError(cells, o)
    PROVE  FileTypeOK'
<1>1. PICK k \in 0 .. Len(cells) - 1 : o + k <= FileCap /\ WritePrefix(cells, k, o)
  BY DEF WriteError
<1>2. k \in 0 .. Len(cells)
  OBVIOUS
<1> QED
  BY <1>1, <1>2, WritePrefixType

(* A sync, failed or not, keeps the file well typed. *)
LEMMA SyncType ==
    ASSUME FileTypeOK, sync_data \/ SyncError
    PROVE  FileTypeOK'
  BY DEF FileTypeOK, sync_data, SyncError

(* An image holds at every offset something the medium may hold. *)
LEMMA ImageShape ==
    ASSUME NEW m, NEW img \in Images(m)
    PROVE  IsImage(img, m) /\ img = [o \in Offset |-> img[o]]
  BY DEF Images

(* A power cut keeps the file well typed. *)
LEMMA PowerCutType ==
    ASSUME FileTypeOK, PowerCut
    PROVE  FileTypeOK'
<1>1. PICK img \in Images(disk) :
        /\ file' = img
        /\ disk' = [o \in Offset |-> {img[o]}]
        /\ unsynced' = {}
  BY DEF PowerCut
<1>2. IsImage(img, disk) /\ img = [o \in Offset |-> img[o]]
  BY ImageShape
<1>3. \A o \in Offset : img[o] \in Cell
  BY <1>2 DEF IsImage, FileTypeOK
<1> QED
  BY <1>1, <1>2, <1>3 DEF FileTypeOK

-----------------------------------------------------------------------------
(* The type invariant. *)

(* The header a commit writes is a header. *)
LEMMA NextHeaderType ==
    ASSUME TypeOK
    PROVE  NextHeader \in Header /\ <<header_encode(NextHeader)>> \in Seq(Cell)
<1>1. NextHeader \in Header
  BY EncodedLenType DEF NextHeader, TypeOK, Header
<1> QED
  BY <1>1, HeaderCellType

(* The fields of a handle that is not open are well typed. *)
LEMMA NoHandleType ==
    ASSUME NoHandle
    PROVE  /\ header' \in Header
           /\ slots' \in [Slot -> Header \cup {NoHeader}]
           /\ live_slot' \in Slot
           /\ index' \in MasterIndex
           /\ end' \in LOG_START .. FileCap
           /\ dirty' \in BOOLEAN
           /\ master_ptr' \in Nat
<1>1. header' \in Header /\ index' \in MasterIndex
  BY InitialHeaderType, DefaultIndexType DEF NoHandle
<1>2. slots' \in [Slot -> Header \cup {NoHeader}]
  BY DEF NoHandle
<1>3. live_slot' \in Slot /\ end' \in LOG_START .. FileCap /\ master_ptr' \in Nat
  BY ConstantTypes DEF NoHandle
<1>4. dirty' \in BOOLEAN
  BY DEF NoHandle
<1> QED
  BY <1>1, <1>2, <1>3, <1>4

(* append_raw keeps file and end well typed. *)
LEMMA AppendRawType ==
    ASSUME TypeOK, NEW kind \in RecordKind, NEW payload \in Seq(Word),
           append_raw(kind, payload)
    PROVE  /\ FileTypeOK'
           /\ end' \in LOG_START .. FileCap
           /\ dirty' \in BOOLEAN
<1>1. FileTypeOK /\ end \in Nat
  BY ConstantTypes DEF TypeOK
<1>2. /\ record_cells(kind, payload) \in Seq(Cell)
      /\ Len(record_cells(kind, payload)) = 1 + Len(payload)
  BY RecordCellsType
<1>3. /\ FileTypeOK'
      /\ end + Len(record_cells(kind, payload)) <= FileCap
  BY <1>1, <1>2, WriteAllType DEF append_raw, WriteRecord
<1>4. end' \in LOG_START .. FileCap
  BY <1>2, <1>3, ConstantTypes DEF append_raw, WriteRecord, TypeOK
<1> QED
  BY <1>3, <1>4 DEF append_raw, WriteRecord

(* A failed append_raw keeps file and counters well typed. *)
LEMMA AppendRawErrorType ==
    ASSUME TypeOK, NEW kind \in RecordKind, NEW payload \in Seq(Word),
           append_raw_error(kind, payload)
    PROVE  /\ FileTypeOK'
           /\ faults' \in 0 .. MaxFaults /\ losses' \in 0 .. MaxLosses
<1>1. FileTypeOK /\ end \in Nat
  BY ConstantTypes DEF TypeOK
<1>2. record_cells(kind, payload) \in Seq(Cell)
  BY RecordCellsType
<1>3. FileTypeOK'
  BY <1>1, <1>2, WriteErrorType DEF append_raw_error, WriteFault
<1> QED
  BY <1>3, EngineAssumption DEF append_raw_error, WriteFault, Fault, NoFault, TypeOK

(* The fault and loss counters stay within their bounds. *)
LEMMA CountersType ==
    ASSUME TypeOK, NoFault \/ Fault \/ Loss
    PROVE  faults' \in 0 .. MaxFaults /\ losses' \in 0 .. MaxLosses
  BY EngineAssumption DEF TypeOK, NoFault, Fault, Loss

(* The initial states are typed. *)
LEMMA InitTyped ==
    ASSUME Init
    PROVE  TypeOK
<1>1. FileTypeOK
  BY SpecialCells DEF Init, FileInit, FileTypeOK
<1>2. header \in Header /\ index \in MasterIndex
  BY InitialHeaderType, DefaultIndexType DEF Init
<1>3. slots \in [Slot -> Header \cup {NoHeader}]
  BY DEF Init
<1>4. live_slot \in Slot /\ end \in LOG_START .. FileCap /\ master_ptr \in Nat
  BY ConstantTypes DEF Init
<1>5. /\ pc \in {"closed", "init", "idle"} \cup CommitSteps
      /\ dirty \in BOOLEAN
  BY DEF Init
<1>6. faults \in 0 .. MaxFaults /\ losses \in 0 .. MaxLosses
  BY EngineAssumption DEF Init
<1> QED
  BY <1>1, <1>2, <1>3, <1>4, <1>5, <1>6 DEF TypeOK

(* Every step keeps the state typed. *)
LEMMA StepTyped ==
    ASSUME TypeOK, [Next]_vars
    PROVE  TypeOK'
<1>0. FileTypeOK /\ end \in Nat
  BY ConstantTypes DEF TypeOK
<1>1. CASE UNCHANGED vars
  BY <1>1 DEF TypeOK, FileTypeOK, vars, fileVars, handleVars
<1>2. CASE OpenCreate
  <2>1. FileTypeOK'
    BY <1>0, <1>2, WriteAllType, HeaderRegionType DEF OpenCreate
  <2> QED
    BY <1>2, <2>1, CountersType DEF OpenCreate, TypeOK, handleVars
<1>3. CASE OpenCreateError
  <2>1. FileTypeOK'
    BY <1>0, <1>3, WriteErrorType, HeaderRegionType DEF OpenCreateError, WriteFault
  <2>2. faults' \in 0 .. MaxFaults /\ losses' \in 0 .. MaxLosses
    BY <1>3, CountersType DEF OpenCreateError, WriteFault
  <2> QED
    BY <1>3, <2>1, <2>2 DEF OpenCreateError, TypeOK, handleVars
<1>4. CASE InitializeSync
  <2>1. FileTypeOK'
    BY <1>0, <1>4, SyncType DEF InitializeSync
  <2>2. slots' \in [Slot -> Header \cup {NoHeader}] /\ live_slot' \in Slot
    BY <1>4, ConstantTypes DEF InitializeSync, TypeOK
  <2> QED
    BY <1>4, <2>1, <2>2, CountersType DEF InitializeSync, TypeOK
<1>5. CASE InitializeSyncError
  <2>1. FileTypeOK'
    BY <1>0, <1>5, SyncType DEF InitializeSyncError
  <2> QED
    BY <1>5, <2>1, CountersType DEF InitializeSyncError, TypeOK, handleVars
<1>6. CASE OpenLoad
  <2>1. file \in [Offset -> Cell] /\ Loadable(file)
    BY <1>6 DEF OpenLoad, LoadHandle, TypeOK, FileTypeOK
  <2>2. /\ slots' \in [Slot -> Header \cup {NoHeader}]
        /\ live_slot' \in Slot
        /\ header' \in Header
        /\ index' \in MasterIndex
    BY <1>6, <2>1, LoadTypes DEF OpenLoad, LoadHandle
  <2>3. end' \in LOG_START .. FileCap
    BY <1>6, <2>1, LoadTypes DEF OpenLoad, LoadHandle, Header
  <2>4. FileTypeOK' /\ master_ptr' \in Nat
    BY <1>6 DEF OpenLoad, LoadHandle, TypeOK, FileTypeOK, fileVars
  <2>5. pc' = "idle" /\ dirty' \in BOOLEAN
    BY <1>6 DEF OpenLoad, LoadHandle
  <2> QED
    BY <1>6, <2>2, <2>3, <2>4, <2>5, CountersType DEF OpenLoad, LoadHandle, TypeOK
<1>7. CASE \/ OpenRejected \/ CommitClean
           \/ \E d \in Doc : AppendTooLarge(d)
           \/ \E id \in DocId : TombstoneMissing(id)
  BY <1>1, <1>7 DEF OpenRejected, CommitClean, AppendTooLarge, TombstoneMissing
<1>8. ASSUME NEW kind \in AppendKinds, NEW d \in Doc, Append_(kind, d)
      PROVE  TypeOK'
  <2>1. kind \in RecordKind /\ doc_payload(d) \in Seq(Word)
    BY EngineAssumption, PayloadTypes
  <2>2. FileTypeOK' /\ end' \in LOG_START .. FileCap /\ dirty' \in BOOLEAN
    BY <1>8, <2>1, AppendRawType DEF Append_
  <2>3. index' \in MasterIndex
    BY <1>0, <1>8, InsertNewType DEF Append_, TypeOK
  <2> QED
    BY <1>8, <2>2, <2>3, CountersType DEF Append_, TypeOK
<1>9. ASSUME NEW kind \in AppendKinds, NEW d \in Doc, AppendError(kind, d)
      PROVE  TypeOK'
  <2>1. kind \in RecordKind /\ doc_payload(d) \in Seq(Word)
    BY EngineAssumption, PayloadTypes
  <2>2. FileTypeOK' /\ faults' \in 0 .. MaxFaults /\ losses' \in 0 .. MaxLosses
    BY <1>9, <2>1, AppendRawErrorType DEF AppendError
  <2> QED
    BY <1>9, <2>2 DEF AppendError, append_raw_error, TypeOK
<1>10. ASSUME NEW id \in DocId, Tombstone(id)
       PROVE  TypeOK'
  <2>1. "Tombstone" \in RecordKind /\ tombstone_payload(id) \in Seq(Word)
    BY PayloadTypes DEF RecordKind
  <2>2. FileTypeOK' /\ end' \in LOG_START .. FileCap /\ dirty' \in BOOLEAN
    BY <1>10, <2>1, AppendRawType DEF Tombstone, Bury
  <2>3. index' \in MasterIndex
    BY <1>10 DEF Tombstone, Bury, TypeOK, MasterIndex
  <2> QED
    BY <1>10, <2>2, <2>3, CountersType DEF Tombstone, Bury, TypeOK
<1>11. ASSUME NEW id \in DocId, TombstoneError(id)
       PROVE  TypeOK'
  <2>1. "Tombstone" \in RecordKind /\ tombstone_payload(id) \in Seq(Word)
    BY PayloadTypes DEF RecordKind
  <2>2. FileTypeOK' /\ faults' \in 0 .. MaxFaults /\ losses' \in 0 .. MaxLosses
    BY <1>11, <2>1, AppendRawErrorType DEF TombstoneError
  <2> QED
    BY <1>11, <2>2 DEF TombstoneError, append_raw_error, TypeOK
<1>12. CASE CommitSyncRecords \/ CommitSyncMaster
  <2>1. FileTypeOK'
    BY <1>0, <1>12, SyncType DEF CommitSyncRecords, CommitSyncMaster
  <2>2. faults' \in 0 .. MaxFaults /\ losses' \in 0 .. MaxLosses
    BY <1>12, CountersType DEF CommitSyncRecords, CommitSyncMaster
  <2> QED
    BY <1>12, <2>1, <2>2
    DEF CommitSyncRecords, CommitSyncMaster, TypeOK, handleVars, CommitSteps
<1>13. CASE CommitAppendMaster
  <2>1. "MasterIndex" \in RecordKind /\ index_encode(index) \in Seq(Word)
    BY PayloadTypes DEF RecordKind, TypeOK
  <2>2. FileTypeOK' /\ end' \in LOG_START .. FileCap /\ dirty' \in BOOLEAN
    BY <1>13, <2>1, AppendRawType DEF CommitAppendMaster
  <2> QED
    BY <1>0, <1>13, <2>2, CountersType DEF CommitAppendMaster, TypeOK, CommitSteps
<1>14. CASE CommitMasterTooLarge
  BY <1>14, CountersType
  DEF CommitMasterTooLarge, TypeOK, FileTypeOK, fileVars, handleVars
<1>15. CASE CommitMasterError
  <2>1. "MasterIndex" \in RecordKind /\ index_encode(index) \in Seq(Word)
    BY PayloadTypes DEF RecordKind, TypeOK
  <2>2. FileTypeOK' /\ faults' \in 0 .. MaxFaults /\ losses' \in 0 .. MaxLosses
    BY <1>15, <2>1, AppendRawErrorType DEF CommitMasterError
  <2> QED
    BY <1>15, <2>2 DEF CommitMasterError, append_raw_error, TypeOK
<1>16. CASE CommitWriteHeader
  <2>1. victim_slot(slots) \in Nat
    BY VictimSlot, ConstantTypes DEF TypeOK
  <2>2. FileTypeOK'
    BY <1>0, <1>16, <2>1, NextHeaderType, WriteAllType DEF CommitWriteHeader
  <2> QED
    BY <1>16, <2>2, CountersType DEF CommitWriteHeader, TypeOK, handleVars, CommitSteps
<1>17. CASE CommitHeaderError
  <2>1. victim_slot(slots) \in Nat
    BY VictimSlot, ConstantTypes DEF TypeOK
  <2>2. FileTypeOK'
    BY <1>0, <1>17, <2>1, NextHeaderType, WriteErrorType DEF CommitHeaderError, WriteFault
  <2>3. faults' \in 0 .. MaxFaults /\ losses' \in 0 .. MaxLosses
    BY <1>17, CountersType DEF CommitHeaderError, WriteFault
  <2> QED
    BY <1>17, <2>2, <2>3 DEF CommitHeaderError, CommitReturns, TypeOK
<1>18. CASE CommitSyncHeader
  <2>1. FileTypeOK'
    BY <1>0, <1>18, SyncType DEF CommitSyncHeader, InstallHeader
  <2>2. victim_slot(slots) \in Slot /\ NextHeader \in Header
    BY VictimSlot, NextHeaderType DEF TypeOK
  <2>3. /\ header' \in Header /\ live_slot' \in Slot
        /\ slots' \in [Slot -> Header \cup {NoHeader}]
    BY <1>18, <2>2 DEF CommitSyncHeader, InstallHeader, TypeOK
  <2>4. pc' = "idle" /\ dirty' \in BOOLEAN /\ master_ptr' \in Nat
    BY <1>18 DEF CommitSyncHeader, InstallHeader, CommitReturns
  <2> QED
    BY <1>18, <2>1, <2>3, <2>4, CountersType DEF CommitSyncHeader, InstallHeader, TypeOK
<1>19. CASE CommitSyncError
  <2>1. FileTypeOK'
    BY <1>0, <1>19, SyncType DEF CommitSyncError
  <2> QED
    BY <1>19, <2>1, CountersType DEF CommitSyncError, CommitReturns, TypeOK
<1>20. CASE Drop
  <2>1. faults' \in 0 .. MaxFaults /\ losses' \in 0 .. MaxLosses
    BY <1>20, CountersType DEF Drop
  <2> QED
    BY <1>0, <1>20, <2>1, NoHandleType DEF Drop, TypeOK, FileTypeOK, fileVars
<1>21. CASE PowerLoss
  <2>1. FileTypeOK'
    BY <1>0, <1>21, PowerCutType DEF PowerLoss
  <2> QED
    BY <1>21, <2>1, NoHandleType, CountersType DEF PowerLoss, TypeOK
<1> QED
  BY <1>1, <1>2, <1>3, <1>4, <1>5, <1>6, <1>7, <1>8, <1>9, <1>10, <1>11, <1>12,
     <1>13, <1>14, <1>15, <1>16, <1>17, <1>18, <1>19, <1>20, <1>21
  DEF Next, CommitNext

(* Every variable keeps its type: in particular no append, and no header   *)
(* found in the file, takes the end of the log past the device.            *)
THEOREM TypeCorrect == Spec => []TypeOK
<1>1. Init => TypeOK
  BY InitTyped
<1>2. TypeOK /\ [Next]_vars => TypeOK'
  BY StepTyped
<1> QED
  BY <1>1, <1>2, PTL DEF Spec

-----------------------------------------------------------------------------
(* Supported headers. *)

(* A supported header stays supported if its log does not change. *)
LEMMA SupportedStable ==
    ASSUME FileTypeOK, FileTypeOK', NEW h \in Header, Supported(h),
           \A o \in LOG_START .. h.log_end - 1 : file'[o] = file[o] /\ o \notin unsynced'
    PROVE  Supported(h)'
<1>1. h.log_end \in LOG_START .. FileCap
  BY DEF Header
<1>2. \A o \in LOG_START .. h.log_end - 1 : o \notin unsynced' /\ file'[o] # Eof
  BY DEF Supported
<1>3. ASSUME MasterBelow(h.master_ptr, h.log_end)
      PROVE  MasterBelow(h.master_ptr, h.log_end)'
  <2> DEFINE p == h.master_ptr
  <2>1. p >= LOG_START /\ HasMaster(file, p) /\ p + file[p].len < h.log_end
    BY <1>3 DEF MasterBelow
  <2>2. file \in [Offset -> Cell] /\ file' \in [Offset -> Cell]
    BY DEF FileTypeOK
  <2>3. p \in Offset /\ file[p].len \in Nat
    BY <2>1, <2>2, MasterShape
  <2>4. \A o \in p .. p + file[p].len : file'[o] = file[o]
    BY <1>1, <2>1, <2>3, ConstantTypes DEF Offset
  <2>5. HasMaster(file', p) /\ file'[p].len = file[p].len
    BY <2>1, <2>2, <2>4, HasMasterStable
  <2> QED
    BY <2>1, <2>5 DEF MasterBelow
<1> QED
  BY <1>2, <1>3 DEF Supported

-----------------------------------------------------------------------------
(* What the operations of the file do to the file's part of the invariant. *)

(* What a write leaves in the cache, on the medium and dirty. *)
LEMMA WriteEffect ==
    ASSUME FileTypeOK, NEW cells \in Seq(Cell), NEW o \in Nat,
           NEW k \in 0 .. Len(cells), WritePrefix(cells, k, o)
    PROVE  \A x \in Offset :
             /\ x \notin o .. o + k - 1 =>
                  /\ file'[x] = file[x] /\ disk'[x] = disk[x]
                  /\ x \in unsynced' <=> x \in unsynced
             /\ x \in o .. o + k - 1 =>
                  /\ file'[x] = cells[x - o + 1]
                  /\ disk'[x] = disk[x] \cup {cells[x - o + 1], Damaged(x)}
                  /\ x \in unsynced'
  BY DEF WritePrefix, FileTypeOK

(* A header the medium may hold in a slot is well typed. *)
LEMMA CandidateType ==
    ASSUME FileTypeOK, NEW s \in Slot, NEW c \in disk[s], c.tag = "header"
    PROVE  /\ c.header \in Header /\ c = header_encode(c.header)
           /\ c.header.log_end \in LOG_START .. FileCap
           /\ c.header.generation \in Nat
<1>1. c \in HeaderCell
  BY ConstantTypes DEF FileTypeOK, Cell, HeaderCell, FrameCell, Word, Eof, Zero, Torn
<1> QED
  BY <1>1 DEF HeaderCell, Header, header_encode

(* A write at the end of the log leaves alone all that a header reaches. *)
LEMMA AppendKeepsFile ==
    ASSUME TypeOK, FileTypeOK', FileInv, HeadersWithin(end),
           NEW cells \in Seq(Cell), NEW k \in 0 .. Len(cells),
           WritePrefix(cells, k, end)
    PROVE  /\ FileInv'
           /\ \A s \in Slot : disk'[s] = disk[s] /\ file'[s] = file[s]
           /\ \A o \in LOG_START .. end - 1 : file'[o] = file[o]
           /\ \A o \in Offset : o \in end .. end + k - 1 =>
                 file'[o] = cells[o - end + 1]
<1>1. FileTypeOK /\ end \in LOG_START .. FileCap /\ end \in Nat
  BY ConstantTypes DEF TypeOK
<1>2. \A x \in Offset :
        /\ x \notin end .. end + k - 1 =>
             /\ file'[x] = file[x] /\ disk'[x] = disk[x]
             /\ x \in unsynced' <=> x \in unsynced
        /\ x \in end .. end + k - 1 =>
             /\ file'[x] = cells[x - end + 1]
             /\ disk'[x] = disk[x] \cup {cells[x - end + 1], Damaged(x)}
             /\ x \in unsynced'
  BY <1>1, WriteEffect
<1>3. \A x \in 0 .. end - 1 : x \in Offset /\ x \notin end .. end + k - 1
  BY <1>1, ConstantTypes DEF Offset
<1>4. \A s \in Slot : disk'[s] = disk[s] /\ file'[s] = file[s]
  BY <1>1, <1>2, <1>3, ConstantTypes
<1>5. \A o \in LOG_START .. end - 1 : file'[o] = file[o]
  BY <1>1, <1>2, <1>3, ConstantTypes
<1>6. SyncedIsCached'
  BY <1>2 DEF SyncedIsCached, FileInv
<1>7. HeadersSupported'
  <2> SUFFICES ASSUME NEW s \in Slot, NEW c \in disk'[s], c.tag = "header"
               PROVE  Supported(c.header)'
    BY DEF HeadersSupported
  <2>1. c \in disk[s]
    BY <1>4
  <2>2. c.header \in Header /\ c.header.log_end \in LOG_START .. FileCap
    BY <1>1, <2>1, CandidateType
  <2>3. Supported(c.header) /\ c.header.log_end <= end
    BY <2>1 DEF FileInv, HeadersSupported, HeadersWithin
  <2>4. \A o \in LOG_START .. c.header.log_end - 1 : o \in 0 .. end - 1
    BY <1>1, <2>2, <2>3, ConstantTypes
  <2>5. \A o \in LOG_START .. c.header.log_end - 1 :
          file'[o] = file[o] /\ o \notin unsynced'
    BY <1>2, <1>3, <2>3, <2>4 DEF Supported
  <2> QED
    BY <1>1, <2>2, <2>3, <2>5, SupportedStable
<1>8. SlotsOrdered'
  BY <1>4, ConstantTypes DEF SlotsOrdered, FileInv
<1>9. CacheIsNewest'
  <2>1. /\ decode_slots(file') = decode_slots(file)
        /\ LiveHeader(file') = LiveHeader(file)
    BY <1>4, LiveSame
  <2> QED
    BY <1>4, <2>1 DEF CacheIsNewest, HeadersWithin, FileInv
<1>10. NewIsEmpty'
  BY <1>4, ConstantTypes DEF NewIsEmpty, FileInv
<1> QED
  BY <1>2, <1>4, <1>5, <1>6, <1>7, <1>8, <1>9, <1>10 DEF FileInv

(* A sync, or one that failed and left its pages dirty. *)
LEMMA SyncKeepsFile ==
    ASSUME FileTypeOK, FileTypeOK', FileInv, ~SyncErrorDropsWrites,
           sync_data \/ SyncError
    PROVE  /\ FileInv' /\ file' = file
           /\ \A e : HeadersWithin(e) => HeadersWithin(e)'
<1>1. file' = file /\ \A o \in Offset : disk'[o] \subseteq disk[o]
  BY DEF sync_data, SyncError, FileTypeOK, FileInv, SyncedIsCached
<1>2. unsynced' \subseteq unsynced
  BY DEF sync_data, SyncError
<1>3. \A s \in Slot : disk'[s] \subseteq disk[s]
  BY <1>1, ConstantTypes
<1>4. SyncedIsCached'
  BY DEF SyncedIsCached, sync_data, SyncError, FileTypeOK, FileInv
<1>5. HeadersSupported'
  <2> SUFFICES ASSUME NEW s \in Slot, NEW c \in disk'[s], c.tag = "header"
               PROVE  Supported(c.header)'
    BY DEF HeadersSupported
  <2>1. c \in disk[s]
    BY <1>3
  <2>2. c.header \in Header /\ Supported(c.header)
    BY <2>1, CandidateType DEF FileInv, HeadersSupported
  <2> QED
    BY <1>1, <1>2, <2>2, SupportedStable DEF Supported
<1>6. SlotsOrdered'
  BY <1>3, ConstantTypes DEF SlotsOrdered, FileInv
<1>7. \A e : HeadersWithin(e) => HeadersWithin(e)'
  BY <1>3 DEF HeadersWithin
<1>8. CacheIsNewest'
  BY <1>1, <1>3 DEF CacheIsNewest, HeadersWithin, FileInv
<1>9. NewIsEmpty'
  <2>1. SyncedIsCached'
    BY <1>4
  <2> QED
    BY <1>1, <1>3, <2>1, ConstantTypes DEF NewIsEmpty, FileInv, SyncedIsCached
<1> QED
  BY <1>1, <1>4, <1>5, <1>6, <1>7, <1>8, <1>9 DEF FileInv

(* A power cut leaves in each slot a header that was supported, or none. *)
LEMMA PowerCutKeepsFile ==
    ASSUME FileTypeOK, FileTypeOK', FileInv, PowerCut
    PROVE  FileInv'
<1>1. PICK img \in Images(disk) :
        /\ file' = img
        /\ disk' = [o \in Offset |-> {img[o]}]
        /\ unsynced' = {}
  BY DEF PowerCut
<1>2. IsImage(img, disk)
  BY ImageShape
<1>3. \A o \in Offset : img[o] \in disk[o] /\ disk'[o] = {img[o]}
  BY <1>1, <1>2 DEF IsImage
<1>4. SyncedIsCached'
  BY <1>1, <1>3 DEF SyncedIsCached
<1>5. HeadersSupported'
  <2> SUFFICES ASSUME NEW s \in Slot, NEW c \in disk'[s], c.tag = "header"
               PROVE  Supported(c.header)'
    BY DEF HeadersSupported
  <2>1. c \in disk[s]
    BY <1>3, ConstantTypes
  <2>2. /\ c.header \in Header /\ Supported(c.header)
        /\ c.header.log_end \in LOG_START .. FileCap
    BY <2>1, CandidateType DEF FileInv, HeadersSupported
  <2>3. ASSUME NEW o \in LOG_START .. c.header.log_end - 1
        PROVE  file'[o] = file[o] /\ o \notin unsynced'
    <3>1. o \in Offset /\ o \notin unsynced
      BY <2>2, ConstantTypes DEF Offset, Supported
    <3> QED
      BY <1>1, <1>3, <3>1 DEF FileInv, SyncedIsCached
  <2> QED
    BY <2>2, <2>3, SupportedStable
<1>6. SlotsOrdered'
  BY <1>3, ConstantTypes DEF SlotsOrdered, FileInv
<1>7. CacheIsNewest'
  <2> SUFFICES ASSUME Valid(decode_slots(file')) # {},
                      NEW t \in Slot, NEW c \in disk'[t], c.tag = "header"
               PROVE  c.header.log_end <= LiveHeader(file').log_end
    BY DEF CacheIsNewest, HeadersWithin
  <2> DEFINE s == select_live(decode_slots(file'))
  <2>1. file' \in [Offset -> Cell]
    BY DEF FileTypeOK
  <2>2. /\ s \in Slot
        /\ file'[s].tag = "header" /\ file'[s].header = LiveHeader(file')
        /\ LiveHeader(file') \in Header
        /\ \A x \in Slot : file'[x].tag = "header" =>
              file'[x].header.generation <= LiveHeader(file').generation
    BY <2>1, LiveCell
  <2>3. c = file'[t] /\ c \in disk[t] /\ file'[s] \in disk[s]
    BY <1>1, <1>3, <2>2, ConstantTypes
  <2>4. CASE t = s
    BY <2>2, <2>3, <2>4 DEF Header
  <2>5. CASE t # s
    <3>1. c.header.generation <= LiveHeader(file').generation
      BY <2>2, <2>3
    <3>2. c.header \in Header /\ c.header.generation \in Nat
      BY <2>3, CandidateType
    <3>3. \/ /\ c.header.generation < LiveHeader(file').generation
             /\ c.header.log_end <= LiveHeader(file').log_end
          \/ LiveHeader(file').generation < c.header.generation
      BY <2>2, <2>3, <2>5, ConstantTypes DEF FileInv, SlotsOrdered
    <3> QED
      BY <2>2, <3>1, <3>2, <3>3 DEF Header
  <2> QED
    BY <2>4, <2>5
<1>8. NewIsEmpty'
  BY <1>1, <1>2, <1>3, ConstantTypes DEF NewIsEmpty, IsImage
<1> QED
  BY <1>4, <1>5, <1>6, <1>7, <1>8 DEF FileInv

(* Laying down the header region, or a part of it, in an empty file. *)
LEMMA CreateKeepsFile ==
    ASSUME FileTypeOK, FileTypeOK', FileInv, file[0] = Eof,
           NEW k \in 0 .. 2, WritePrefix(HeaderRegion, k, 0)
    PROVE  /\ FileInv'
           /\ \A s \in Slot : \A c \in disk'[s] :
                 c.tag = "header" => s = 0 /\ c.header = InitialHeader
<1> DEFINE H == header_encode(InitialHeader)
<1>1. HeaderRegion \in Seq(Cell) /\ Len(HeaderRegion) = 2
      /\ HeaderRegion[1] = H /\ HeaderRegion[2] = Zero
  BY HeaderRegionType DEF HeaderRegion
<1>2. \A x \in Offset :
        /\ x \notin 0 .. 0 + k - 1 =>
             /\ file'[x] = file[x] /\ disk'[x] = disk[x]
             /\ x \in unsynced' <=> x \in unsynced
        /\ x \in 0 .. 0 + k - 1 =>
             /\ file'[x] = HeaderRegion[x - 0 + 1]
             /\ disk'[x] = disk[x] \cup {HeaderRegion[x - 0 + 1], Damaged(x)}
             /\ x \in unsynced'
  BY <1>1, WriteEffect
<1>3. disk[0] = {Eof} /\ disk[1] = {Eof} /\ file[1] = Eof
  BY ConstantTypes DEF FileInv, NewIsEmpty, SyncedIsCached
<1>4. Damaged(0) = Zero /\ Damaged(1) = Zero
  BY <1>3 DEF Damaged
<1>5. /\ 0 \in Offset /\ 1 \in Offset
      /\ \A x \in 0 .. 0 + k - 1 : x = 0 \/ x = 1
  BY ConstantTypes
<1>6. disk'[0] \subseteq {Eof, Zero, H} /\ disk'[1] \subseteq {Eof, Zero}
  <2> HIDE DEF H
  <2>1. 0 - 0 + 1 = 1 /\ 1 - 0 + 1 = 2
    OBVIOUS
  <2>2. disk'[0] \in {{Eof}, {Eof, H, Zero}}
    <3>1. CASE 0 \in 0 .. 0 + k - 1
      BY <1>1, <1>2, <1>3, <1>4, <1>5, <2>1, <3>1
    <3>2. CASE 0 \notin 0 .. 0 + k - 1
      BY <1>2, <1>3, <1>5, <3>2
    <3> QED BY <3>1, <3>2
  <2>3. disk'[1] \in {{Eof}, {Eof, Zero}}
    <3>1. CASE 1 \in 0 .. 0 + k - 1
      BY <1>1, <1>2, <1>3, <1>4, <1>5, <2>1, <3>1
    <3>2. CASE 1 \notin 0 .. 0 + k - 1
      BY <1>2, <1>3, <1>5, <3>2
    <3> QED BY <3>1, <3>2
  <2> QED BY <2>2, <2>3
<1>7. \A s \in Slot : \A c \in disk'[s] :
        c.tag = "header" => s = 0 /\ c.header = InitialHeader
  BY <1>6, ConstantTypes DEF Eof, Zero, header_encode
<1>8. SyncedIsCached'
  BY <1>2 DEF SyncedIsCached, FileInv
<1>9. HeadersSupported'
  <2>1. Supported(InitialHeader)'
    BY ConstantTypes DEF Supported, InitialHeader
  <2>2. InitialHeader = InitialHeader'
    OBVIOUS
  <2> QED
    BY <1>7, <2>1 DEF HeadersSupported
<1>10. SlotsOrdered'
  BY <1>7, ConstantTypes DEF SlotsOrdered
<1>11. CacheIsNewest'
  <2> SUFFICES ASSUME Valid(decode_slots(file')) # {},
                      NEW t \in Slot, NEW c \in disk'[t], c.tag = "header"
               PROVE  c.header.log_end <= LiveHeader(file').log_end
    BY DEF CacheIsNewest, HeadersWithin
  <2>1. file' \in [Offset -> Cell]
    BY DEF FileTypeOK
  <2>2. LiveHeader(file') \in Header
    BY <2>1, LiveCell
  <2> QED
    BY <1>7, <2>2, ConstantTypes DEF Header, InitialHeader
<1>12. NewIsEmpty'
  <2>1. CASE k = 0
    BY <1>2, <1>3, <1>5, <2>1 DEF NewIsEmpty
  <2>2. CASE k # 0
    <3>1. 0 \in 0 .. 0 + k - 1
      BY <2>2
    <3>2. file'[0] = HeaderRegion[0 - 0 + 1]
      BY <1>2, <1>5, <3>1
    <3>3. 0 - 0 + 1 = 1
      OBVIOUS
    <3>4. file'[0] = H
      BY <1>1, <3>2, <3>3
    <3> QED
      BY <3>4 DEF NewIsEmpty, header_encode, Eof
  <2> QED BY <2>1, <2>2
<1> QED
  BY <1>7, <1>8, <1>9, <1>10, <1>11, <1>12 DEF FileInv

(* An open handle never goes over its own live header. *)
LEMMA VictimIsNotLive ==
    ASSUME TypeOK, RecoveryInv, IsOpen
    PROVE  victim_slot(slots) \in Slot /\ victim_slot(slots) # live_slot
<1>1. /\ slots \in [Slot -> Header \cup {NoHeader}]
      /\ live_slot \in Slot /\ header \in Header
  BY DEF TypeOK
<1>2. /\ slots[live_slot] = header
      /\ \A s \in Valid(slots) \ {live_slot} :
            slots[s].generation < slots[live_slot].generation
  BY DEF RecoveryInv, HandleInv, HandleOpen
<1>3. live_slot \in Valid(slots)
  BY <1>1, <1>2 DEF Valid, Header, NoHeader
<1> QED
  BY <1>1, <1>2, <1>3, VictimSlot

(* The commit point: the header goes into the other slot, over a log that  *)
(* is all on the medium.                                                   *)
LEMMA HeaderWriteKeepsFile ==
    ASSUME TypeOK, FileTypeOK', RecoveryInv, pc = "write_header",
           write_all_at(<<header_encode(NextHeader)>>, victim_slot(slots))
    PROVE  /\ FileInv'
           /\ \A s \in Slot : \A c \in disk'[s] :
                 c.tag = "header" => c.header.log_end <= end
           /\ file'[victim_slot(slots)] = header_encode(NextHeader)
           /\ \A o \in Offset \ {victim_slot(slots)} : file'[o] = file[o]
           /\ \A c \in disk'[victim_slot(slots)] :
                 c.tag = "header" =>
                    c \in disk[victim_slot(slots)] \/ c = header_encode(NextHeader)
           /\ disk'[victim_slot(slots)]
                 = disk[victim_slot(slots)] \cup
                     {header_encode(NextHeader), Damaged(victim_slot(slots))}
           /\ \A o \in Offset \ {victim_slot(slots)} : disk'[o] = disk[o]
           /\ \A o \in Offset : disk[o] = {file[o]}
<1> DEFINE v == victim_slot(slots)
           N == header_encode(NextHeader)
<1>1. FileTypeOK /\ IsOpen /\ FileInv
  BY DEF TypeOK, IsOpen, RecoveryInv
<1>2. v \in Slot /\ v # live_slot /\ live_slot \in Slot
  BY <1>1, VictimIsNotLive DEF TypeOK
<1>3. /\ NextHeader \in Header /\ <<N>> \in Seq(Cell)
      /\ header \in Header
      /\ NextHeader.generation = header.generation + 1
      /\ NextHeader.log_end = end /\ NextHeader.master_ptr = master_ptr
  BY NextHeaderType DEF NextHeader, TypeOK
<1>4. \A x \in Offset :
        /\ x # v => /\ file'[x] = file[x] /\ disk'[x] = disk[x]
                    /\ x \in unsynced' <=> x \in unsynced
        /\ x = v => /\ file'[x] = N
                    /\ disk'[x] = disk[x] \cup {N, Damaged(x)}
                    /\ x \in unsynced'
  <2>1. WritePrefix(<<N>>, 1, v) /\ v \in Nat /\ 1 \in 0 .. Len(<<N>>)
    BY <1>2, ConstantTypes DEF write_all_at
  <2>2. \A x \in Offset :
          /\ x \notin v .. v + 1 - 1 =>
               /\ file'[x] = file[x] /\ disk'[x] = disk[x]
               /\ x \in unsynced' <=> x \in unsynced
          /\ x \in v .. v + 1 - 1 =>
               /\ file'[x] = <<N>>[x - v + 1]
               /\ disk'[x] = disk[x] \cup {<<N>>[x - v + 1], Damaged(x)}
               /\ x \in unsynced'
    BY <1>1, <1>3, <2>1, WriteEffect
  <2>3. \A x \in Offset : x \in v .. v + 1 - 1 <=> x = v
    BY <2>1 DEF Offset
  <2>4. <<N>>[v - v + 1] = N
    BY <2>1
  <2> QED
    BY <2>2, <2>3, <2>4
<1>5. unsynced = {} /\ \A o \in Offset : disk[o] = {file[o]}
  BY DEF RecoveryInv, HandleInv, HandleCommitting, FileInv, SyncedIsCached
<1>6. /\ file[live_slot] = header_encode(header)
      /\ HeadersWithin(end)
      /\ \A o \in LOG_START .. end - 1 : file[o] # Eof
      /\ MasterBelow(master_ptr, end)
  BY <1>1 DEF RecoveryInv, HandleInv, HandleOpen, HandleCommitting
<1>7. /\ disk'[live_slot] = {header_encode(header)}
      /\ file'[live_slot] = header_encode(header)
      /\ header_encode(header).tag = "header"
      /\ header_encode(header).header = header
  BY <1>2, <1>4, <1>5, <1>6, ConstantTypes DEF header_encode
<1>8. header.log_end <= end
  BY <1>2, <1>5, <1>6, <1>7, ConstantTypes DEF HeadersWithin
<1>9. /\ N.tag = "header" /\ N.header = NextHeader
      /\ Damaged(v).tag # "header"
  BY DEF header_encode, Damaged, Zero, Torn
<1>10. \A c \in disk'[v] : c.tag = "header" => c \in disk[v] \/ c = N
  BY <1>2, <1>4, <1>9, ConstantTypes
<1>11. \A s \in Slot : s = v \/ s = live_slot
  BY <1>2, ConstantTypes
<1>12. \A s \in Slot : \A c \in disk'[s] :
         c.tag = "header" => c.header.log_end <= end
  <2> SUFFICES ASSUME NEW s \in Slot, NEW c \in disk'[s], c.tag = "header"
               PROVE  c.header.log_end <= end
    OBVIOUS
  <2>1. CASE s = live_slot
    BY <1>7, <1>8, <2>1
  <2>2. CASE s = v
    <3>1. CASE c = N
      BY <1>3, <1>9, <3>1 DEF TypeOK, Header
    <3>2. CASE c \in disk[v]
      BY <1>2, <1>6, <3>2 DEF HeadersWithin
    <3> QED BY <1>10, <2>2, <3>1, <3>2
  <2> QED BY <1>11, <2>1, <2>2
<1>13. SyncedIsCached'
  BY <1>4, <1>5 DEF SyncedIsCached
<1>14. HeadersSupported'
  <2> SUFFICES ASSUME NEW s \in Slot, NEW c \in disk'[s], c.tag = "header"
               PROVE  Supported(c.header)'
    BY DEF HeadersSupported
  <2>1. c \in disk[s] \/ c = N
    BY <1>4, <1>10, <1>11, ConstantTypes
  <2>2. c.header \in Header /\ Supported(c.header)
    <3>1. CASE c \in disk[s]
      BY <1>1, <3>1, CandidateType DEF FileInv, HeadersSupported
    <3>2. CASE c = N
      BY <1>3, <1>5, <1>6, <1>9, <3>2 DEF Supported
    <3> QED BY <2>1, <3>1, <3>2
  <2>3. \A o \in LOG_START .. c.header.log_end - 1 : o \in Offset /\ o # v
    BY <1>2, <2>2, ConstantTypes DEF Header, Offset
  <2> QED
    BY <1>1, <1>4, <1>5, <2>2, <2>3, SupportedStable
<1>15. SlotsOrdered'
  <2>1. \A c \in disk'[v] : c.tag = "header" =>
          \/ /\ c.header.generation < header.generation
             /\ c.header.log_end <= header.log_end
          \/ /\ header.generation < c.header.generation
             /\ header.log_end <= c.header.log_end
    <3> SUFFICES ASSUME NEW c \in disk'[v], c.tag = "header"
                 PROVE  \/ /\ c.header.generation < header.generation
                           /\ c.header.log_end <= header.log_end
                        \/ /\ header.generation < c.header.generation
                           /\ header.log_end <= c.header.log_end
      OBVIOUS
    <3>1. CASE c = N
      BY <1>3, <1>8, <1>9, <3>1 DEF Header
    <3>2. CASE c \in disk[v]
      <4>1. header_encode(header) \in disk[live_slot]
        BY <1>2, <1>5, <1>6, ConstantTypes
      <4> QED
        BY <1>1, <1>2, <1>7, <3>2, <4>1, ConstantTypes DEF FileInv, SlotsOrdered
    <3> QED BY <1>10, <3>1, <3>2
  <2> QED
    BY <1>2, <1>7, <2>1, ConstantTypes DEF SlotsOrdered
<1>16. CacheIsNewest'
  <2> SUFFICES ASSUME Valid(decode_slots(file')) # {},
                      NEW t \in Slot, NEW c \in disk'[t], c.tag = "header"
               PROVE  c.header.log_end <= LiveHeader(file').log_end
    BY DEF CacheIsNewest, HeadersWithin
  <2> DEFINE s == select_live(decode_slots(file'))
  <2>1. file' \in [Offset -> Cell]
    BY DEF FileTypeOK
  <2>2. /\ s \in Slot
        /\ file'[s].header = LiveHeader(file')
        /\ \A x \in Slot : file'[x].tag = "header" =>
              file'[x].header.generation <= LiveHeader(file').generation
    BY <2>1, LiveCell
  <2>3. file'[v] = N
    BY <1>2, <1>4, ConstantTypes
  <2>4. NextHeader.generation <= LiveHeader(file').generation
    BY <1>2, <1>9, <2>2, <2>3
  <2>5. s # live_slot
    <3>1. ~(header.generation + 1 <= header.generation)
      BY <1>3 DEF Header
    <3> QED BY <1>3, <1>7, <2>2, <2>4, <3>1
  <2>6. LiveHeader(file') = NextHeader
    BY <1>9, <1>11, <2>2, <2>3, <2>5
  <2> QED
    BY <1>3, <1>12, <2>6
<1>17. NewIsEmpty'
  <2>1. \A s \in Slot : file'[s].tag = "header"
    BY <1>2, <1>4, <1>7, <1>9, <1>11, ConstantTypes
  <2> QED
    BY <2>1, ConstantTypes DEF NewIsEmpty, Eof
<1> QED
  BY <1>2, <1>4, <1>5, <1>10, <1>12, <1>13, <1>14, <1>15, <1>16, <1>17, ConstantTypes
  DEF FileInv

-----------------------------------------------------------------------------
(* Appending, from an open handle. *)

(* The master index an append has just written can be read back. *)
LEMMA MasterWritten ==
    ASSUME TypeOK, FileTypeOK', append_raw("MasterIndex", index_encode(index)),
           index' = index, master_ptr' = end
    PROVE  MasterBelow(master_ptr, end)'
<1> DEFINE p == index_encode(index)
           f == encode_frame("MasterIndex", p)
           L == EncodedLen(index)
<1>1. /\ index \in MasterIndex /\ end \in LOG_START .. FileCap /\ end \in Nat
      /\ FileTypeOK
  BY ConstantTypes DEF TypeOK
<1>2. L \in Nat \ {0} /\ p \in Seq(Word) /\ Len(p) = L
  BY <1>1, EncodedLenType, PayloadTypes DEF index_encode
<1>3. \A i \in 1 .. L : p[i] = IndexWord(index, i)
  BY DEF index_encode
<1> DEFINE cells == record_cells("MasterIndex", p)
           k == Len(cells)
<1>4. cells \in Seq(Cell) /\ k = 1 + L
  <2>1. "MasterIndex" \in RecordKind
    BY DEF RecordKind
  <2> QED
    BY <1>2, <2>1, RecordCellsType
<1>5. cells[1] = f /\ \A i \in 1 .. L : cells[1 + i] = p[i]
  BY <1>2 DEF record_cells
<1>6. /\ L <= MaxRecordLen /\ end + k <= FileCap
      /\ WritePrefix(cells, k, end)
      /\ end' = end + 1 + L
  <2>1. /\ Len(p) <= MaxRecordLen /\ end + k <= FileCap
        /\ WritePrefix(cells, k, end)
        /\ end' = end + 1 + Len(p)
    BY ConstantTypes DEF append_raw, WriteRecord, write_all_at, Fits
  <2> HIDE DEF p, L, cells, k
  <2> QED
    BY <1>2, <2>1
<1>6a. k \in 0 .. k /\ end + k - 1 = end + L
  <2> HIDE DEF p, L, cells, k
  <2> QED
    BY <1>1, <1>2, <1>4
<1>7. \A x \in Offset : x \in end .. end + L =>
        file'[x] = cells[x - end + 1]
  <2>1. \A x \in Offset : x \in end .. end + k - 1 =>
          file'[x] = cells[x - end + 1]
    BY <1>1, <1>4, <1>6, <1>6a, WriteEffect
  <2> QED
    BY <1>6a, <2>1
<1>8. /\ \A x \in end .. end + L : x \in Offset
      /\ end \in end .. end + L
      /\ end + L \in Offset
  <2> HIDE DEF p, L, cells, k
  <2> QED
    BY <1>1, <1>2, <1>4, <1>6, ConstantTypes DEF Offset
<1>9. file'[end] = f
  <2>1. end - end + 1 = 1
    BY <1>1
  <2> QED
    BY <1>5, <1>7, <1>8, <2>1
<1>10. \A i \in 1 .. L : file'[end + i] = p[i]
  <2> SUFFICES ASSUME NEW i \in 1 .. L PROVE file'[end + i] = p[i]
    OBVIOUS
  <2>1. end + i \in end .. end + L /\ (end + i) - end + 1 = 1 + i
    <3> HIDE DEF L
    <3> QED BY <1>1, <1>2
  <2> QED
    BY <1>5, <1>7, <1>8, <2>1
<1>11. f.tag = "frame" /\ f.len = L /\ f.kind = "MasterIndex" /\ f.crc = p
  BY <1>2 DEF encode_frame
<1>12. decode_frame(file'[end]) = [len |-> L, kind |-> "MasterIndex", crc |-> p]
  <2> HIDE DEF p, L, f
  <2> QED
    BY <1>9, <1>11 DEF decode_frame
<1>13. decode_frame(file'[end]) # Unreadable
  BY <1>12 DEF Unreadable
<1>14. read_record_at(file', end) = [kind |-> "MasterIndex", payload |-> p]
  <2> HIDE DEF p, L, f
  <2> QED
    BY <1>6, <1>8, <1>10, <1>12, <1>13 DEF read_record_at
<1>15. IsEncodedIndex(p)
  <2>1. 1 \in 1 .. L
    <3> HIDE DEF L
    <3> QED BY <1>2
  <2>2. p # <<>>
    <3> HIDE DEF p, L
    <3> QED BY <1>2
  <2>3. p[1] = IndexWord(index, 1)
    BY <1>3, <2>1
  <2> QED
    BY <2>2, <2>3 DEF IsEncodedIndex, IndexWord
<1>16. HasMaster(file', end)
  BY <1>14, <1>15 DEF HasMaster, Unreadable
<1>17. end + file'[end].len < end'
  <2> HIDE DEF p, L, f
  <2> QED
    BY <1>1, <1>2, <1>6, <1>9, <1>11
<1> QED
  BY <1>1, <1>16, <1>17, ConstantTypes DEF MasterBelow

(* An append that succeeds, with whatever else it does to the index. *)
LEMMA AppendKeepsOpen ==
    ASSUME TypeOK, FileTypeOK', RecoveryInv, IsOpen, IsOpen',
           NEW kind \in RecordKind, NEW payload \in Seq(Word),
           append_raw(kind, payload), UNCHANGED <<header, slots, live_slot>>
    PROVE  FileInv' /\ HandleUnused' /\ HandleOpen'
<1> DEFINE cells == record_cells(kind, payload)
           k == Len(cells)
<1>1. cells \in Seq(Cell) /\ k = 1 + Len(payload) /\ k \in Nat
  BY RecordCellsType
<1>2. /\ WritePrefix(cells, k, end) /\ k \in 0 .. Len(cells)
      /\ end' = end + k /\ end + k <= FileCap
  BY <1>1, ConstantTypes DEF append_raw, WriteRecord, write_all_at, Fits, TypeOK
<1>3. /\ FileInv /\ HeadersWithin(end)
      /\ end \in LOG_START .. FileCap /\ live_slot \in Slot
      /\ \A o \in LOG_START .. end - 1 : file[o] # Eof
  BY DEF RecoveryInv, HandleInv, HandleOpen, TypeOK
<1>4. /\ FileInv'
      /\ \A s \in Slot : disk'[s] = disk[s] /\ file'[s] = file[s]
      /\ \A o \in LOG_START .. end - 1 : file'[o] = file[o]
      /\ \A o \in Offset : o \in end .. end + k - 1 => file'[o] = cells[o - end + 1]
  BY <1>1, <1>2, <1>3, AppendKeepsFile
<1>5. HeadersWithin(end)'
  <2> SUFFICES ASSUME NEW s \in Slot, NEW c \in disk'[s], c.tag = "header"
               PROVE  c.header.log_end <= end'
    BY DEF HeadersWithin
  <2>1. c \in disk[s] /\ c.header.log_end <= end
    BY <1>3, <1>4 DEF HeadersWithin
  <2>2. c.header.log_end \in LOG_START .. FileCap
    BY <2>1, CandidateType DEF TypeOK
  <2> QED
    BY <1>1, <1>2, <1>3, <2>1, <2>2, ConstantTypes
<1>6. \A o \in LOG_START .. end' - 1 : file'[o] # Eof
  <2> SUFFICES ASSUME NEW o \in LOG_START .. end' - 1 PROVE file'[o] # Eof
    OBVIOUS
  <2>1. CASE o \in LOG_START .. end - 1
    BY <1>3, <1>4, <2>1
  <2>2. CASE o \notin LOG_START .. end - 1
    <3>1. /\ o \in Offset /\ o \in end .. end + k - 1
          /\ o - end + 1 \in 1 .. Len(cells)
      BY <1>1, <1>2, <1>3, <2>2, ConstantTypes DEF Offset
    <3> QED
      BY <1>4, <3>1, RecordCellsNotEof
  <2> QED BY <2>1, <2>2
<1>7. HandleOpen'
  BY <1>3, <1>4, <1>5, <1>6 DEF RecoveryInv, HandleInv, HandleOpen
<1> QED
  BY <1>4, <1>7 DEF HandleUnused

(* An append that fails leaves the end of the log where it was. *)
LEMMA AppendErrorKeepsOpen ==
    ASSUME TypeOK, FileTypeOK', RecoveryInv, IsOpen, IsOpen',
           NEW kind \in RecordKind, NEW payload \in Seq(Word),
           append_raw_error(kind, payload), UNCHANGED <<header, slots, live_slot>>
    PROVE  FileInv' /\ HandleUnused' /\ HandleOpen'
<1> DEFINE cells == record_cells(kind, payload)
<1>1. cells \in Seq(Cell)
  BY RecordCellsType
<1>2. PICK k \in 0 .. Len(cells) - 1 : WritePrefix(cells, k, end)
  BY DEF append_raw_error, WriteFault, WriteError
<1>3. /\ FileInv /\ HeadersWithin(end) /\ end' = end
      /\ end \in LOG_START .. FileCap /\ live_slot \in Slot
      /\ \A o \in LOG_START .. end - 1 : file[o] # Eof
  BY DEF RecoveryInv, HandleInv, HandleOpen, TypeOK, append_raw_error
<1>4. k \in 0 .. Len(cells)
  BY <1>1
<1>5. /\ FileInv'
      /\ \A s \in Slot : disk'[s] = disk[s] /\ file'[s] = file[s]
      /\ \A o \in LOG_START .. end - 1 : file'[o] = file[o]
  BY <1>1, <1>2, <1>3, <1>4, AppendKeepsFile
<1>6. HandleOpen'
  BY <1>3, <1>5 DEF RecoveryInv, HandleInv, HandleOpen, HeadersWithin
<1> QED
  BY <1>5, <1>6 DEF HandleUnused

-----------------------------------------------------------------------------
(* The inductive step. *)

(* A step that leaves the file alone preserves FileInv. *)
LEMMA FileUnchanged ==
    ASSUME FileInv, UNCHANGED fileVars
    PROVE  FileInv' /\ \A e : HeadersWithin(e) => HeadersWithin(e)'
  BY DEF FileInv, fileVars, SyncedIsCached, HeadersSupported, Supported, MasterBelow,
         SlotsOrdered, CacheIsNewest, HeadersWithin, NewIsEmpty

(* A step that leaves file and handle alone preserves HandleOpen. *)
LEMMA OpenUnchanged ==
    ASSUME RecoveryInv, IsOpen, IsOpen', file' = file,
           UNCHANGED <<header, slots, live_slot, end>>,
           \A e : HeadersWithin(e) => HeadersWithin(e)'
    PROVE  HandleUnused' /\ HandleOpen'
<1>1. HeadersWithin(end)'
  <2>1. HeadersWithin(end)
    BY DEF RecoveryInv, HandleInv, HandleOpen
  <2> QED
    BY <2>1 DEF HeadersWithin
<1> QED
  BY <1>1 DEF RecoveryInv, HandleInv, HandleOpen, HandleUnused

(* A handle without state satisfies HandleInv. *)
LEMMA ClosedHandle ==
    ASSUME pc' = "closed",
           header' = InitialHeader, slots' = [s \in Slot |-> NoHeader], end' = LOG_START
    PROVE  HandleInv'
  BY DEF HandleInv, HandleUnused, HandleCreating, HandleOpen, HandleCommitting, IsOpen

(* The states of pc in which a handle is open. *)
LEMMA OpenStates ==
    /\ IsOpen <=> pc # "closed" /\ pc # "init"
    /\ IsOpen' <=> pc' # "closed" /\ pc' # "init"
  BY DEF IsOpen

(* OpenCreate and its error preserve the invariant. *)
LEMMA CreateStep ==
    ASSUME TypeOK, TypeOK', RecoveryInv, OpenCreate \/ OpenCreateError
    PROVE  RecoveryInv'
<1>1. /\ FileTypeOK /\ FileTypeOK' /\ FileInv /\ pc = "closed" /\ file[0] = Eof
      /\ UNCHANGED handleVars
  BY DEF TypeOK, RecoveryInv, OpenCreate, OpenCreateError
<1>2. header = InitialHeader /\ slots = [s \in Slot |-> NoHeader] /\ end = LOG_START
  BY <1>1 DEF RecoveryInv, HandleInv, HandleUnused, IsOpen
<1>3. HeaderRegion \in Seq(Cell) /\ Len(HeaderRegion) = 2
  BY HeaderRegionType
<1>4. CASE OpenCreate
  <2>1. WritePrefix(HeaderRegion, Len(HeaderRegion), 0) /\ Len(HeaderRegion) \in 0 .. 2
        /\ Len(HeaderRegion) \in 0 .. Len(HeaderRegion)
    BY <1>3, <1>4 DEF OpenCreate, write_all_at
  <2>2. FileInv'
    BY <1>1, <2>1, CreateKeepsFile
  <2>3. file'[0] = HeaderRegion[1] /\ file'[1] = HeaderRegion[2]
    BY <1>3, <2>1, ConstantTypes DEF WritePrefix
  <2>4. file'[0] = header_encode(InitialHeader) /\ file'[1] = Zero
    BY <2>3 DEF HeaderRegion
  <2>5. pc' = "init"
    BY <1>4 DEF OpenCreate
  <2>6. HandleInv'
    BY <1>1, <1>2, <2>4, <2>5
    DEF HandleInv, HandleUnused, HandleCreating, HandleOpen, HandleCommitting,
        IsOpen, handleVars
  <2> QED BY <2>2, <2>6 DEF RecoveryInv
<1>5. CASE OpenCreateError
  <2>1. PICK k \in 0 .. Len(HeaderRegion) - 1 : WritePrefix(HeaderRegion, k, 0)
    BY <1>5 DEF OpenCreateError, WriteFault, WriteError
  <2>2. k \in 0 .. 2
    BY <1>3
  <2>3. FileInv'
    BY <1>1, <2>1, <2>2, CreateKeepsFile
  <2>4. HandleInv'
    BY <1>1, <1>2, <1>5, ClosedHandle DEF OpenCreateError, handleVars
  <2> QED BY <2>3, <2>4 DEF RecoveryInv
<1> QED
  BY <1>4, <1>5

(* The sync of initialize and its error preserve the invariant. *)
LEMMA InitializeStep ==
    ASSUME TypeOK, TypeOK', RecoveryInv, ~SyncErrorDropsWrites,
           InitializeSync \/ InitializeSyncError
    PROVE  RecoveryInv'
<1>1. /\ FileTypeOK /\ FileTypeOK' /\ FileInv /\ pc = "init"
      /\ sync_data \/ SyncError
  BY DEF TypeOK, RecoveryInv, InitializeSync, InitializeSyncError
<1>2. FileInv' /\ file' = file /\ \A e : HeadersWithin(e) => HeadersWithin(e)'
  BY <1>1, SyncKeepsFile
<1>3. /\ header = InitialHeader /\ slots = [s \in Slot |-> NoHeader] /\ end = LOG_START
      /\ file[0] = header_encode(InitialHeader) /\ file[1] = Zero
  BY <1>1 DEF RecoveryInv, HandleInv, HandleUnused, HandleCreating, IsOpen
<1>4. CASE InitializeSyncError
  BY <1>2, <1>3, <1>4, ClosedHandle DEF InitializeSyncError, handleVars, RecoveryInv
<1>5. CASE InitializeSync
  <2>1. /\ pc' = "idle" /\ header' = InitialHeader /\ end' = LOG_START /\ live_slot' = 0
        /\ slots' = [slots EXCEPT ![0] = header]
    BY <1>3, <1>5 DEF InitializeSync
  <2>2. HeadersWithin(end)'
    <3>1. file \in [Offset -> Cell]
      BY <1>1 DEF FileTypeOK
    <3>2. decode_slots(file)[0] = InitialHeader /\ InitialHeader # NoHeader
      BY <1>3, ConstantTypes DEF decode_slots, header_decode, header_encode,
                                 InitialHeader, NoHeader
    <3>3. Valid(decode_slots(file)) # {}
      BY <3>2, ConstantTypes DEF Valid
    <3>4. LiveHeader(file) = InitialHeader
      <4> DEFINE s == select_live(decode_slots(file))
      <4>1. s \in Slot /\ file[s].tag = "header" /\ file[s].header = LiveHeader(file)
        BY <3>1, <3>3, LiveCell
      <4>2. s = 0
        BY <1>3, <4>1, ConstantTypes DEF Zero
      <4> QED
        BY <1>3, <4>1, <4>2 DEF header_encode
    <3>5. HeadersWithin(LOG_START)
      BY <1>1, <3>3, <3>4 DEF FileInv, CacheIsNewest, InitialHeader
    <3>6. HeadersWithin(LOG_START)'
      BY <1>2, <3>5
    <3> QED BY <2>1, <3>6 DEF HeadersWithin
  <2>3. HandleOpen'
    <3>1. file'[live_slot'] = header_encode(header')
      BY <1>2, <1>3, <2>1
    <3>2. slots'[live_slot'] = header'
      BY <1>3, <2>1, ConstantTypes
    <3>3. Valid(slots') \ {live_slot'} = {}
      BY <1>3, <2>1, ConstantTypes DEF Valid
    <3>4. \A o \in LOG_START .. end' - 1 : file'[o] # Eof
      BY <2>1, ConstantTypes
    <3> QED BY <2>2, <3>1, <3>2, <3>3, <3>4 DEF HandleOpen
  <2>4. HandleUnused' /\ HandleCreating' /\ HandleCommitting'
    BY <2>1 DEF HandleUnused, HandleCreating, HandleCommitting, IsOpen
  <2> QED BY <1>2, <2>3, <2>4 DEF RecoveryInv, HandleInv
<1> QED
  BY <1>1, <1>4, <1>5

(* load preserves the invariant. *)
LEMMA LoadStep ==
    ASSUME TypeOK, TypeOK', RecoveryInv, OpenLoad
    PROVE  RecoveryInv'
<1> DEFINE s == select_live(decode_slots(file))
           h == LiveHeader(file)
<1>1. /\ FileTypeOK /\ FileInv /\ file \in [Offset -> Cell]
      /\ Loadable(file) /\ UNCHANGED fileVars
  BY DEF TypeOK, FileTypeOK, RecoveryInv, OpenLoad, LoadHandle
<1>2. /\ pc' = "idle" /\ header' = h /\ live_slot' = s /\ end' = h.log_end
      /\ slots' = decode_slots(file) /\ file' = file
  BY DEF OpenLoad, LoadHandle, fileVars
<1>3. FileInv' /\ \A e : HeadersWithin(e) => HeadersWithin(e)'
  BY <1>1, FileUnchanged
<1>4. Valid(decode_slots(file)) # {}
  BY <1>1 DEF Loadable
<1>5. /\ s \in Slot /\ h \in Header
      /\ file[s].tag = "header" /\ file[s].header = h
      /\ file[s] = header_encode(h)
      /\ \A t \in Slot : file[t].tag = "header" => file[t].header.generation <= h.generation
  BY <1>1, <1>4, LiveCell
<1>6. \A x \in Slot : file[x] \in disk[x]
  BY <1>1, ConstantTypes DEF FileInv, SyncedIsCached
<1>7. HeadersWithin(end)'
  <2>1. HeadersWithin(h.log_end)
    BY <1>1, <1>4 DEF FileInv, CacheIsNewest
  <2> QED
    BY <1>1, <1>2, <2>1 DEF HeadersWithin, fileVars
<1>8. \A o \in LOG_START .. end' - 1 : file'[o] # Eof
  <2>1. Supported(h)
    BY <1>1, <1>5, <1>6 DEF FileInv, HeadersSupported
  <2> QED
    BY <1>2, <2>1 DEF Supported
<1>9. slots'[live_slot'] = header'
  BY <1>2 DEF LiveHeader
<1>10. ASSUME NEW t \in Valid(slots') \ {live_slot'}
       PROVE  slots'[t].generation < header'.generation
  <2>1. t \in Slot /\ decode_slots(file)[t] # NoHeader /\ t # s
    BY <1>2, <1>10 DEF Valid
  <2>2. file[t].tag = "header" /\ decode_slots(file)[t] = file[t].header
    BY <2>1 DEF decode_slots, header_decode
  <2>3. file[t].header.generation <= h.generation
    BY <1>5, <2>1, <2>2
  <2>4. file[t].header.generation \in Nat /\ h.generation \in Nat
    BY <1>1, <1>5, <1>6, <2>1, <2>2, CandidateType DEF Header
  <2>5. \/ file[t].header.generation < h.generation
        \/ h.generation < file[t].header.generation
    BY <1>1, <1>5, <1>6, <2>1, <2>2, ConstantTypes DEF FileInv, SlotsOrdered
  <2> QED
    BY <1>2, <2>2, <2>3, <2>4, <2>5
<1>11. HandleOpen'
  BY <1>2, <1>5, <1>7, <1>8, <1>9, <1>10 DEF HandleOpen
<1>12. HandleUnused' /\ HandleCreating' /\ HandleCommitting'
  BY <1>2 DEF HandleUnused, HandleCreating, HandleCommitting, IsOpen
<1> QED
  BY <1>3, <1>11, <1>12 DEF RecoveryInv, HandleInv

(* append, tombstone and their errors preserve the invariant. *)
LEMMA AppendStep ==
    ASSUME TypeOK, TypeOK', RecoveryInv,
           \/ \E kind \in AppendKinds, d \in Doc : Append_(kind, d) \/ AppendError(kind, d)
           \/ \E id \in DocId : Tombstone(id) \/ TombstoneError(id)
    PROVE  RecoveryInv'
<1>1. FileTypeOK' /\ pc = "idle" /\ pc' = "idle"
      /\ UNCHANGED <<header, slots, live_slot>>
  BY DEF TypeOK, Append_, AppendError, Tombstone, Bury, TombstoneError
<1>2. IsOpen /\ IsOpen'
  BY <1>1, OpenStates
<1>3. \E kind \in RecordKind, payload \in Seq(Word) :
        append_raw(kind, payload) \/ append_raw_error(kind, payload)
  <2>1. "Tombstone" \in RecordKind /\ AppendKinds \subseteq RecordKind
    BY EngineAssumption DEF RecordKind
  <2> QED
    BY <2>1, PayloadTypes DEF Append_, AppendError, Tombstone, Bury, TombstoneError
<1>4. FileInv' /\ HandleUnused' /\ HandleOpen'
  BY <1>1, <1>2, <1>3, AppendKeepsOpen, AppendErrorKeepsOpen
<1>5. HandleCreating' /\ HandleCommitting'
  BY <1>1 DEF HandleCreating, HandleCommitting
<1> QED
  BY <1>4, <1>5 DEF RecoveryInv, HandleInv

(* Appending the master index, or failing to, preserves the invariant. *)
LEMMA MasterStep ==
    ASSUME TypeOK, TypeOK', RecoveryInv,
           CommitAppendMaster \/ CommitMasterTooLarge \/ CommitMasterError
    PROVE  RecoveryInv'
<1>1. /\ FileTypeOK' /\ FileInv /\ pc = "append_master"
      /\ "MasterIndex" \in RecordKind /\ index_encode(index) \in Seq(Word)
  BY PayloadTypes
  DEF TypeOK, RecoveryInv, RecordKind, CommitAppendMaster, CommitMasterTooLarge,
      CommitMasterError
<1>2. IsOpen
  BY <1>1, OpenStates
<1>3. CASE CommitAppendMaster
  <2>1. /\ append_raw("MasterIndex", index_encode(index))
        /\ pc' = "sync_master" /\ master_ptr' = end /\ index' = index
        /\ UNCHANGED <<header, slots, live_slot>>
    BY <1>3 DEF CommitAppendMaster
  <2>2. FileInv' /\ HandleUnused' /\ HandleOpen'
    BY <1>1, <1>2, <2>1, OpenStates, AppendKeepsOpen
  <2>3. MasterBelow(master_ptr, end)'
    BY <1>1, <2>1, MasterWritten
  <2>4. HandleCreating' /\ HandleCommitting'
    BY <2>1, <2>3 DEF HandleCreating, HandleCommitting
  <2> QED BY <2>2, <2>4 DEF RecoveryInv, HandleInv
<1>4. CASE CommitMasterTooLarge
  <2>1. pc' = "idle" /\ UNCHANGED <<fileVars, handleVars>>
    BY <1>4 DEF CommitMasterTooLarge
  <2>2. FileInv' /\ \A e : HeadersWithin(e) => HeadersWithin(e)'
    BY <1>1, <2>1, FileUnchanged
  <2>3. HandleUnused' /\ HandleOpen'
    BY <1>2, <2>1, <2>2, OpenStates, OpenUnchanged DEF fileVars, handleVars
  <2>4. HandleCreating' /\ HandleCommitting'
    BY <2>1 DEF HandleCreating, HandleCommitting
  <2> QED BY <2>2, <2>3, <2>4 DEF RecoveryInv, HandleInv
<1>5. CASE CommitMasterError
  <2>1. /\ append_raw_error("MasterIndex", index_encode(index)) /\ pc' = "idle"
        /\ UNCHANGED <<header, slots, live_slot>>
    BY <1>5 DEF CommitMasterError
  <2>2. FileInv' /\ HandleUnused' /\ HandleOpen'
    BY <1>1, <1>2, <2>1, OpenStates, AppendErrorKeepsOpen
  <2>3. HandleCreating' /\ HandleCommitting'
    BY <2>1 DEF HandleCreating, HandleCommitting
  <2> QED BY <2>2, <2>3 DEF RecoveryInv, HandleInv
<1> QED
  BY <1>3, <1>4, <1>5

(* commit's syncs before the header, and a failed one, preserve the invariant. *)
LEMMA SyncStep ==
    ASSUME TypeOK, TypeOK', RecoveryInv, ~SyncErrorDropsWrites,
           CommitSyncRecords \/ CommitSyncMaster \/ CommitSyncError
    PROVE  RecoveryInv'
<1>1. /\ FileTypeOK /\ FileTypeOK' /\ FileInv
      /\ sync_data \/ SyncError
      /\ pc \in {"idle", "sync_master", "sync_header"}
      /\ pc' \in {"append_master", "write_header", "idle"}
      /\ UNCHANGED <<header, slots, live_slot, end>>
  BY DEF TypeOK, RecoveryInv, CommitSyncRecords, CommitSyncMaster, CommitSyncError,
         handleVars, CommitReturns
<1>2. IsOpen /\ IsOpen'
  BY <1>1, OpenStates
<1>3. FileInv' /\ file' = file /\ \A e : HeadersWithin(e) => HeadersWithin(e)'
  BY <1>1, SyncKeepsFile
<1>4. HandleUnused' /\ HandleOpen'
  BY <1>1, <1>2, <1>3, OpenUnchanged
<1>5. HandleCreating' /\ HandleCommitting'
  <2>1. CASE pc' = "write_header"
    <3>1. /\ pc = "sync_master" /\ unsynced' = {}
          /\ UNCHANGED <<master_ptr, end>>
      BY <2>1 DEF CommitSyncRecords, CommitSyncMaster, CommitSyncError, handleVars,
                  CommitReturns, sync_data
    <3>2. MasterBelow(master_ptr, end)'
      BY <1>3, <3>1 DEF RecoveryInv, HandleInv, HandleCommitting, MasterBelow
    <3> QED BY <2>1, <3>1, <3>2 DEF HandleCreating, HandleCommitting
  <2>2. CASE pc' # "write_header"
    BY <1>1, <2>2 DEF HandleCreating, HandleCommitting
  <2> QED BY <2>1, <2>2
<1> QED
  BY <1>3, <1>4, <1>5 DEF RecoveryInv, HandleInv

(* Writing the header, or failing to, preserves the invariant. *)
LEMMA WriteHeaderStep ==
    ASSUME TypeOK, TypeOK', RecoveryInv, CommitWriteHeader \/ CommitHeaderError
    PROVE  RecoveryInv'
<1> DEFINE v == victim_slot(slots)
<1>1. FileTypeOK /\ FileTypeOK' /\ FileInv /\ pc = "write_header"
  BY DEF TypeOK, RecoveryInv, CommitWriteHeader, CommitHeaderError
<1>2. IsOpen /\ v \in Slot /\ v # live_slot /\ live_slot \in Slot
      /\ end \in LOG_START .. FileCap
  BY <1>1, OpenStates, VictimIsNotLive DEF TypeOK
<1>3. CASE CommitWriteHeader
  <2>1. /\ write_all_at(<<header_encode(NextHeader)>>, v)
        /\ pc' = "sync_header" /\ UNCHANGED handleVars
    BY <1>3 DEF CommitWriteHeader
  <2>2. /\ FileInv'
        /\ \A s \in Slot : \A c \in disk'[s] : c.tag = "header" => c.header.log_end <= end
        /\ file'[v] = header_encode(NextHeader)
        /\ \A o \in Offset \ {v} : file'[o] = file[o]
    BY <1>1, <2>1, HeaderWriteKeepsFile
  <2>3. \A o \in LOG_START .. FileCap - 1 : file'[o] = file[o]
    BY <1>2, <2>2, ConstantTypes DEF Offset
  <2>4. HandleOpen'
    <3>1. file'[live_slot] = file[live_slot]
      BY <1>2, <2>2, ConstantTypes
    <3>2. HeadersWithin(end)'
      BY <2>1, <2>2 DEF HeadersWithin, handleVars
    <3>3. \A o \in LOG_START .. end - 1 : file'[o] # Eof
      <4>1. \A o \in LOG_START .. end - 1 : o \in LOG_START .. FileCap - 1 /\ file[o] # Eof
        BY <1>2, ConstantTypes DEF RecoveryInv, HandleInv, HandleOpen
      <4> QED BY <2>3, <4>1
    <3> QED
      BY <1>2, <2>1, <3>1, <3>2, <3>3 DEF RecoveryInv, HandleInv, HandleOpen, handleVars
  <2>5. MasterBelow(master_ptr, end)'
    <3> DEFINE p == master_ptr
    <3>1. p >= LOG_START /\ HasMaster(file, p) /\ p + file[p].len < end
      BY <1>1 DEF RecoveryInv, HandleInv, HandleCommitting, MasterBelow
    <3>2. file \in [Offset -> Cell] /\ file' \in [Offset -> Cell]
      BY <1>1 DEF FileTypeOK
    <3>3. p \in Offset /\ file[p].len \in Nat
      BY <3>1, <3>2, MasterShape
    <3>4. \A o \in p .. p + file[p].len : file'[o] = file[o]
      BY <1>2, <2>3, <3>1, <3>3, ConstantTypes DEF Offset
    <3>5. HasMaster(file', p) /\ file'[p].len = file[p].len
      BY <3>1, <3>2, <3>4, HasMasterStable
    <3> QED
      BY <2>1, <3>1, <3>5 DEF MasterBelow, handleVars
  <2>6. file'[victim_slot(slots')] = header_encode(NextHeader)'
    BY <2>1, <2>2 DEF NextHeader, handleVars
  <2>7. HandleUnused' /\ HandleCreating' /\ HandleCommitting'
    BY <2>1, <2>5, <2>6 DEF HandleUnused, HandleCreating, HandleCommitting, IsOpen
  <2> QED BY <2>2, <2>4, <2>7 DEF RecoveryInv, HandleInv
<1>4. CASE CommitHeaderError
  <2>1. /\ WriteError(<<header_encode(NextHeader)>>, v)
        /\ pc' = "idle" /\ UNCHANGED <<header, slots, live_slot, end>>
    BY <1>4 DEF CommitHeaderError, WriteFault, CommitReturns
  <2>2. WritePrefix(<<header_encode(NextHeader)>>, 0, v)
    BY <2>1 DEF WriteError
  <2>3. v .. v + 0 - 1 = {}
    BY <1>2, ConstantTypes
  <2>4. UNCHANGED fileVars
    BY <1>1, <2>2, <2>3 DEF WritePrefix, fileVars, FileTypeOK
  <2>5. FileInv' /\ \A e : HeadersWithin(e) => HeadersWithin(e)'
    BY <1>1, <2>4, FileUnchanged
  <2>6. HandleUnused' /\ HandleOpen'
    BY <1>2, <2>1, <2>4, <2>5, OpenStates, OpenUnchanged DEF fileVars
  <2>7. HandleCreating' /\ HandleCommitting'
    BY <2>1 DEF HandleCreating, HandleCommitting
  <2> QED BY <2>5, <2>6, <2>7 DEF RecoveryInv, HandleInv
<1> QED
  BY <1>3, <1>4

(* commit's last step preserves the invariant. *)
LEMMA SyncHeaderStep ==
    ASSUME TypeOK, TypeOK', RecoveryInv, ~SyncErrorDropsWrites, CommitSyncHeader
    PROVE  RecoveryInv'
<1> DEFINE v == victim_slot(slots)
<1>1. /\ FileTypeOK /\ FileTypeOK' /\ FileInv /\ pc = "sync_header" /\ sync_data
      /\ pc' = "idle" /\ end' = end /\ header' = NextHeader /\ live_slot' = v
      /\ slots' = [slots EXCEPT ![v] = NextHeader]
  BY DEF TypeOK, RecoveryInv, CommitSyncHeader, InstallHeader, CommitReturns
<1>2. FileInv' /\ file' = file /\ \A e : HeadersWithin(e) => HeadersWithin(e)'
  BY <1>1, SyncKeepsFile
<1>3. IsOpen /\ v \in Slot /\ v # live_slot /\ live_slot \in Slot
  BY <1>1, OpenStates, VictimIsNotLive DEF TypeOK
<1>4. /\ slots \in [Slot -> Header \cup {NoHeader}] /\ header \in Header
      /\ NextHeader.generation = header.generation + 1
  BY DEF TypeOK, NextHeader
<1>5. /\ slots[live_slot] = header /\ HeadersWithin(end)
      /\ \A o \in LOG_START .. end - 1 : file[o] # Eof
  BY <1>3 DEF RecoveryInv, HandleInv, HandleOpen
<1>6. file'[live_slot'] = header_encode(header') /\ slots'[live_slot'] = header'
  BY <1>1, <1>2, <1>3, <1>4 DEF RecoveryInv, HandleInv, HandleCommitting
<1>7. ASSUME NEW t \in Valid(slots') \ {live_slot'}
      PROVE  slots'[t].generation < header'.generation
  <2>1. t = live_slot
    BY <1>1, <1>3, <1>7, ConstantTypes DEF Valid
  <2>2. slots'[t] = header
    BY <1>1, <1>3, <1>4, <1>5, <2>1
  <2> QED
    BY <1>1, <1>4, <2>2 DEF Header
<1>8. HeadersWithin(end)'
  BY <1>1, <1>2, <1>5 DEF HeadersWithin
<1>9. HandleOpen'
  BY <1>1, <1>2, <1>5, <1>6, <1>7, <1>8 DEF HandleOpen
<1>10. HandleUnused' /\ HandleCreating' /\ HandleCommitting'
  BY <1>1 DEF HandleUnused, HandleCreating, HandleCommitting, IsOpen
<1> QED
  BY <1>2, <1>9, <1>10 DEF RecoveryInv, HandleInv

(* Losing the handle or the power preserves the invariant. *)
LEMMA LossStep ==
    ASSUME TypeOK, TypeOK', RecoveryInv, Drop \/ PowerLoss
    PROVE  RecoveryInv'
<1>1. FileTypeOK /\ FileTypeOK' /\ FileInv
  BY DEF TypeOK, RecoveryInv
<1>2. FileInv'
  BY <1>1, FileUnchanged, PowerCutKeepsFile DEF Drop, PowerLoss
<1>3. HandleInv'
  BY ClosedHandle DEF Drop, PowerLoss, NoHandle
<1> QED
  BY <1>2, <1>3 DEF RecoveryInv

-----------------------------------------------------------------------------
(* The theorems. *)

(* The invariant holds initially. *)
LEMMA InitRecoverable ==
    ASSUME Init
    PROVE  RecoveryInv
<1>1. \A o \in Offset : file[o] = Eof /\ disk[o] = {Eof}
  BY DEF Init, FileInit
<1>2. \A s \in Slot : file[s] = Eof /\ \A c \in disk[s] : c.tag # "header"
  BY <1>1, ConstantTypes DEF Eof
<1>3. FileInv
  BY <1>1, <1>2, ConstantTypes
  DEF FileInv, SyncedIsCached, HeadersSupported, SlotsOrdered, CacheIsNewest,
      HeadersWithin, NewIsEmpty
<1>4. HandleInv
  BY DEF Init, HandleInv, HandleUnused, HandleCreating, HandleOpen, HandleCommitting,
         IsOpen
<1> QED BY <1>3, <1>4 DEF RecoveryInv

(* Every step preserves the invariant. *)
LEMMA StepRecoverable ==
    ASSUME TypeOK, TypeOK', RecoveryInv, ~SyncErrorDropsWrites, [Next]_vars
    PROVE  RecoveryInv'
<1>1. CASE UNCHANGED vars
  <2>1. FileInv'
    BY <1>1, FileUnchanged DEF vars, RecoveryInv
  <2>2. HandleInv'
    BY <1>1 DEF vars, fileVars, handleVars, RecoveryInv, HandleInv, HandleUnused,
                HandleCreating, HandleOpen, HandleCommitting, IsOpen, HeadersWithin,
                MasterBelow, NextHeader
  <2> QED BY <2>1, <2>2 DEF RecoveryInv
<1>2. CASE Next
  BY <1>1, <1>2, CreateStep, InitializeStep, LoadStep, AppendStep, MasterStep,
     SyncStep, WriteHeaderStep, SyncHeaderStep, LossStep
  DEF Next, CommitNext, OpenRejected, CommitClean, AppendTooLarge, TombstoneMissing
<1> QED BY <1>1, <1>2

(* Unless the kernel drops the pages of a failed sync, every header that   *)
(* load may ever find describes a log that is complete and on the medium,  *)
(* and no append goes below it.                                            *)
THEOREM RecoveryInvariant ==
    ASSUME ~SyncErrorDropsWrites
    PROVE  Spec => []RecoveryInv
<1>1. Init => RecoveryInv
  BY InitRecoverable
<1>2. TypeOK /\ TypeOK' /\ RecoveryInv /\ [Next]_vars => RecoveryInv'
  BY StepRecoverable
<1> QED
  BY <1>1, <1>2, TypeCorrect, PTL DEF Spec

(* A crash during commit is always recoverable: once one header is durable *)
(* load accepts the file whenever nobody has it open, whatever was lost,   *)
(* torn, or left behind by calls that failed.                              *)
THEOREM Recoverable ==
    ASSUME ~SyncErrorDropsWrites
    PROVE  Spec => []AlwaysRecoverable
<1>1. TypeOK /\ RecoveryInv => AlwaysRecoverable
  <2> SUFFICES ASSUME TypeOK, RecoveryInv, DurableSlots # {}, pc = "closed"
               PROVE  Loadable(file)
    BY DEF AlwaysRecoverable
  <2> DEFINE h == LiveHeader(file)
             s == select_live(decode_slots(file))
  <2>1. FileTypeOK /\ file \in [Offset -> Cell] /\ FileInv
    BY DEF TypeOK, FileTypeOK, RecoveryInv
  <2>2. \A x \in Slot : file[x] \in disk[x]
    BY <2>1, ConstantTypes DEF FileInv, SyncedIsCached
  <2>3. PICK x \in Slot : /\ Eof \notin disk[LOG_START - 1]
                          /\ \E c \in disk[x] : disk[x] = {c} /\ c.tag = "header"
    BY DEF DurableSlots
  <2>4. file[LOG_START - 1] # Eof
    BY <2>2, <2>3, ConstantTypes
  <2>5. file[x].tag = "header"
    BY <2>2, <2>3
  <2>6. Valid(decode_slots(file)) # {}
    <3>1. file[x] \in HeaderCell
      BY <2>1, <2>5, ConstantTypes DEF Cell, HeaderCell, FrameCell, Word, Eof, Zero, Torn
    <3>2. decode_slots(file)[x] # NoHeader
      BY <2>5, <3>1 DEF decode_slots, header_decode, HeaderCell, Header, NoHeader
    <3> QED BY <3>2 DEF Valid
  <2>7. s \in Slot /\ h \in Header /\ file[s].tag = "header" /\ file[s].header = h
    BY <2>1, <2>6, LiveCell
  <2>8. Supported(h)
    BY <2>1, <2>2, <2>7 DEF FileInv, HeadersSupported
  <2>9. h.log_end - 1 \in Offset
    BY <2>7, ConstantTypes DEF Header, Offset
  <2>10. file[h.log_end - 1] # Eof
    BY <2>4, <2>7, <2>8, ConstantTypes DEF Header, Supported
  <2>11. h.master_len = 0 \/ HasMaster(file, h.master_ptr)
    BY <2>8 DEF Supported, MasterBelow
  <2> QED
    BY <2>4, <2>6, <2>9, <2>10, <2>11 DEF Loadable
<1> QED
  BY <1>1, TypeCorrect, RecoveryInvariant, PTL

-----------------------------------------------------------------------------
(* The bytes of the live generation. *)

(* The log of an open handle's header ends at or before its next append,   *)
(* and its two header slots are below both.                                *)
LEMMA LiveBelowEnd ==
    ASSUME TypeOK, RecoveryInv, IsOpen
    PROVE  /\ live_slot \in Slot /\ header.log_end \in LOG_START .. end
           /\ end \in LOG_START .. FileCap
<1>1. live_slot \in Slot /\ file[live_slot] = header_encode(header) /\ HeadersWithin(end)
  BY DEF TypeOK, RecoveryInv, HandleInv, HandleOpen
<1>2. header_encode(header) \in disk[live_slot]
  BY <1>1, ConstantTypes DEF RecoveryInv, FileInv, SyncedIsCached
<1>3. header.log_end <= end
  BY <1>1, <1>2 DEF HeadersWithin, header_encode
<1> QED
  BY <1>1, <1>3, ConstantTypes DEF TypeOK, Header

(* A write at the end of the log, whole or cut short, changes no byte of   *)
(* the live generation.                                                    *)
LEMMA AppendSparesLive ==
    ASSUME TypeOK, RecoveryInv, IsOpen, NEW cells, NEW k, WritePrefix(cells, k, end)
    PROVE  \A o \in {live_slot} \cup LOG_START .. header.log_end - 1 : file'[o] = file[o]
<1>1. \A o \in Offset : o < end => file'[o] = file[o]
  BY ConstantTypes DEF WritePrefix, TypeOK, Offset
<1> QED
  BY <1>1, LiveBelowEnd, ConstantTypes DEF Offset

(* A commit's header write changes no byte of the live generation. *)
LEMMA HeaderWriteSparesLive ==
    ASSUME TypeOK, RecoveryInv, IsOpen, NEW cells, NEW k \in {0, 1},
           WritePrefix(cells, k, victim_slot(slots))
    PROVE  \A o \in {live_slot} \cup LOG_START .. header.log_end - 1 : file'[o] = file[o]
<1>1. victim_slot(slots) \in Slot /\ victim_slot(slots) # live_slot
  BY VictimIsNotLive
<1>2. \A o \in Offset \ {victim_slot(slots)} : file'[o] = file[o]
  BY <1>1, ConstantTypes DEF WritePrefix, Offset
<1> QED
  BY <1>1, <1>2, LiveBelowEnd, ConstantTypes DEF Offset

(* While a handle is open nothing writes over its live header or over a    *)
(* byte of the log that header reaches (engine.rs append_raw and commit):  *)
(* a commit that fails or is cut off leaves the previous state intact.     *)
THEOREM LiveBytes ==
    ASSUME ~SyncErrorDropsWrites
    PROVE  Spec => LiveBytesUntouched
<1> DEFINE Spared == \A o \in {live_slot} \cup LOG_START .. header.log_end - 1 :
                        file'[o] = file[o]
<1>1. TypeOK /\ RecoveryInv /\ [Next]_vars
        => [pc \notin {"closed", "init"} /\ pc' # "closed" => Spared]_vars
  <2> SUFFICES ASSUME TypeOK, RecoveryInv, [Next]_vars,
                      pc \notin {"closed", "init"}, pc' # "closed"
               PROVE  Spared
    OBVIOUS
  <2>1. IsOpen
    BY DEF IsOpen
  <2>2. CASE file' = file
    BY <2>2
  <2>3. ASSUME NEW kind, NEW payload,
               append_raw(kind, payload) \/ append_raw_error(kind, payload)
        PROVE  Spared
    <3>1. PICK k : WritePrefix(record_cells(kind, payload), k, end)
      BY <2>3 DEF append_raw, WriteRecord, append_raw_error, write_all_at, WriteFault, WriteError
    <3> QED BY <2>1, <3>1, AppendSparesLive
  <2>4. CASE CommitWriteHeader \/ CommitHeaderError
    <3> DEFINE cells == <<header_encode(NextHeader)>>
    <3>1. Len(cells) = 1
      OBVIOUS
    <3>2. PICK k \in {0, 1} : WritePrefix(cells, k, victim_slot(slots))
      BY <2>4, <3>1
      DEF CommitWriteHeader, CommitHeaderError, write_all_at, WriteFault, WriteError
    <3> QED BY <2>1, <3>2, HeaderWriteSparesLive
  <2>5. CASE \/ \E kind \in AppendKinds, d \in Doc :
                   Append_(kind, d) \/ AppendError(kind, d)
             \/ \E id \in DocId : Tombstone(id) \/ TombstoneError(id)
             \/ CommitAppendMaster \/ CommitMasterError
    BY <2>3, <2>5
    DEF Append_, AppendError, Tombstone, Bury, TombstoneError, CommitAppendMaster,
        CommitMasterError
  <2>6. CASE CommitSyncRecords \/ CommitSyncMaster \/ CommitSyncHeader \/ CommitSyncError
             \/ CommitMasterTooLarge
    BY <2>2, <2>6
    DEF CommitSyncRecords, CommitSyncMaster, CommitSyncHeader, InstallHeader, CommitSyncError,
        CommitMasterTooLarge, sync_data, SyncError, fileVars
  <2>7. CASE \/ UNCHANGED vars \/ OpenRejected \/ CommitClean
             \/ \E d \in Doc : AppendTooLarge(d)
             \/ \E id \in DocId : TombstoneMissing(id)
    BY <2>2, <2>7
    DEF OpenRejected, CommitClean, AppendTooLarge, TombstoneMissing, vars, fileVars
  <2>8. CASE \/ OpenCreate \/ OpenCreateError \/ InitializeSync \/ InitializeSyncError
             \/ OpenLoad \/ Drop \/ PowerLoss
    BY <2>8
    DEF OpenCreate, OpenCreateError, InitializeSync, InitializeSyncError, OpenLoad, LoadHandle,
        Drop, PowerLoss
  <2> QED
    BY <2>4, <2>5, <2>6, <2>7, <2>8 DEF Next, CommitNext
<1> QED
  BY <1>1, TypeCorrect, RecoveryInvariant, PTL DEF Spec, LiveBytesUntouched
=============================================================================
