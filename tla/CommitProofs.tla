---------------------------- MODULE CommitProofs ----------------------------
(***************************************************************************)
(* CommitInv is an invariant of the engine on a kernel that keeps the      *)
(* pages of a failed sync dirty, and what follows from it: a commit that   *)
(* returns Ok is durable, none is rolled back, one torn header costs at    *)
(* most the last commit, and a clean handle holds what is saved.           *)
(***************************************************************************)
EXTENDS RecoveryProofs

-----------------------------------------------------------------------------
(* Headers, on the medium and of the handle. *)

(* A master index of the recovery invariant is one of a whole log. *)
LEMMA MasterBelowWithin ==
    ASSUME FileTypeOK, NEW p, NEW e \in Int, MasterBelow(p, e)
    PROVE  MasterWithin(file, p, e)
<1>1. p >= LOG_START /\ HasMaster(file, p) /\ p + file[p].len < e
  BY DEF MasterBelow
<1>2. /\ p \in Offset /\ file[p].tag = "frame" /\ file[p].len \in Nat
  BY <1>1, MasterShape DEF FileTypeOK
<1>3. decode_frame(file[p]).len = file[p].len
  BY <1>2 DEF decode_frame
<1>4. read_record_at(file, p) # Unreadable
  BY <1>1 DEF HasMaster
<1>5. p \in LOG_START .. e - 1
  BY <1>1, <1>2, ConstantTypes DEF Offset
<1> QED
  BY <1>1, <1>3, <1>4, <1>5 DEF MasterWithin, RecordWithin

(* A supported header with a sound index is whole. *)
LEMMA SupportedIsWhole ==
    ASSUME FileTypeOK, NEW h \in Header, Supported(h),
           IndexWithin(file, load_index(file, h), h.log_end)
    PROVE  HeaderWhole(file, h)
<1>1. h.log_end \in Int
  BY ConstantTypes DEF Header
<1> QED
  BY <1>1, MasterBelowWithin DEF Supported, HeaderWhole

(* The header of an open handle describes a log that is there. *)
LEMMA LiveHeaderSupported ==
    ASSUME TypeOK, RecoveryInv, IsOpen
    PROVE  /\ header \in Header /\ Supported(header)
           /\ header.log_end \in Int
           /\ header.master_len = 0 \/ MasterWithin(file, header.master_ptr, header.log_end)
<1>1. live_slot \in Slot /\ file[live_slot] = header_encode(header) /\ header \in Header
  BY DEF TypeOK, RecoveryInv, HandleInv, HandleOpen
<1>2. header_encode(header) \in disk[live_slot]
  BY <1>1, ConstantTypes DEF RecoveryInv, FileInv, SyncedIsCached
<1>3. Supported(header)
  BY <1>1, <1>2 DEF RecoveryInv, FileInv, HeadersSupported, header_encode
<1>4. header.log_end \in Int
  BY <1>1, ConstantTypes DEF Header
<1> QED
  BY <1>1, <1>3, <1>4, MasterBelowWithin DEF Supported, TypeOK

(* A step after which the slots may hold no header they could not hold     *)
(* before, and that leaves the logs of those headers alone.                *)
LEMMA HeadersKept ==
    ASSUME FileTypeOK, FileTypeOK', FileInv, HeadersIndexed, SlotsConsecutive,
           \A s \in Slot : \A c \in disk'[s] : c.tag = "header" =>
              /\ c \in disk[s]
              /\ \A o \in LOG_START .. c.header.log_end - 1 : file'[o] = file[o]
    PROVE  HeadersIndexed' /\ SlotsConsecutive'
<1>1. ASSUME NEW s \in Slot, NEW c \in disk'[s], c.tag = "header"
      PROVE  IndexWithin(file', load_index(file', c.header), c.header.log_end)
  <2>1. /\ c \in disk[s]
        /\ \A o \in LOG_START .. c.header.log_end - 1 : file'[o] = file[o]
    BY <1>1
  <2>2. c.header \in Header
    BY <1>1, <2>1, CandidateType
  <2>3. Supported(c.header)
    BY <1>1, <2>1 DEF FileInv, HeadersSupported
  <2>4. IndexWithin(file, load_index(file, c.header), c.header.log_end)
    BY <1>1, <2>1 DEF HeadersIndexed
  <2>5. HeaderWhole(file, c.header)
    BY <2>2, <2>3, <2>4, SupportedIsWhole
  <2>6. file \in [Offset -> Cell] /\ file' \in [Offset -> Cell]
    BY DEF FileTypeOK
  <2>7. HeaderWhole(file', c.header)
    BY <2>1, <2>2, <2>5, <2>6, HeaderWholeStable
  <2> QED
    BY <2>7 DEF HeaderWhole
<1>2. HeadersIndexed'
  BY <1>1 DEF HeadersIndexed
<1>3. SlotsConsecutive'
  BY ConstantTypes DEF SlotsConsecutive
<1> QED
  BY <1>2, <1>3

(* A sync, failed or not, and a power cut bring no header to a slot and    *)
(* leave alone the log of every header that may be left in one.            *)
LEMMA MediumKeepsLogs ==
    ASSUME FileTypeOK, FileTypeOK', FileInv,
           UNCHANGED fileVars \/ sync_data \/ SyncError \/ PowerCut
    PROVE  /\ \A s \in Slot : disk'[s] \subseteq disk[s]
           /\ \A s \in Slot : \A c \in disk'[s] : c.tag = "header" =>
                 /\ c \in disk[s]
                 /\ \A o \in LOG_START .. c.header.log_end - 1 : file'[o] = file[o]
<1>1. CASE UNCHANGED fileVars \/ sync_data \/ SyncError
  <2>1. file' = file /\ \A o \in Offset : disk'[o] \subseteq disk[o]
    BY <1>1 DEF fileVars, sync_data, SyncError, FileTypeOK, FileInv, SyncedIsCached
  <2>2. \A s \in Slot : disk'[s] \subseteq disk[s]
    BY <2>1, ConstantTypes
  <2> QED
    BY <2>1, <2>2
<1>2. CASE PowerCut
  <2>1. PICK img \in Images(disk) :
          file' = img /\ disk' = [o \in Offset |-> {img[o]}]
    BY <1>2 DEF PowerCut
  <2>2. \A o \in Offset : img[o] \in disk[o]
    BY <2>1, ImageShape DEF IsImage
  <2>3. \A s \in Slot : disk'[s] \subseteq disk[s]
    BY <2>1, <2>2, ConstantTypes
  <2>4. ASSUME NEW s \in Slot, NEW c \in disk[s], c.tag = "header",
               NEW o \in LOG_START .. c.header.log_end - 1
        PROVE  file'[o] = file[o]
    <3>1. c.header.log_end \in LOG_START .. FileCap
      BY <2>4, CandidateType
    <3>2. o \in Offset /\ o \notin unsynced
      BY <2>4, <3>1, ConstantTypes DEF FileInv, HeadersSupported, Supported, Offset
    <3>3. disk[o] = {file[o]}
      BY <3>2 DEF FileInv, SyncedIsCached
    <3> QED
      BY <2>1, <2>2, <3>2, <3>3
  <2> QED
    BY <2>3, <2>4
<1> QED
  BY <1>1, <1>2

LEMMA MediumKeepsHeaders ==
    ASSUME FileTypeOK, FileTypeOK', FileInv, HeadersIndexed, SlotsConsecutive,
           UNCHANGED fileVars \/ sync_data \/ SyncError \/ PowerCut
    PROVE  HeadersIndexed' /\ SlotsConsecutive'
  BY MediumKeepsLogs, HeadersKept

(* An append leaves to the slots and to every log what they held. *)
LEMMA AppendKeepsLogs ==
    ASSUME TypeOK, FileTypeOK', RecoveryInv, IsOpen,
           NEW cells \in Seq(Cell), NEW k \in 0 .. Len(cells), WritePrefix(cells, k, end)
    PROVE  /\ \A s \in Slot : disk'[s] = disk[s]
           /\ \A s \in Slot : \A c \in disk'[s] : c.tag = "header" =>
                 /\ c \in disk[s]
                 /\ \A o \in LOG_START .. c.header.log_end - 1 : file'[o] = file[o]
           /\ file'[LOG_START - 1] = file[LOG_START - 1]
           /\ \A o \in LOG_START .. end - 1 : file'[o] = file[o]
           /\ \A o \in Offset : o \in end .. end + k - 1 => file'[o] = cells[o - end + 1]
<1>1. FileTypeOK /\ FileInv /\ HeadersWithin(end) /\ end \in LOG_START .. FileCap
  BY DEF TypeOK, RecoveryInv, HandleInv, HandleOpen
<1>2. /\ \A s \in Slot : disk'[s] = disk[s] /\ file'[s] = file[s]
      /\ \A o \in LOG_START .. end - 1 : file'[o] = file[o]
      /\ \A o \in Offset : o \in end .. end + k - 1 => file'[o] = cells[o - end + 1]
  BY <1>1, AppendKeepsFile
<1>3. ASSUME NEW s \in Slot, NEW c \in disk[s], c.tag = "header",
             NEW o \in LOG_START .. c.header.log_end - 1
      PROVE  file'[o] = file[o]
  <2>1. c.header.log_end <= end /\ c.header.log_end \in LOG_START .. FileCap
    BY <1>1, <1>3, CandidateType DEF HeadersWithin
  <2>2. o \in LOG_START .. end - 1
    BY <1>1, <2>1, ConstantTypes
  <2> QED
    BY <1>2, <2>2
<1> QED
  BY <1>2, <1>3, ConstantTypes

LEMMA AppendKeepsHeaders ==
    ASSUME TypeOK, FileTypeOK', RecoveryInv, IsOpen, HeadersIndexed, SlotsConsecutive,
           NEW cells \in Seq(Cell), NEW k \in 0 .. Len(cells), WritePrefix(cells, k, end)
    PROVE  /\ HeadersIndexed' /\ SlotsConsecutive'
           /\ file'[LOG_START - 1] = file[LOG_START - 1]
           /\ \A o \in LOG_START .. end - 1 : file'[o] = file[o]
           /\ \A o \in Offset : o \in end .. end + k - 1 => file'[o] = cells[o - end + 1]
<1>1. FileTypeOK /\ FileInv
  BY DEF TypeOK, RecoveryInv
<1> QED
  BY <1>1, AppendKeepsLogs, HeadersKept

-----------------------------------------------------------------------------
(* The inductive step. *)

(* A handle that is not open has no part in the invariant. *)
LEMMA ClosedKeepsCommit ==
    ASSUME HeadersIndexed', SlotsConsecutive', ~IsOpen', index' = DefaultIndex, ~dirty'
    PROVE  CommitInv'
<1>1. pc' \in {"closed", "init"}
  BY DEF IsOpen
<1> QED
  BY <1>1 DEF CommitInv, CommitIsDirty, RegionInFile, HandleIndexed, DirtyMeansUnsaved,
              MasterHoldsIndex, CommitSteps, IsOpen

(* A handle whose fields, and whose log, a step leaves as they were. *)
LEMMA HandleKept ==
    ASSUME TypeOK, FileTypeOK', RecoveryInv, CommitInv, IsOpen, IsOpen',
           UNCHANGED <<header, index, end, dirty>>,
           file'[LOG_START - 1] = file[LOG_START - 1],
           \A o \in LOG_START .. end - 1 : file'[o] = file[o]
    PROVE  RegionInFile' /\ HandleIndexed' /\ DirtyMeansUnsaved'
<1>1. /\ file \in [Offset -> Cell] /\ file' \in [Offset -> Cell]
      /\ end \in LOG_START .. FileCap /\ end \in Int
  BY ConstantTypes DEF TypeOK, FileTypeOK
<1>2. RegionInFile'
  BY DEF RegionInFile, CommitInv
<1>3. HandleIndexed'
  <2>1. IndexWithin(file, index, end)
    BY DEF CommitInv, HandleIndexed
  <2>2. IndexWithin(file', index, end)
    BY <1>1, <2>1, IndexStable
  <2> QED
    BY <2>2 DEF HandleIndexed
<1>4. load_index(file', header) = load_index(file, header)
  <2>1. /\ header.log_end \in LOG_START .. end /\ header.log_end \in Int
        /\ header.master_len = 0 \/ MasterWithin(file, header.master_ptr, header.log_end)
    BY LiveHeaderSupported, LiveBelowEnd
  <2>2. \A o \in LOG_START .. header.log_end - 1 : file'[o] = file[o]
    BY <1>1, <2>1, ConstantTypes
  <2> QED
    BY <1>1, <2>1, <2>2, LoadIndexStable
<1>5. DirtyMeansUnsaved'
  BY <1>4 DEF DirtyMeansUnsaved, CommitInv
<1> QED
  BY <1>2, <1>3, <1>5

(* Laying down the header region preserves the invariant. *)
LEMMA CreateCommitStep ==
    ASSUME TypeOK, TypeOK', RecoveryInv, CommitInv, OpenCreate \/ OpenCreateError
    PROVE  CommitInv'
<1>1. /\ FileTypeOK /\ FileTypeOK' /\ FileInv /\ pc = "closed" /\ file[0] = Eof
      /\ pc' \in {"init", "closed"} /\ UNCHANGED handleVars
  BY DEF TypeOK, RecoveryInv, OpenCreate, OpenCreateError
<1>2. HeaderRegion \in Seq(Cell) /\ Len(HeaderRegion) = 2
  BY HeaderRegionType
<1>3. PICK k \in 0 .. 2 : WritePrefix(HeaderRegion, k, 0)
  <2>1. CASE OpenCreate
    BY <1>2, <2>1 DEF OpenCreate, write_all_at
  <2>2. CASE OpenCreateError
    BY <1>2, <2>2 DEF OpenCreateError, WriteFault, WriteError
  <2> QED BY <2>1, <2>2
<1>4. \A s \in Slot : \A c \in disk'[s] :
        c.tag = "header" => s = 0 /\ c.header = InitialHeader
  BY <1>1, <1>3, CreateKeepsFile
<1>5. HeadersIndexed'
  <2>1. load_index(file', InitialHeader) = DefaultIndex
    BY DEF load_index, InitialHeader
  <2>2. IndexWithin(file', DefaultIndex, InitialHeader.log_end)
    BY DefaultIndexWithin
  <2> QED
    BY <1>4, <2>1, <2>2 DEF HeadersIndexed
<1>6. SlotsConsecutive'
  BY <1>4, ConstantTypes DEF SlotsConsecutive
<1>7. index' = DefaultIndex /\ ~dirty'
  BY <1>1 DEF CommitInv, HandleIndexed, IsOpen, handleVars
<1> QED
  BY <1>1, <1>5, <1>6, <1>7, ClosedKeepsCommit DEF IsOpen

(* The sync of initialize and its error preserve the invariant. *)
LEMMA InitializeCommitStep ==
    ASSUME TypeOK, TypeOK', RecoveryInv, CommitInv, InitializeSync \/ InitializeSyncError
    PROVE  CommitInv'
<1>1. /\ FileTypeOK /\ FileTypeOK' /\ FileInv /\ pc = "init"
      /\ sync_data \/ SyncError
      /\ UNCHANGED <<header, index, end, dirty>>
  BY DEF TypeOK, RecoveryInv, InitializeSync, InitializeSyncError, handleVars
<1>2. HeadersIndexed' /\ SlotsConsecutive' /\ file' = file
  BY <1>1, MediumKeepsHeaders DEF CommitInv, sync_data, SyncError
<1>3. index' = DefaultIndex /\ ~dirty'
  BY <1>1 DEF CommitInv, HandleIndexed, IsOpen
<1>4. CASE InitializeSyncError
  BY <1>2, <1>3, <1>4, ClosedKeepsCommit DEF InitializeSyncError, IsOpen
<1>5. CASE InitializeSync
  <2>1. pc' = "idle" /\ header' = InitialHeader /\ end' = LOG_START /\ file'[1] = Zero
    BY <1>1, <1>2, <1>5
    DEF InitializeSync, RecoveryInv, HandleInv, HandleUnused, HandleCreating, IsOpen
  <2>2. RegionInFile'
    BY <2>1, ConstantTypes DEF RegionInFile, Zero, Eof
  <2>3. HandleIndexed'
    BY <1>3, <2>1, DefaultIndexWithin DEF HandleIndexed, IsOpen
  <2>4. DirtyMeansUnsaved'
    BY <1>3, <2>1 DEF DirtyMeansUnsaved, InitialHeader, load_index
  <2> QED
    BY <1>2, <2>1, <2>2, <2>3, <2>4
    DEF CommitInv, CommitIsDirty, MasterHoldsIndex, CommitSteps
<1> QED
  BY <1>4, <1>5

(* load preserves the invariant: it takes the index its header leads to. *)
LEMMA LoadCommitStep ==
    ASSUME TypeOK, TypeOK', RecoveryInv, CommitInv, OpenLoad
    PROVE  CommitInv'
<1> DEFINE h == LiveHeader(file)
           s == select_live(decode_slots(file))
<1>1. /\ FileTypeOK /\ FileTypeOK' /\ FileInv /\ file \in [Offset -> Cell]
      /\ Loadable(file) /\ UNCHANGED fileVars /\ file' = file
      /\ pc' = "idle" /\ header' = h /\ index' = load_index(file, h) /\ ~dirty'
      /\ end' = h.log_end
  BY DEF TypeOK, FileTypeOK, RecoveryInv, OpenLoad, LoadHandle, fileVars
<1>2. HeadersIndexed' /\ SlotsConsecutive'
  BY <1>1, MediumKeepsHeaders DEF CommitInv
<1>3. RegionInFile'
  BY <1>1 DEF RegionInFile, Loadable
<1>4. HandleIndexed'
  <2>1. /\ s \in Slot /\ file[s].tag = "header" /\ file[s].header = h
    BY <1>1, LiveCell DEF Loadable
  <2>2. file[s] \in disk[s]
    BY <1>1, <2>1, ConstantTypes DEF FileInv, SyncedIsCached
  <2>3. IndexWithin(file, load_index(file, h), h.log_end)
    BY <2>1, <2>2 DEF CommitInv, HeadersIndexed
  <2> QED
    BY <1>1, <2>3 DEF HandleIndexed, IsOpen
<1>5. DirtyMeansUnsaved'
  BY <1>1 DEF DirtyMeansUnsaved
<1> QED
  BY <1>1, <1>2, <1>3, <1>4, <1>5
  DEF CommitInv, CommitIsDirty, MasterHoldsIndex, CommitSteps

(* What an append that succeeds does, but for the index. *)
LEMMA AppendedRecord ==
    ASSUME TypeOK, FileTypeOK', RecoveryInv, CommitInv, IsOpen, IsOpen',
           NEW kind \in RecordKind, NEW payload \in Seq(Word),
           append_raw(kind, payload), UNCHANGED header
    PROVE  /\ HeadersIndexed' /\ SlotsConsecutive' /\ RegionInFile'
           /\ dirty' /\ end' = end + 1 + Len(payload)
           /\ end \in Nat /\ end' \in Nat /\ LOG_START <= end
           /\ end' <= FileCap /\ Len(payload) <= MaxRecordLen
           /\ end' # header'.log_end
           /\ file \in [Offset -> Cell] /\ file' \in [Offset -> Cell]
           /\ \A o \in LOG_START .. end - 1 : file'[o] = file[o]
           /\ \A o \in end .. end + Len(payload) :
                 file'[o] = record_cells(kind, payload)[o - end + 1]
           /\ RecordWithin(file', end, end')
<1> DEFINE cells == record_cells(kind, payload)
           k == Len(cells)
<1>1. cells \in Seq(Cell) /\ k = 1 + Len(payload) /\ k \in Nat
  BY RecordCellsType
<1>2. /\ WritePrefix(cells, k, end) /\ k \in 0 .. Len(cells)
      /\ end' = end + k /\ end + k <= FileCap /\ dirty' = TRUE
      /\ Len(payload) <= MaxRecordLen
  BY <1>1, ConstantTypes DEF append_raw, WriteRecord, write_all_at, Fits, TypeOK
<1>3. /\ HeadersIndexed' /\ SlotsConsecutive'
      /\ file'[LOG_START - 1] = file[LOG_START - 1]
      /\ \A o \in LOG_START .. end - 1 : file'[o] = file[o]
      /\ \A o \in Offset : o \in end .. end + k - 1 => file'[o] = cells[o - end + 1]
  BY <1>1, <1>2, AppendKeepsHeaders DEF CommitInv
<1>4. /\ end \in Nat /\ LOG_START <= end /\ end <= FileCap
      /\ end' = end + 1 + Len(payload) /\ Len(payload) \in Nat /\ end' \in Nat
  BY <1>1, <1>2, ConstantTypes DEF TypeOK
<1>5. end' # header'.log_end
  <2>1. header.log_end \in LOG_START .. end
    BY LiveBelowEnd
  <2> QED
    BY <1>4, <2>1, ConstantTypes
<1>6. file \in [Offset -> Cell] /\ file' \in [Offset -> Cell]
  BY DEF TypeOK, FileTypeOK
<1>7. \A o \in end .. end + Len(payload) : file'[o] = cells[o - end + 1]
  <2>1. \A o \in end .. end + Len(payload) : o \in Offset /\ o \in end .. end + k - 1
    <3> HIDE DEF k, cells
    <3> QED
      BY <1>1, <1>2, <1>4, ConstantTypes DEF Offset
  <2> QED
    BY <1>3, <2>1
<1>8. RecordWithin(file', end, end')
  <2>1. end + 1 + Len(payload) <= FileCap
    BY <1>1, <1>2, <1>4
  <2>2. RecordWithin(file', end, end + 1 + Len(payload))
    BY <1>2, <1>4, <1>6, <1>7, <2>1, RecordWritten
  <2> QED
    BY <1>4, <2>2
<1>9. RegionInFile'
  BY <1>3 DEF RegionInFile, CommitInv
<1> QED
  BY <1>1, <1>2, <1>3, <1>4, <1>5, <1>6, <1>7, <1>8, <1>9

(* append and tombstone preserve the invariant. *)
LEMMA AppendCommitStep ==
    ASSUME TypeOK, TypeOK', RecoveryInv, CommitInv,
           \/ \E kind \in AppendKinds, d \in Doc : Append_(kind, d)
           \/ \E id \in DocId : Tombstone(id)
    PROVE  CommitInv'
<1>1. FileTypeOK' /\ pc = "idle" /\ pc' = "idle" /\ UNCHANGED header
  BY DEF TypeOK, Append_, Tombstone, Bury
<1>2. IsOpen /\ IsOpen' /\ index \in MasterIndex /\ IndexWithin(file, index, end)
  BY <1>1, OpenStates DEF TypeOK, CommitInv, HandleIndexed
<1>3. CASE \E kind \in AppendKinds, d \in Doc : Append_(kind, d)
  <2>1. PICK kind \in AppendKinds, d \in Doc : Append_(kind, d)
    BY <1>3
  <2>2. /\ kind \in RecordKind /\ doc_payload(d) \in Seq(Word)
        /\ append_raw(kind, doc_payload(d))
        /\ index.next_doc_id <= MaxDocId /\ index' = InsertNew(index, end)
    BY <2>1, PayloadTypes, EngineAssumption DEF Append_
  <2>3. /\ HeadersIndexed' /\ SlotsConsecutive' /\ RegionInFile'
        /\ dirty' /\ end' # header'.log_end
        /\ end' = end + 1 + Len(doc_payload(d))
        /\ end \in Nat /\ end' \in Nat
        /\ file \in [Offset -> Cell] /\ file' \in [Offset -> Cell]
        /\ \A o \in LOG_START .. end - 1 : file'[o] = file[o]
        /\ RecordWithin(file', end, end')
    BY <1>1, <1>2, <2>2, AppendedRecord
  <2>4. IndexWithin(file', index, end)
    BY <1>2, <2>3, IndexStable
  <2>5. Len(doc_payload(d)) \in Nat
    BY <2>2
  <2>6. IndexWithin(file', index', end')
    BY <1>2, <2>2, <2>3, <2>4, <2>5, InsertNewWithin
  <2> QED
    BY <1>1, <1>2, <2>3, <2>6
    DEF CommitInv, CommitIsDirty, HandleIndexed, DirtyMeansUnsaved, MasterHoldsIndex,
        CommitSteps
<1>4. CASE \E id \in DocId : Tombstone(id)
  <2>1. PICK id \in DocId : Tombstone(id)
    BY <1>4
  <2>2. /\ "Tombstone" \in RecordKind /\ tombstone_payload(id) \in Seq(Word)
        /\ append_raw("Tombstone", tombstone_payload(id))
        /\ id \in Known(index) /\ index' = [index EXCEPT !.dead = @ \cup {id}]
    BY <2>1, PayloadTypes DEF RecordKind, Tombstone, Bury, live_ids
  <2>3. /\ HeadersIndexed' /\ SlotsConsecutive' /\ RegionInFile'
        /\ dirty' /\ end' # header'.log_end
        /\ end' = end + 1 + Len(tombstone_payload(id))
        /\ end \in Nat /\ end' \in Nat
        /\ file \in [Offset -> Cell] /\ file' \in [Offset -> Cell]
        /\ \A o \in LOG_START .. end - 1 : file'[o] = file[o]
    BY <1>1, <1>2, <2>2, AppendedRecord
  <2>4. IndexWithin(file', index, end)
    BY <1>2, <2>3, IndexStable
  <2>5. end <= end' /\ end \in Int /\ end' \in Int
    BY <2>2, <2>3
  <2>6. IndexWithin(file', index, end')
    BY <2>3, <2>4, <2>5, IndexWithinLonger
  <2>7. IndexWithin(file', index', end')
    BY <1>2, <2>2, <2>6, BuryWithin
  <2> QED
    BY <1>1, <1>2, <2>3, <2>7
    DEF CommitInv, CommitIsDirty, HandleIndexed, DirtyMeansUnsaved, MasterHoldsIndex,
        CommitSteps
<1> QED
  BY <1>3, <1>4

(* An append that fails preserves the invariant, in commit too. *)
LEMMA AppendErrorCommitStep ==
    ASSUME TypeOK, TypeOK', RecoveryInv, CommitInv,
           \/ \E kind \in AppendKinds, d \in Doc : AppendError(kind, d)
           \/ \E id \in DocId : TombstoneError(id)
           \/ CommitMasterError
    PROVE  CommitInv'
<1>1. /\ FileTypeOK' /\ pc \in {"idle", "append_master"} /\ pc' = "idle"
      /\ UNCHANGED <<header, index, end, dirty>> /\ index \in MasterIndex
  BY DEF TypeOK, AppendError, TombstoneError, CommitMasterError, append_raw_error
<1>2. IsOpen /\ IsOpen'
  BY <1>1, OpenStates
<1>3. PICK kind \in RecordKind, payload \in Seq(Word) : append_raw_error(kind, payload)
  <2>1. /\ "Tombstone" \in RecordKind /\ "MasterIndex" \in RecordKind
        /\ AppendKinds \subseteq RecordKind
    BY EngineAssumption DEF RecordKind
  <2> QED
    BY <1>1, <2>1, PayloadTypes DEF AppendError, TombstoneError, CommitMasterError
<1> DEFINE cells == record_cells(kind, payload)
<1>4. cells \in Seq(Cell)
  BY RecordCellsType
<1>5. PICK k \in 0 .. Len(cells) - 1 : WritePrefix(cells, k, end)
  BY <1>3 DEF append_raw_error, WriteFault, WriteError
<1>6. k \in 0 .. Len(cells)
  BY <1>4
<1>7. /\ HeadersIndexed' /\ SlotsConsecutive'
      /\ file'[LOG_START - 1] = file[LOG_START - 1]
      /\ \A o \in LOG_START .. end - 1 : file'[o] = file[o]
  BY <1>1, <1>2, <1>4, <1>5, <1>6, AppendKeepsHeaders DEF CommitInv
<1>8. RegionInFile' /\ HandleIndexed' /\ DirtyMeansUnsaved'
  BY <1>1, <1>2, <1>7, HandleKept
<1> QED
  BY <1>1, <1>7, <1>8 DEF CommitInv, CommitIsDirty, MasterHoldsIndex, CommitSteps

(* Writing the master index, or finding it too large, preserves the        *)
(* invariant.                                                              *)
LEMMA MasterCommitStep ==
    ASSUME TypeOK, TypeOK', RecoveryInv, CommitInv,
           CommitAppendMaster \/ CommitMasterTooLarge
    PROVE  CommitInv'
<1>1. /\ FileTypeOK /\ FileTypeOK' /\ FileInv /\ pc = "append_master"
      /\ index \in MasterIndex
  BY DEF TypeOK, RecoveryInv, CommitAppendMaster, CommitMasterTooLarge
<1>2. IsOpen
  BY <1>1, OpenStates
<1>3. CASE CommitAppendMaster
  <2> DEFINE payload == index_encode(index)
  <2>1. /\ "MasterIndex" \in RecordKind /\ payload \in Seq(Word)
        /\ Len(payload) = EncodedLen(index)
        /\ append_raw("MasterIndex", payload)
        /\ pc' = "sync_master" /\ master_ptr' = end /\ UNCHANGED <<header, index>>
    BY <1>1, <1>3, PayloadTypes, IndexEncoded DEF RecordKind, CommitAppendMaster
  <2> HIDE DEF payload
  <2>2. IsOpen'
    BY <2>1, OpenStates
  <2>3. /\ HeadersIndexed' /\ SlotsConsecutive' /\ RegionInFile'
        /\ dirty' /\ end' = end + 1 + Len(payload) /\ end' # header'.log_end
        /\ end \in Nat /\ end' \in Nat /\ LOG_START <= end
        /\ end' <= FileCap /\ Len(payload) <= MaxRecordLen
        /\ file \in [Offset -> Cell] /\ file' \in [Offset -> Cell]
        /\ \A o \in LOG_START .. end - 1 : file'[o] = file[o]
        /\ \A o \in end .. end + Len(payload) :
              file'[o] = record_cells("MasterIndex", payload)[o - end + 1]
    BY <1>1, <1>2, <2>1, <2>2, AppendedRecord
  <2>4. IndexWithin(file', index, end)
    BY <1>2, <2>3, IndexStable DEF CommitInv, HandleIndexed
  <2>5. end <= end' /\ end \in Int /\ end' \in Int
    BY <2>1, <2>3
  <2>6. HandleIndexed'
    BY <2>1, <2>2, <2>3, <2>4, <2>5, IndexWithinLonger DEF HandleIndexed
  <2>7. read_record_at(file', end).payload = index_encode(index)
    <3>1. /\ EncodedLen(index) <= MaxRecordLen
          /\ end + 1 + EncodedLen(index) <= FileCap
          /\ \A i \in end .. end + EncodedLen(index) :
                file'[i] = record_cells("MasterIndex", index_encode(index))[i - end + 1]
      BY <2>1, <2>3 DEF payload
    <3> QED
      BY <1>1, <2>3, <3>1, IndexWritten
  <2>8. MasterHoldsIndex'
    BY <2>1, <2>7 DEF MasterHoldsIndex
  <2> QED
    BY <2>1, <2>3, <2>6, <2>8 DEF CommitInv, CommitIsDirty, DirtyMeansUnsaved
<1>4. CASE CommitMasterTooLarge
  <2>1. pc' = "idle" /\ UNCHANGED fileVars /\ UNCHANGED <<header, index, end, dirty>>
    BY <1>4 DEF CommitMasterTooLarge, handleVars
  <2>2. HeadersIndexed' /\ SlotsConsecutive'
    BY <1>1, <2>1, MediumKeepsHeaders DEF CommitInv
  <2>3. RegionInFile' /\ HandleIndexed' /\ DirtyMeansUnsaved'
    BY <1>1, <1>2, <2>1, OpenStates, HandleKept DEF fileVars
  <2> QED
    BY <2>1, <2>2, <2>3 DEF CommitInv, CommitIsDirty, MasterHoldsIndex, CommitSteps
<1> QED
  BY <1>3, <1>4

(* commit's syncs before the header, and a failed one, preserve the        *)
(* invariant.                                                              *)
LEMMA SyncCommitStep ==
    ASSUME TypeOK, TypeOK', RecoveryInv, CommitInv,
           CommitSyncRecords \/ CommitSyncMaster \/ CommitSyncError
    PROVE  CommitInv'
<1>1. /\ FileTypeOK /\ FileTypeOK' /\ FileInv
      /\ sync_data \/ SyncError
      /\ pc \in {"idle", "sync_master", "sync_header"}
      /\ \/ pc' = "append_master" /\ dirty
         \/ pc' = "write_header" /\ pc = "sync_master" /\ master_ptr' = master_ptr
         \/ pc' = "idle"
      /\ UNCHANGED <<header, index, end, dirty>>
  BY DEF TypeOK, RecoveryInv, CommitSyncRecords, CommitSyncMaster, CommitSyncError,
         handleVars, CommitReturns
<1>2. IsOpen /\ IsOpen'
  BY <1>1, OpenStates
<1>3. HeadersIndexed' /\ SlotsConsecutive' /\ file' = file
  BY <1>1, MediumKeepsHeaders DEF CommitInv, sync_data, SyncError
<1>4. RegionInFile' /\ HandleIndexed' /\ DirtyMeansUnsaved'
  BY <1>1, <1>2, <1>3, HandleKept
<1>5. CommitIsDirty'
  BY <1>1 DEF CommitInv, CommitIsDirty, CommitSteps
<1>6. MasterHoldsIndex'
  BY <1>1, <1>3 DEF CommitInv, MasterHoldsIndex
<1> QED
  BY <1>3, <1>4, <1>5, <1>6 DEF CommitInv

(* Writing the header, or failing to, preserves the invariant. *)
LEMMA WriteHeaderCommitStep ==
    ASSUME TypeOK, TypeOK', RecoveryInv, CommitInv, CommitWriteHeader \/ CommitHeaderError
    PROVE  CommitInv'
<1> DEFINE v == victim_slot(slots)
           N == header_encode(NextHeader)
<1>1. /\ FileTypeOK /\ FileTypeOK' /\ FileInv /\ pc = "write_header"
      /\ header \in Header /\ index \in MasterIndex /\ end \in LOG_START .. FileCap
      /\ UNCHANGED <<header, index, end, dirty>>
      /\ pc' \in {"sync_header", "idle"}
  BY DEF TypeOK, RecoveryInv, CommitWriteHeader, CommitHeaderError, CommitReturns, handleVars
<1>2. /\ IsOpen /\ IsOpen' /\ v \in Slot /\ v # live_slot /\ live_slot \in Slot
      /\ \A s \in Slot : s = v \/ s = live_slot
  BY <1>1, OpenStates, VictimIsNotLive, ConstantTypes DEF TypeOK
<1>3. CASE CommitWriteHeader
  <2>1. /\ write_all_at(<<N>>, v) /\ pc' = "sync_header" /\ UNCHANGED handleVars
    BY <1>3 DEF CommitWriteHeader
  <2>2. /\ file'[v] = N
        /\ \A o \in Offset \ {v} : file'[o] = file[o] /\ disk'[o] = disk[o]
        /\ \A c \in disk'[v] : c.tag = "header" => c \in disk[v] \/ c = N
        /\ \A o \in Offset : disk[o] = {file[o]}
    BY <1>1, <2>1, HeaderWriteKeepsFile
  <2>3. /\ N.tag = "header" /\ N.header = NextHeader /\ NextHeader \in Header
        /\ NextHeader.generation = header.generation + 1
        /\ NextHeader.log_end = end /\ NextHeader.master_ptr = master_ptr
        /\ NextHeader.master_len = EncodedLen(index)
    BY NextHeaderType DEF header_encode, NextHeader
  <2>4. /\ file \in [Offset -> Cell] /\ file' \in [Offset -> Cell] /\ end \in Int
    BY <1>1, ConstantTypes DEF FileTypeOK
  <2>5. \A e \in LOG_START .. FileCap : \A o \in LOG_START .. e - 1 : file'[o] = file[o]
    BY <1>2, <2>2, ConstantTypes DEF Offset
  <2>6. /\ IndexWithin(file, index, end) /\ MasterWithin(file, master_ptr, end)
        /\ read_record_at(file, master_ptr).payload = index_encode(index)
    BY <1>1, <1>2, <2>4, MasterBelowWithin
    DEF CommitInv, HandleIndexed, MasterHoldsIndex, RecoveryInv, HandleInv, HandleCommitting
  <2>7. /\ IndexWithin(file', index, end)
        /\ read_record_at(file', master_ptr).payload = index_encode(index)
    BY <1>1, <2>4, <2>5, <2>6, IndexStable, MasterStable
  <2>8. load_index(file', NextHeader) = index
    <3>1. EncodedLen(index) # 0
      BY <1>1, EncodedLenType
    <3> QED
      BY <1>1, <2>3, <2>7, <3>1, LoadIndexEncoded
  <2>9. HeadersIndexed'
    <3> SUFFICES ASSUME NEW s \in Slot, NEW c \in disk'[s], c.tag = "header"
                 PROVE  IndexWithin(file', load_index(file', c.header), c.header.log_end)
      BY DEF HeadersIndexed
    <3>1. CASE c = N
      BY <2>3, <2>7, <2>8, <3>1
    <3>2. CASE c \in disk[s]
      <4>1. c.header \in Header /\ c.header.log_end \in LOG_START .. FileCap
        BY <1>1, <3>2, CandidateType
      <4>2. HeaderWhole(file, c.header)
        BY <1>1, <3>2, <4>1, SupportedIsWhole
        DEF FileInv, HeadersSupported, CommitInv, HeadersIndexed
      <4>3. HeaderWhole(file', c.header)
        BY <2>4, <2>5, <4>1, <4>2, HeaderWholeStable
      <4> QED
        BY <4>3 DEF HeaderWhole
    <3> QED
      BY <1>2, <2>2, <3>1, <3>2, ConstantTypes
  <2>10. SlotsConsecutive'
    <3>1. disk'[live_slot] = {header_encode(header)} /\ disk[live_slot] = {header_encode(header)}
      BY <1>2, <2>2, ConstantTypes DEF RecoveryInv, HandleInv, HandleOpen
    <3>2. header_encode(header).tag = "header" /\ header_encode(header).header = header
      BY DEF header_encode
    <3>3. \A c \in disk'[v] : c.tag = "header" =>
            \/ c.header.generation = header.generation + 1
            \/ header.generation = c.header.generation + 1
      <4> SUFFICES ASSUME NEW c \in disk'[v], c.tag = "header"
                   PROVE  \/ c.header.generation = header.generation + 1
                          \/ header.generation = c.header.generation + 1
        OBVIOUS
      <4>1. CASE c = N
        BY <2>3, <4>1
      <4>2. CASE c \in disk[v]
        BY <1>2, <3>1, <3>2, <4>2, ConstantTypes DEF CommitInv, SlotsConsecutive
      <4> QED BY <2>2, <4>1, <4>2
    <3> QED
      BY <1>2, <3>1, <3>2, <3>3, ConstantTypes DEF SlotsConsecutive
  <2>11. file'[LOG_START - 1] = file[LOG_START - 1] \/ file'[LOG_START - 1] = N
    BY <1>2, <2>2, ConstantTypes
  <2>12. RegionInFile'
    BY <1>2, <2>3, <2>11 DEF RegionInFile, CommitInv, Eof
  <2>13. HandleIndexed'
    BY <1>1, <1>2, <2>7 DEF HandleIndexed
  <2>14. dirty
    BY <1>1 DEF CommitInv, CommitIsDirty, CommitSteps
  <2>15. DirtyMeansUnsaved' /\ CommitIsDirty'
    BY <1>1, <1>2, <2>14 DEF DirtyMeansUnsaved, CommitIsDirty, CommitInv
  <2>16. MasterHoldsIndex'
    BY <2>1, <2>7 DEF MasterHoldsIndex, handleVars
  <2> QED
    BY <2>9, <2>10, <2>12, <2>13, <2>15, <2>16 DEF CommitInv
<1>4. CASE CommitHeaderError
  <2>1. WriteError(<<N>>, v) /\ pc' = "idle"
    BY <1>4 DEF CommitHeaderError, WriteFault, CommitReturns
  <2>2. WritePrefix(<<N>>, 0, v)
    BY <2>1 DEF WriteError
  <2>3. v .. v + 0 - 1 = {}
    BY <1>2, ConstantTypes
  <2>4. UNCHANGED fileVars
    BY <1>1, <2>2, <2>3 DEF WritePrefix, fileVars, FileTypeOK
  <2>5. HeadersIndexed' /\ SlotsConsecutive'
    BY <1>1, <2>4, MediumKeepsHeaders DEF CommitInv
  <2>6. RegionInFile' /\ HandleIndexed' /\ DirtyMeansUnsaved'
    BY <1>1, <1>2, <2>4, HandleKept DEF fileVars
  <2> QED
    BY <2>1, <2>5, <2>6 DEF CommitInv, CommitIsDirty, MasterHoldsIndex, CommitSteps
<1> QED
  BY <1>3, <1>4

(* commit's last step preserves the invariant: the header it installs      *)
(* leads to the index of the handle.                                       *)
LEMMA SyncHeaderCommitStep ==
    ASSUME TypeOK, TypeOK', RecoveryInv, CommitInv, CommitSyncHeader
    PROVE  CommitInv'
<1>1. /\ FileTypeOK /\ FileTypeOK' /\ FileInv /\ pc = "sync_header" /\ sync_data
      /\ pc' = "idle" /\ header' = NextHeader /\ ~dirty' /\ UNCHANGED <<index, end>>
      /\ file' = file /\ index \in MasterIndex
  BY DEF TypeOK, RecoveryInv, CommitSyncHeader, InstallHeader, CommitReturns, sync_data
<1>2. IsOpen /\ IsOpen'
  BY <1>1, OpenStates
<1>3. HeadersIndexed' /\ SlotsConsecutive'
  BY <1>1, MediumKeepsHeaders DEF CommitInv
<1>4. load_index(file, NextHeader) = index
  <2>1. NextHeader.master_ptr = master_ptr /\ NextHeader.master_len = EncodedLen(index)
    BY DEF NextHeader
  <2>2. EncodedLen(index) # 0
    BY <1>1, EncodedLenType
  <2>3. read_record_at(file, master_ptr).payload = index_encode(index)
    BY <1>1 DEF CommitInv, MasterHoldsIndex
  <2> QED
    BY <1>1, <2>1, <2>2, <2>3, LoadIndexEncoded
<1>5. DirtyMeansUnsaved'
  <2>1. header'.log_end = end' /\ load_index(file', header') = index'
    BY <1>1, <1>4 DEF NextHeader
  <2> QED
    BY <1>1, <2>1 DEF DirtyMeansUnsaved
<1>6. RegionInFile' /\ HandleIndexed'
  BY <1>1, <1>2 DEF RegionInFile, HandleIndexed, CommitInv
<1> QED
  BY <1>1, <1>3, <1>5, <1>6 DEF CommitInv, CommitIsDirty, MasterHoldsIndex, CommitSteps

(* Losing the handle or the power preserves the invariant. *)
LEMMA LossCommitStep ==
    ASSUME TypeOK, TypeOK', RecoveryInv, CommitInv, Drop \/ PowerLoss
    PROVE  CommitInv'
<1>1. /\ FileTypeOK /\ FileTypeOK' /\ FileInv
      /\ UNCHANGED fileVars \/ PowerCut
      /\ pc' = "closed" /\ index' = DefaultIndex /\ ~dirty'
  BY DEF TypeOK, RecoveryInv, Drop, PowerLoss, NoHandle
<1>2. HeadersIndexed /\ SlotsConsecutive
  BY DEF CommitInv
<1>3. HeadersIndexed' /\ SlotsConsecutive'
  <2>1. CASE UNCHANGED fileVars
    BY <1>1, <1>2, <2>1, MediumKeepsHeaders
  <2>2. CASE PowerCut
    BY <1>1, <1>2, <2>2, MediumKeepsHeaders
  <2> QED
    BY <1>1, <2>1, <2>2
<1> QED
  BY <1>1, <1>3, ClosedKeepsCommit DEF IsOpen

-----------------------------------------------------------------------------
(* The theorems. *)

(* The invariant holds initially. *)
LEMMA InitCommitted ==
    ASSUME Init
    PROVE  CommitInv
<1>1. \A o \in Offset : disk[o] = {Eof}
  BY DEF Init, FileInit
<1>2. \A s \in Slot : \A c \in disk[s] : c.tag # "header"
  BY <1>1, ConstantTypes DEF Eof
<1>3. HeadersIndexed /\ SlotsConsecutive
  BY <1>2, ConstantTypes DEF HeadersIndexed, SlotsConsecutive
<1> QED
  BY <1>3
  DEF Init, CommitInv, CommitIsDirty, RegionInFile, HandleIndexed, DirtyMeansUnsaved,
      MasterHoldsIndex, CommitSteps, IsOpen

(* Every step preserves the invariant. *)
LEMMA StepCommitted ==
    ASSUME TypeOK, TypeOK', RecoveryInv, CommitInv, [Next]_vars
    PROVE  CommitInv'
<1>1. CASE UNCHANGED vars
  BY <1>1
  DEF vars, fileVars, handleVars, CommitInv, CommitIsDirty, RegionInFile, SlotsConsecutive,
      HeadersIndexed, HandleIndexed, DirtyMeansUnsaved, MasterHoldsIndex, IsOpen
<1>2. CASE Next
  BY <1>1, <1>2, CreateCommitStep, InitializeCommitStep, LoadCommitStep, AppendCommitStep,
     AppendErrorCommitStep, MasterCommitStep, SyncCommitStep, WriteHeaderCommitStep,
     SyncHeaderCommitStep, LossCommitStep
  DEF Next, CommitNext, OpenRejected, CommitClean, AppendTooLarge, TombstoneMissing
<1> QED BY <1>1, <1>2

(* Unless the kernel drops the pages of a failed sync, every header that a *)
(* crash may leave leads to an index of whole records, the two slots are   *)
(* never more than one generation apart, and a handle holds what its       *)
(* header leads to whenever it says it has nothing to commit (engine.rs    *)
(* append, tombstone, commit and load).                                    *)
THEOREM CommitInvariant ==
    ASSUME ~SyncErrorDropsWrites
    PROVE  Spec => []CommitInv
<1>1. Init => CommitInv
  BY InitCommitted
<1>2. TypeOK /\ TypeOK' /\ RecoveryInv /\ CommitInv /\ [Next]_vars => CommitInv'
  BY StepCommitted
<1> QED
  BY <1>1, <1>2, TypeCorrect, RecoveryInvariant, PTL DEF Spec

-----------------------------------------------------------------------------
(* What commit and the two header slots promise. *)

(* The slots whose header is durable hold exactly one cell, and            *)
(* DurableGeneration is the newest generation among them.                  *)
DurableShape ==
    /\ \A s \in DurableSlots :
          /\ s \in Slot /\ Eof \notin disk[LOG_START - 1]
          /\ \E h \in Header : disk[s] = {header_encode(h)}
                               /\ h.generation <= DurableGeneration
    /\ DurableSlots = {} => DurableGeneration = -1
    /\ DurableSlots # {} =>
          \E s \in DurableSlots, h \in Header :
             disk[s] = {header_encode(h)} /\ DurableGeneration = h.generation

(* The choices in the definition of DurableGeneration are determined. *)
LEMMA DurableIsNewest == FileTypeOK => DurableShape
<1> SUFFICES ASSUME FileTypeOK PROVE DurableShape
  OBVIOUS
<1> DEFINE gen(s) == header_decode(CHOOSE c \in disk[s] : TRUE).generation
           G == {gen(s) : s \in DurableSlots}
<1>1. ASSUME NEW s \in DurableSlots
      PROVE  /\ s \in Slot /\ Eof \notin disk[LOG_START - 1]
             /\ \E h \in Header : disk[s] = {header_encode(h)} /\ gen(s) = h.generation
  <2>1. PICK c \in disk[s] : disk[s] = {c} /\ c.tag = "header"
    BY DEF DurableSlots
  <2>2. s \in Slot /\ Eof \notin disk[LOG_START - 1]
    BY DEF DurableSlots
  <2>3. c.header \in Header /\ c = header_encode(c.header)
    BY <2>1, <2>2, CandidateType
  <2>4. (CHOOSE x \in disk[s] : TRUE) = c
    BY <2>1
  <2>5. gen(s) = c.header.generation
    BY <2>1, <2>4 DEF header_decode
  <2> QED
    BY <2>1, <2>2, <2>3, <2>5
<1>2. DurableSlots \subseteq {0, 1}
  BY <1>1, ConstantTypes
<1>3. \A s \in DurableSlots : gen(s) \in Nat
  BY <1>1 DEF Header
<1>4. CASE DurableSlots = {}
  BY <1>4 DEF DurableGeneration, DurableShape
<1>5. CASE DurableSlots # {}
  <2> DEFINE newest(g) == \A s \in DurableSlots : gen(s) <= g
  <2> HIDE DEF gen
  <2>1. \E s \in DurableSlots : \A t \in DurableSlots : gen(t) <= gen(s)
    <3>1. PICK s \in DurableSlots : TRUE
      BY <1>5
    <3>2. CASE \A t \in DurableSlots : gen(t) <= gen(s)
      BY <3>1, <3>2
    <3>3. CASE \E t \in DurableSlots : ~(gen(t) <= gen(s))
      <4>1. PICK t \in DurableSlots : ~(gen(t) <= gen(s))
        BY <3>3
      <4>2. gen(s) <= gen(t) /\ s # t /\ gen(t) <= gen(t)
        BY <1>3, <3>1, <4>1
      <4>3. DurableSlots \subseteq {s, t}
        BY <1>2, <3>1, <4>1, <4>2
      <4> QED BY <4>1, <4>2, <4>3
    <3> QED BY <3>2, <3>3
  <2>2. \E g \in G : newest(g)
    BY <2>1
  <2>3. (CHOOSE g \in G : newest(g)) \in G /\ newest(CHOOSE g \in G : newest(g))
    <3> HIDE DEF newest, G
    <3> QED BY <2>2
  <2>4. DurableGeneration = (CHOOSE g \in G : newest(g))
    BY <1>5 DEF DurableGeneration, gen
  <2>5. DurableGeneration \in G /\ newest(DurableGeneration)
    BY <2>3, <2>4
  <2>6. \E s \in DurableSlots : DurableGeneration = gen(s)
    BY <2>5
  <2> QED
    BY <1>1, <1>5, <2>5, <2>6 DEF DurableShape
<1> QED
  BY <1>4, <1>5

(* When a step keeps every durable header durable, the newest durable      *)
(* generation does not fall; and it is never below -1.                     *)
LEMMA DurableKept ==
    ASSUME FileTypeOK, FileTypeOK',
           \A s \in DurableSlots : s \in DurableSlots' /\ disk'[s] = disk[s]
    PROVE  DurableGeneration' >= DurableGeneration
<1>1. /\ \A s \in DurableSlots' :
            \E h \in Header : disk'[s] = {header_encode(h)}
                              /\ h.generation <= DurableGeneration'
      /\ DurableSlots' = {} => DurableGeneration' = -1
      /\ DurableSlots' # {} => \E h \in Header : DurableGeneration' = h.generation
  <2>1. (FileTypeOK => DurableShape)'
    BY DurableIsNewest, PTL
  <2> QED BY <2>1 DEF DurableShape
<1>2. CASE DurableSlots = {}
  <2>1. DurableGeneration = -1
    BY <1>2, DurableIsNewest DEF DurableShape
  <2>2. DurableGeneration' \in Int /\ DurableGeneration' >= -1
    BY <1>1 DEF Header
  <2> QED BY <2>1, <2>2
<1>3. CASE DurableSlots # {}
  <2>1. PICK s \in DurableSlots, h \in Header :
          disk[s] = {header_encode(h)} /\ DurableGeneration = h.generation
    BY <1>3, DurableIsNewest DEF DurableShape
  <2>2. PICK g \in Header : disk'[s] = {header_encode(g)} /\ g.generation <= DurableGeneration'
    BY <1>1, <2>1
  <2>3. g = h
    <3>1. header_encode(g) = header_encode(h)
      BY <2>1, <2>2
    <3> QED BY <3>1 DEF header_encode
  <2>4. DurableGeneration' \in Int /\ h.generation \in Nat
    BY <1>1, <2>1 DEF Header
  <2> QED BY <2>1, <2>2, <2>3, <2>4
<1> QED
  BY <1>2, <1>3

(* The newest durable generation is never below -1. *)
LEMMA DurableAtLeast ==
    ASSUME FileTypeOK
    PROVE  DurableGeneration \in Int /\ DurableGeneration >= -1
  BY DurableIsNewest DEF DurableShape, Header

(* A step that leaves the medium alone, or only narrows down what it may   *)
(* hold, keeps every durable header durable.                               *)
LEMMA NarrowedKeepsDurable ==
    ASSUME FileTypeOK, FileTypeOK',
           \A o \in Offset : disk'[o] \subseteq disk[o] /\ disk'[o] # {}
    PROVE  DurableGeneration' >= DurableGeneration
<1>1. ASSUME NEW s \in DurableSlots
      PROVE  s \in DurableSlots' /\ disk'[s] = disk[s]
  <2>1. PICK c \in disk[s] : disk[s] = {c} /\ c.tag = "header"
    BY DEF DurableSlots
  <2>2. s \in Slot /\ Eof \notin disk[LOG_START - 1]
    BY DEF DurableSlots
  <2>3. disk'[s] = {c}
    BY <2>1, <2>2, ConstantTypes
  <2>4. Eof \notin disk'[LOG_START - 1]
    BY <2>2, ConstantTypes
  <2> QED
    BY <2>1, <2>2, <2>3, <2>4 DEF DurableSlots
<1> QED
  BY <1>1, DurableKept

(* A sync, one that fails, and a power cut narrow the medium down. *)
LEMMA MediumKeepsDurable ==
    ASSUME FileTypeOK, FileTypeOK', FileInv,
           UNCHANGED fileVars \/ sync_data \/ SyncError \/ PowerCut
    PROVE  DurableGeneration' >= DurableGeneration
<1>1. \A o \in Offset : file[o] \in disk[o]
  BY DEF FileInv, SyncedIsCached
<1>2. CASE UNCHANGED fileVars \/ sync_data \/ SyncError
  <2>1. \A o \in Offset : disk'[o] \subseteq disk[o] /\ file[o] \in disk'[o]
    BY <1>1, <1>2 DEF fileVars, sync_data, SyncError
  <2> QED
    BY <2>1, NarrowedKeepsDurable
<1>3. CASE PowerCut
  <2>1. PICK img \in Images(disk) : disk' = [o \in Offset |-> {img[o]}]
    BY <1>3 DEF PowerCut
  <2>2. \A o \in Offset : img[o] \in disk[o]
    BY <2>1, ImageShape DEF IsImage
  <2> QED
    BY <2>1, <2>2, NarrowedKeepsDurable
<1> QED
  BY <1>2, <1>3

(* So does a write that stays clear of the header slots. *)
LEMMA LogWriteKeepsDurable ==
    ASSUME FileTypeOK, FileTypeOK', NEW cells, NEW k, NEW o \in Int, o >= LOG_START,
           WritePrefix(cells, k, o)
    PROVE  DurableGeneration' >= DurableGeneration
<1>1. \A s \in Slot : disk'[s] = disk[s]
  BY ConstantTypes DEF WritePrefix
<1>2. \A s \in DurableSlots : s \in DurableSlots'
  BY <1>1, ConstantTypes DEF DurableSlots
<1>3. \A s \in DurableSlots : disk'[s] = disk[s]
  BY <1>1 DEF DurableSlots
<1> QED
  BY <1>2, <1>3, DurableKept

(* Creating a database writes to a file no header was ever durable in. *)
LEMMA CreateKeepsDurable ==
    ASSUME FileTypeOK, FileTypeOK', FileInv, file[0] = Eof
    PROVE  DurableGeneration' >= DurableGeneration
<1>1. \A s \in Slot : disk[s] = {Eof}
  BY ConstantTypes DEF FileInv, NewIsEmpty
<1>2. DurableSlots = {}
  BY <1>1, ConstantTypes DEF DurableSlots
<1>3. (FileTypeOK => DurableGeneration \in Int /\ DurableGeneration >= -1)'
  BY DurableAtLeast, PTL
<1> QED
  BY <1>2, <1>3, DurableIsNewest DEF DurableShape

(* A header write puts the slot it writes at risk, never the live one: the *)
(* generation of the handle stays durable.                                 *)
LEMMA HeaderWriteKeepsLive ==
    ASSUME TypeOK, TypeOK', RecoveryInv, CommitInv, CommitWriteHeader
    PROVE  DurableGeneration' >= header.generation
<1> DEFINE v == victim_slot(slots)
<1>1. /\ FileTypeOK /\ FileTypeOK' /\ pc = "write_header" /\ header \in Header
      /\ write_all_at(<<header_encode(NextHeader)>>, v)
  BY DEF TypeOK, CommitWriteHeader
<1>2. IsOpen
  BY <1>1, OpenStates
<1>3. v \in Slot /\ v # live_slot /\ live_slot \in Slot
  BY <1>2, VictimIsNotLive DEF TypeOK
<1>4. file[live_slot] = header_encode(header)
  BY <1>2 DEF RecoveryInv, HandleInv, HandleOpen
<1>5. /\ disk'[v] = disk[v] \cup {header_encode(NextHeader), Damaged(v)}
      /\ \A o \in Offset \ {v} : disk'[o] = disk[o]
      /\ \A o \in Offset : disk[o] = {file[o]}
  BY <1>1, HeaderWriteKeepsFile
<1>6. disk'[live_slot] = {header_encode(header)}
  BY <1>3, <1>4, <1>5, ConstantTypes
<1>7. Eof \notin disk'[LOG_START - 1]
  <2>1. file[LOG_START - 1] # Eof /\ LOG_START - 1 \in Offset
    BY <1>2, ConstantTypes DEF CommitInv, RegionInFile
  <2>2. header_encode(NextHeader) # Eof /\ Torn # Eof
    BY DEF header_encode, Eof, Torn
  <2>3. v = LOG_START - 1 => Damaged(v) = Torn
    BY <2>1 DEF Damaged
  <2> QED
    BY <1>5, <2>1, <2>2, <2>3
<1>8. live_slot \in DurableSlots'
  <2>1. header_encode(header).tag = "header"
    BY DEF header_encode
  <2>2. \E c \in disk'[live_slot] : disk'[live_slot] = {c} /\ c.tag = "header"
    BY <1>6, <2>1
  <2> QED BY <1>3, <1>7, <2>2 DEF DurableSlots
<1>9. (FileTypeOK => DurableShape)'
  BY DurableIsNewest, PTL
<1>10. PICK h \in Header :
         disk'[live_slot] = {header_encode(h)} /\ h.generation <= DurableGeneration'
  BY <1>1, <1>8, <1>9 DEF DurableShape
<1>11. h = header
  <2>1. header_encode(h) = header_encode(header)
    BY <1>6, <1>10
  <2> QED BY <2>1 DEF header_encode
<1>12. (FileTypeOK => DurableGeneration \in Int /\ DurableGeneration >= -1)'
  BY DurableAtLeast, PTL
<1> QED
  BY <1>1, <1>10, <1>11, <1>12 DEF Header

-----------------------------------------------------------------------------
(* The theorems. *)

(* Once a header is durable no step makes it less so, except a commit that *)
(* writes over what an earlier one left behind when its last sync failed,  *)
(* and that one keeps at least the generation of its handle (header.rs     *)
(* victim_slot, engine.rs commit).                                         *)
THEOREM NoRollback ==
    ASSUME ~SyncErrorDropsWrites
    PROVE  Spec => NeverRolledBack
<1> DEFINE Kept == DurableGeneration' >= DurableGeneration
           Retried == pc = "write_header" /\ DurableGeneration' >= header.generation
<1>1. TypeOK /\ TypeOK' /\ RecoveryInv /\ CommitInv /\ [Next]_vars
        => [Kept \/ Retried]_vars
  <2> SUFFICES ASSUME TypeOK, TypeOK', RecoveryInv, CommitInv, [Next]_vars
               PROVE  Kept \/ Retried
    OBVIOUS
  <2>0. FileTypeOK /\ FileTypeOK' /\ FileInv /\ end \in Int /\ end >= LOG_START
    BY ConstantTypes DEF TypeOK, RecoveryInv
  <2>1. CASE UNCHANGED fileVars
    BY <2>0, <2>1, MediumKeepsDurable
  <2>2. ASSUME NEW kind, NEW payload,
               append_raw(kind, payload) \/ append_raw_error(kind, payload)
        PROVE  Kept
    <3>1. PICK k : WritePrefix(record_cells(kind, payload), k, end)
      BY <2>2 DEF append_raw, WriteRecord, append_raw_error, write_all_at, WriteFault, WriteError
    <3> QED BY <2>0, <3>1, LogWriteKeepsDurable
  <2>3. CASE \/ \E kind \in AppendKinds, d \in Doc :
                   Append_(kind, d) \/ AppendError(kind, d)
             \/ \E id \in DocId : Tombstone(id) \/ TombstoneError(id)
             \/ CommitAppendMaster \/ CommitMasterError
    BY <2>2, <2>3
    DEF Append_, AppendError, Tombstone, Bury, TombstoneError, CommitAppendMaster,
        CommitMasterError
  <2>4. CASE CommitWriteHeader
    BY <2>4, HeaderWriteKeepsLive DEF CommitWriteHeader
  <2>5. CASE CommitHeaderError
    <3>1. Len(<<header_encode(NextHeader)>>) = 1
      OBVIOUS
    <3>2. WritePrefix(<<header_encode(NextHeader)>>, 0, victim_slot(slots))
      BY <2>5, <3>1 DEF CommitHeaderError, WriteFault, WriteError
    <3>3. victim_slot(slots) \in Int
      BY VictimSlot, ConstantTypes DEF TypeOK
    <3>4. victim_slot(slots) .. victim_slot(slots) + 0 - 1 = {}
      BY <3>3
    <3>5. UNCHANGED fileVars
      BY <2>0, <3>2, <3>4 DEF WritePrefix, fileVars, FileTypeOK
    <3> QED BY <2>1, <3>5
  <2>6. CASE OpenCreate \/ OpenCreateError
    BY <2>0, <2>6, CreateKeepsDurable DEF OpenCreate, OpenCreateError
  <2>7. CASE \/ InitializeSync \/ InitializeSyncError \/ CommitSyncRecords
             \/ CommitSyncMaster \/ CommitSyncHeader \/ CommitSyncError \/ PowerLoss
    <3>1. sync_data \/ SyncError \/ PowerCut
      BY <2>7
      DEF InitializeSync, InitializeSyncError, CommitSyncRecords, CommitSyncMaster,
          CommitSyncHeader, CommitSyncError, PowerLoss
    <3> QED BY <2>0, <3>1, MediumKeepsDurable
  <2>8. CASE \/ UNCHANGED vars \/ OpenRejected \/ OpenLoad \/ CommitClean
             \/ CommitMasterTooLarge \/ Drop
             \/ \E d \in Doc : AppendTooLarge(d)
             \/ \E id \in DocId : TombstoneMissing(id)
    BY <2>1, <2>8
    DEF OpenRejected, OpenLoad, LoadHandle, CommitClean, CommitMasterTooLarge, Drop,
        AppendTooLarge, TombstoneMissing, vars
  <2> QED
    BY <2>3, <2>4, <2>5, <2>6, <2>7, <2>8 DEF Next, CommitNext
<1> QED
  BY <1>1, TypeCorrect, RecoveryInvariant, CommitInvariant, PTL DEF Spec, NeverRolledBack

(* When commit returns Ok its header and all of the log it describes are   *)
(* on the medium, and no other header there is newer (engine.rs commit).   *)
THEOREM DurableCommit ==
    ASSUME ~SyncErrorDropsWrites
    PROVE  Spec => CommitIsDurable
<1> DEFINE Returns == pc = "sync_header" /\ ~dirty' /\ pc' = "idle"
           Durable == /\ DurableGeneration' = header'.generation
                      /\ \A o \in LOG_START .. header'.log_end - 1 : disk'[o] = {file'[o]}
<1>1. TypeOK /\ TypeOK' /\ RecoveryInv /\ CommitInv /\ [Next]_vars
        => [Returns => Durable]_vars
  <2> SUFFICES ASSUME TypeOK, TypeOK', RecoveryInv, CommitInv, [Next]_vars, Returns
               PROVE  Durable
    OBVIOUS
  <2> DEFINE v == victim_slot(slots)
  <2>1. dirty
    BY DEF CommitInv, CommitIsDirty, CommitSteps
  <2>2. CommitSyncHeader
    BY <2>1
    DEF Next, CommitNext, vars, handleVars, OpenCreate, OpenCreateError, InitializeSync,
        InitializeSyncError, OpenLoad, LoadHandle, OpenRejected, Append_, AppendError,
        AppendTooLarge, Tombstone, Bury, TombstoneError, TombstoneMissing, CommitClean,
        CommitSyncRecords, CommitAppendMaster, CommitSyncMaster, CommitWriteHeader,
        CommitMasterTooLarge, CommitMasterError, CommitHeaderError, CommitSyncError,
        Drop, PowerLoss
  <2>3. /\ sync_data /\ header' = NextHeader /\ header' \in Header /\ header \in Header
        /\ FileTypeOK /\ FileTypeOK' /\ live_slot \in Slot
    BY <2>2 DEF CommitSyncHeader, InstallHeader, TypeOK
  <2>4. IsOpen
    BY OpenStates
  <2>5. \A o \in Offset : disk'[o] = {file[o]} /\ file'[o] = file[o]
    BY <2>3 DEF sync_data, RecoveryInv, FileInv, SyncedIsCached
  <2>6. \A o \in LOG_START .. header'.log_end - 1 : disk'[o] = {file'[o]}
    BY <2>3, <2>5, ConstantTypes DEF Header, Offset
  <2>7. v \in Slot /\ v # live_slot
    BY <2>4, VictimIsNotLive
  <2>8. /\ file[v] = header_encode(header')
        /\ file[live_slot] = header_encode(header)
        /\ file[LOG_START - 1] # Eof
    BY <2>3, <2>4 DEF RecoveryInv, HandleInv, HandleCommitting, HandleOpen, CommitInv, RegionInFile
  <2>9. disk'[v] = {header_encode(header')} /\ disk'[live_slot] = {header_encode(header)}
    BY <2>3, <2>5, <2>7, <2>8, ConstantTypes
  <2>10. v \in DurableSlots'
    BY <2>5, <2>7, <2>8, <2>9, ConstantTypes DEF DurableSlots, header_encode
  <2>11. (FileTypeOK => DurableShape)'
    BY DurableIsNewest, PTL
  <2>12. PICK g \in Header :
           disk'[v] = {header_encode(g)} /\ g.generation <= DurableGeneration'
    BY <2>3, <2>10, <2>11 DEF DurableShape
  <2>13. PICK s \in DurableSlots', h \in Header :
           disk'[s] = {header_encode(h)} /\ DurableGeneration' = h.generation
    BY <2>3, <2>10, <2>11 DEF DurableShape
  <2>14. s = v \/ s = live_slot
    BY <2>3, <2>7, <2>13, ConstantTypes DEF DurableSlots
  <2>15. \A x, y : {header_encode(x)} = {header_encode(y)} => x = y
    <3> TAKE x, y
    <3> HAVE {header_encode(x)} = {header_encode(y)}
    <3>1. header_encode(x) = header_encode(y)
      OBVIOUS
    <3> QED BY <3>1 DEF header_encode
  <2>16. header'.generation = header.generation + 1
    BY <2>3 DEF NextHeader
  <2>17. g = header' /\ (s = v => h = header') /\ (s = live_slot => h = header)
    BY <2>9, <2>12, <2>13, <2>15
  <2> QED
    BY <2>3, <2>6, <2>12, <2>13, <2>14, <2>16, <2>17 DEF Header
<1> QED
  BY <1>1, TypeCorrect, RecoveryInvariant, CommitInvariant, PTL DEF Spec, CommitIsDurable

(* With both headers whole, tearing either one leaves a file that load     *)
(* accepts, at the newest generation or the one before (engine.rs load,    *)
(* header.rs select_live).                                                 *)
THEOREM HeaderLoss ==
    ASSUME ~SyncErrorDropsWrites
    PROVE  Spec => []HeaderLossIsSurvived
<1>1. TypeOK /\ RecoveryInv /\ CommitInv => HeaderLossIsSurvived
  <2> SUFFICES ASSUME TypeOK, RecoveryInv, CommitInv, Valid(decode_slots(file)) = Slot,
                      NEW s \in Slot
               PROVE  LET f == [file EXCEPT ![s] = Torn]
                      IN /\ Loadable(f)
                         /\ LiveHeader(f).generation >= LiveHeader(file).generation - 1
    BY DEF HeaderLossIsSurvived
  <2> DEFINE f == [file EXCEPT ![s] = Torn]
             t == 1 - s
             c == file[t]
             h == c.header
             l == select_live(decode_slots(file))
  <2>1. /\ FileTypeOK /\ file \in [Offset -> Cell] /\ f \in [Offset -> Cell]
        /\ t \in Slot /\ t # s /\ Slot = {s, t}
        /\ f[s] = Torn /\ \A o \in Offset \ {s} : f[o] = file[o]
    BY ConstantTypes, SpecialCells DEF TypeOK, FileTypeOK
  <2>2. \A x \in Slot : file[x].tag = "header" /\ file[x] \in disk[x]
    <3>1. \A x \in Slot : header_decode(file[x]) # NoHeader
      BY ConstantTypes DEF Valid, decode_slots
    <3> QED
      BY <2>1, <3>1, ConstantTypes DEF header_decode, RecoveryInv, FileInv, SyncedIsCached
  <2>3. h \in Header /\ c = header_encode(h)
    BY <2>1, <2>2, CandidateType
  <2>4. Supported(h) /\ IndexWithin(file, load_index(file, h), h.log_end)
    BY <2>1, <2>2 DEF RecoveryInv, FileInv, HeadersSupported, CommitInv, HeadersIndexed
  <2>5. HeaderWhole(f, h)
    <3>1. HeaderWhole(file, h)
      BY <2>1, <2>3, <2>4, SupportedIsWhole
    <3>2. \A o \in LOG_START .. h.log_end - 1 : f[o] = file[o]
      BY <2>1, <2>3, ConstantTypes DEF Header, Offset
    <3> QED BY <2>1, <2>3, <3>1, <3>2, HeaderWholeStable
  <2>6. decode_slots(f)[s] = NoHeader /\ decode_slots(f)[t] = h
    BY <2>1, <2>2, <2>3, ConstantTypes DEF decode_slots, header_decode, Torn
  <2>7. Valid(decode_slots(f)) = {t}
    <3>1. h # NoHeader
      BY <2>3 DEF Header, NoHeader
    <3> QED BY <2>1, <2>6, <3>1 DEF Valid
  <2>8. LiveHeader(f) = h
    BY <2>1, <2>6, <2>7, SelectLive, DecodeSlotsType DEF LiveHeader
  <2>9. f[LOG_START - 1] # Eof
    BY <2>1, <2>2, ConstantTypes DEF Torn, Eof
  <2>10. Loadable(f)
    <3>1. h.log_end - 1 \in Offset
      BY <2>3, ConstantTypes DEF Header, Offset
    <3>2. f[h.log_end - 1] # Eof
      BY <2>3, <2>5, <2>9, ConstantTypes DEF Header, HeaderWhole
    <3>3. h.master_len = 0 \/ HasMaster(f, h.master_ptr)
      BY <2>5 DEF HeaderWhole, MasterWithin
    <3> QED
      BY <2>7, <2>8, <2>9, <3>1, <3>2, <3>3 DEF Loadable
  <2>11. l \in Slot /\ file[l].header = LiveHeader(file) /\ LiveHeader(file) \in Header
    BY <2>1, LiveCell
  <2>12. h.generation >= LiveHeader(file).generation - 1
    <3>1. CASE l = t
      BY <2>3, <2>11, <3>1 DEF Header
    <3>2. CASE l = s
      <4>1. \/ file[s].header.generation = h.generation + 1
            \/ h.generation = file[s].header.generation + 1
        BY <2>1, <2>2, ConstantTypes DEF CommitInv, SlotsConsecutive
      <4> QED BY <2>3, <2>11, <3>2, <4>1 DEF Header
    <3> QED BY <2>1, <2>11, <3>1, <3>2
  <2> QED
    BY <2>8, <2>10, <2>12
<1> QED
  BY <1>1, TypeCorrect, RecoveryInvariant, CommitInvariant, PTL

(* An idle handle is dirty exactly when its log is longer than its header  *)
(* says, and holds what its header leads to when it is not: what commit's  *)
(* early return skips is nothing (engine.rs commit and stats).             *)
THEOREM CleanIsSaved ==
    ASSUME ~SyncErrorDropsWrites
    PROVE  Spec => []CleanMeansSaved
<1>1. CommitInv => CleanMeansSaved
  BY DEF CommitInv, DirtyMeansUnsaved, CleanMeansSaved, IsOpen, stats
<1> QED
  BY <1>1, CommitInvariant, PTL

(* The ids of a sound index can be counted, and live_count counts those    *)
(* that are not dead.                                                      *)
LEMMA LiveCount ==
    ASSUME NEW x \in MasterIndex, NEW f, NEW e, IndexWithin(f, x, e)
    PROVE  live_count(x) = Cardinality(live_ids(x)) /\ IsFiniteSet(live_ids(x))
<1>1. x.dead \subseteq Known(x) /\ Known(x) = 1 .. x.next_doc_id - 1
  BY DEF IndexWithin
<1>2. IsFiniteSet(Known(x))
  <2>1. 1 \in Int /\ x.next_doc_id - 1 \in Int
    BY DEF MasterIndex
  <2> QED BY <1>1, <2>1, FS_Interval
<1>3. Cardinality(Known(x) \ x.dead)
         = Cardinality(Known(x)) - Cardinality(Known(x) \cap x.dead)
  BY <1>2, FS_Difference
<1>4. Known(x) \cap x.dead = x.dead
  BY <1>1
<1>5. IsFiniteSet(Known(x) \ x.dead)
  BY <1>2, FS_Difference
<1> QED
  BY <1>3, <1>4, <1>5 DEF live_count, live_ids, dead_count

(* live_count counts the live ids, the ids in use are those below the next *)
(* one to hand out, and their records lie apart, below the next append     *)
(* (index.rs InsertNew and live_count, engine.rs append and tombstone).    *)
THEOREM ConsistentIndex ==
    ASSUME ~SyncErrorDropsWrites
    PROVE  Spec => []IndexConsistent
<1>1. TypeOK /\ RecoveryInv /\ CommitInv => IndexConsistent
  <2> SUFFICES ASSUME TypeOK, RecoveryInv, CommitInv
               PROVE  IndexConsistent
    OBVIOUS
  <2>1. IndexWithin(file, index, end)
    <3>1. IndexWithin(file, DefaultIndex, end)
      BY DefaultIndexWithin
    <3> QED BY <3>1 DEF CommitInv, HandleIndexed
  <2>2. index.dead \subseteq Known(index) /\ Known(index) = 1 .. index.next_doc_id - 1
    BY <2>1 DEF IndexWithin
  <2>3. live_count(index) = Cardinality(live_ids(index))
    BY <2>1, LiveCount DEF TypeOK
  <2>4. \A a, b \in Known(index) :
           /\ index.offsets[a] \in LOG_START .. end - 1
           /\ index.offsets[a] = index.offsets[b] => a = b
    BY <2>1 DEF IndexWithin, RecordWithin
  <2> QED
    BY <2>2, <2>3, <2>4 DEF IndexConsistent
<1> QED
  BY <1>1, TypeCorrect, RecoveryInvariant, CommitInvariant, PTL
=============================================================================
