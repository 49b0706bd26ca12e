--------------------------- MODULE StorageEngine ----------------------------
(***************************************************************************)
(* The append-only storage engine (src/storage/engine.rs): one handle on   *)
(* one file, every system call of commit a step of its own, I/O errors     *)
(* from any of them, the handle dropped or its process killed between any  *)
(* two of them, and power cuts.                                            *)
(*                                                                         *)
(* pc says where the handle is: "closed"; "init" between initialize's      *)
(* write and its sync; "idle" between calls; otherwise the step of commit  *)
(* that comes next.                                                        *)
(***************************************************************************)
EXTENDS CndbFile

CONSTANTS AppendKinds, \* record kinds the callers append documents with
          MaxFaults,   \* bound: I/O errors in a behaviour
          MaxLosses    \* bound: power cuts, and handles lost with writes unsynced

ASSUME EngineAssumption ==
    /\ AppendKinds \subseteq RecordKind
    /\ MaxFaults \in Nat
    /\ MaxLosses \in Nat

VARIABLES pc, header, slots, live_slot, index, end, dirty,
          master_ptr, \* the local of commit that outlives a step
          faults, losses

handleVars == <<header, slots, live_slot, index, end, dirty, master_ptr>>
vars == <<fileVars, pc, handleVars, faults, losses>>

CommitSteps == {"append_master", "sync_master", "write_header", "sync_header"}

(* The type invariant. *)
TypeOK ==
    /\ FileTypeOK
    /\ pc \in {"closed", "init", "idle"} \cup CommitSteps
    /\ header \in Header
    /\ slots \in [Slot -> Header \cup {NoHeader}]
    /\ live_slot \in Slot
    /\ index \in MasterIndex
    /\ end \in LOG_START .. FileCap
    /\ dirty \in BOOLEAN
    /\ master_ptr \in Nat
    /\ faults \in 0 .. MaxFaults
    /\ losses \in 0 .. MaxLosses

(* The fields of a handle that is not open, and of one being created. *)
NoHandle ==
    /\ header' = InitialHeader
    /\ slots' = [s \in Slot |-> NoHeader]
    /\ live_slot' = 0
    /\ index' = DefaultIndex
    /\ end' = LOG_START
    /\ dirty' = FALSE
    /\ master_ptr' = 0

Init ==
    /\ FileInit
    /\ pc = "closed"
    /\ header = InitialHeader
    /\ slots = [s \in Slot |-> NoHeader]
    /\ live_slot = 0
    /\ index = DefaultIndex
    /\ end = LOG_START
    /\ dirty = FALSE
    /\ master_ptr = 0
    /\ faults = 0
    /\ losses = 0

NoFault == UNCHANGED <<faults, losses>>
Fault == faults < MaxFaults /\ faults' = faults + 1 /\ UNCHANGED losses
Loss == losses < MaxLosses /\ losses' = losses + 1 /\ UNCHANGED faults

(* A write fails for lack of room whatever the bound on other errors. *)
WriteFault(cells, o) ==
    /\ IF Fits(cells, o) THEN Fault ELSE NoFault
    /\ WriteError(cells, o)

-----------------------------------------------------------------------------
(* open. *)

(* A file of length zero is a new database: initialize writes the header   *)
(* region and syncs it before open returns.                                *)
OpenCreate ==
    /\ pc = "closed" /\ file[0] = Eof
    /\ write_all_at(HeaderRegion, 0)
    /\ pc' = "init"
    /\ UNCHANGED handleVars /\ NoFault

OpenCreateError ==
    /\ pc = "closed" /\ file[0] = Eof
    /\ WriteFault(HeaderRegion, 0)
    /\ UNCHANGED <<pc, handleVars>>

InitializeSync ==
    /\ pc = "init"
    /\ sync_data
    /\ slots' = [slots EXCEPT ![0] = header]
    /\ live_slot' = 0
    /\ pc' = "idle"
    /\ UNCHANGED <<header, index, end, dirty, master_ptr>> /\ NoFault

InitializeSyncError ==
    /\ pc = "init"
    /\ SyncError
    /\ Fault
    /\ pc' = "closed"
    /\ UNCHANGED handleVars

(* The handle load makes of a file it accepts, but for its end. *)
LoadHandle ==
    /\ pc = "closed" /\ file[0] # Eof /\ Loadable(file)
    /\ slots' = decode_slots(file)
    /\ live_slot' = select_live(decode_slots(file))
    /\ header' = LiveHeader(file)
    /\ index' = load_index(file, LiveHeader(file))
    /\ dirty' = FALSE
    /\ pc' = "idle"
    /\ UNCHANGED <<fileVars, master_ptr>> /\ NoFault

(* Mutant: load appends from the start of the log. *)
LoadForgetsEnd == LoadHandle /\ end' = LOG_START

OpenLoad == LoadHandle /\ end' = LiveHeader(file).log_end

(* load, on a file it rejects: the caller gets an error and no handle. *)
OpenRejected ==
    /\ pc = "closed" /\ file[0] # Eof /\ ~Loadable(file)
    /\ UNCHANGED vars

-----------------------------------------------------------------------------
(* append, tombstone and the append_raw they share with commit. *)

WriteRecord(kind, payload) ==
    /\ Len(payload) <= MaxRecordLen
    /\ write_all_at(record_cells(kind, payload), end)

(* Mutant: the next append leaves a gap of one cell. *)
AppendLeavesGap(kind, payload) ==
    /\ WriteRecord(kind, payload)
    /\ end' = end + RECORD_HEADER_SIZE + Len(payload) + 1
    /\ dirty' = TRUE

(* Mutant: appending does not make the handle dirty. *)
AppendStaysClean(kind, payload) ==
    /\ WriteRecord(kind, payload)
    /\ end' = end + RECORD_HEADER_SIZE + Len(payload)
    /\ UNCHANGED dirty

append_raw(kind, payload) ==
    /\ WriteRecord(kind, payload)
    /\ end' = end + RECORD_HEADER_SIZE + Len(payload)
    /\ dirty' = TRUE

(* The frame and a part of the payload may be written before the error;    *)
(* end does not move, so the next append goes over them.                   *)
append_raw_error(kind, payload) ==
    /\ Len(payload) <= MaxRecordLen
    /\ WriteFault(record_cells(kind, payload), end)
    /\ UNCHANGED <<end, dirty>>

Append_(kind, d) ==
    /\ pc = "idle" /\ index.next_doc_id <= MaxDocId
    /\ append_raw(kind, doc_payload(d))
    /\ index' = InsertNew(index, end)
    /\ UNCHANGED <<pc, header, slots, live_slot, master_ptr>> /\ NoFault

AppendError(kind, d) ==
    /\ pc = "idle"
    /\ append_raw_error(kind, doc_payload(d))
    /\ UNCHANGED <<pc, header, slots, live_slot, index, master_ptr>>

(* append_raw's early return, before anything is written. *)
AppendTooLarge(d) ==
    /\ pc = "idle" /\ DocLen[d] > MaxRecordLen
    /\ UNCHANGED vars

Bury(id) ==
    /\ pc = "idle"
    /\ append_raw("Tombstone", tombstone_payload(id))
    /\ index' = [index EXCEPT !.dead = @ \cup {id}]
    /\ UNCHANGED <<pc, header, slots, live_slot, master_ptr>> /\ NoFault

(* Mutant: tombstone does not check that the document exists. *)
TombstoneUnchecked(id) == id \notin index.dead /\ Bury(id)

Tombstone(id) == id \in live_ids(index) /\ Bury(id)

(* tombstone's early returns: the document is deleted or was never stored. *)
TombstoneMissing(id) ==
    /\ pc = "idle" /\ id \notin live_ids(index)
    /\ UNCHANGED vars

TombstoneError(id) ==
    /\ pc = "idle" /\ id \in live_ids(index)
    /\ append_raw_error("Tombstone", tombstone_payload(id))
    /\ UNCHANGED <<pc, header, slots, live_slot, index, master_ptr>>

-----------------------------------------------------------------------------
(* commit.  Every error returns to the caller with the handle still dirty. *)

(* commit's early return: nothing was appended since the last commit. *)
CommitClean ==
    /\ pc = "idle" /\ ~dirty
    /\ UNCHANGED vars

CommitReturns == pc' = "idle" /\ master_ptr' = 0

CommitSyncRecords ==
    /\ pc = "idle" /\ dirty
    /\ sync_data
    /\ pc' = "append_master"
    /\ UNCHANGED handleVars /\ NoFault

CommitAppendMaster ==
    /\ pc = "append_master"
    /\ append_raw("MasterIndex", index_encode(index))
    /\ master_ptr' = end
    /\ pc' = "sync_master"
    /\ UNCHANGED <<header, slots, live_slot, index>> /\ NoFault

CommitMasterTooLarge ==
    /\ pc = "append_master"
    /\ EncodedLen(index) > MaxRecordLen
    /\ pc' = "idle"
    /\ UNCHANGED <<fileVars, handleVars>> /\ NoFault

CommitMasterError ==
    /\ pc = "append_master"
    /\ append_raw_error("MasterIndex", index_encode(index))
    /\ pc' = "idle"
    /\ UNCHANGED <<header, slots, live_slot, index, master_ptr>>

(* Mutant: the header is written before the master index is flushed. *)
CommitMasterUnflushed ==
    /\ pc = "sync_master"
    /\ pc' = "write_header"
    /\ UNCHANGED <<fileVars, handleVars>> /\ NoFault

CommitSyncMaster ==
    /\ pc = "sync_master"
    /\ sync_data
    /\ pc' = "write_header"
    /\ UNCHANGED handleVars /\ NoFault

NextHeader == [generation |-> header.generation + 1,
               master_ptr |-> master_ptr,
               master_len |-> EncodedLen(index),
               log_end |-> end]

(* The commit point. *)
CommitWriteHeader ==
    /\ pc = "write_header"
    /\ write_all_at(<<header_encode(NextHeader)>>, victim_slot(slots))
    /\ pc' = "sync_header"
    /\ UNCHANGED handleVars /\ NoFault

CommitHeaderError ==
    /\ pc = "write_header"
    /\ WriteFault(<<header_encode(NextHeader)>>, victim_slot(slots))
    /\ CommitReturns
    /\ UNCHANGED <<header, slots, live_slot, index, end, dirty>>

(* The header just written becomes the handle's. *)
InstallHeader ==
    /\ pc = "sync_header"
    /\ header' = NextHeader
    /\ slots' = [slots EXCEPT ![victim_slot(slots)] = NextHeader]
    /\ live_slot' = victim_slot(slots)
    /\ CommitReturns
    /\ UNCHANGED <<index, end>> /\ NoFault

(* Mutant: commit returns before its header is flushed. *)
CommitHeaderUnflushed == InstallHeader /\ dirty' = FALSE /\ UNCHANGED fileVars

(* Mutant: a successful commit leaves the handle dirty. *)
CommitStaysDirty == sync_data /\ InstallHeader /\ UNCHANGED dirty

CommitSyncHeader == sync_data /\ InstallHeader /\ dirty' = FALSE

CommitSyncError ==
    /\ \/ pc = "idle" /\ dirty
       \/ pc \in {"sync_master", "sync_header"}
    /\ SyncError
    /\ Fault
    /\ CommitReturns
    /\ UNCHANGED <<header, slots, live_slot, index, end, dirty>>

-----------------------------------------------------------------------------
(* The handle goes away: it is dropped, or its process is killed between   *)
(* two system calls.  The page cache survives.                             *)
Drop ==
    /\ pc # "closed"
    /\ pc' = "closed"
    /\ NoHandle
    /\ UNCHANGED fileVars
    /\ IF unsynced = {} THEN NoFault ELSE Loss

(* The power fails: what was not synced may be lost or torn. *)
PowerLoss ==
    /\ Loss
    /\ PowerCut
    /\ pc' = "closed"
    /\ NoHandle

CommitNext ==
    \/ CommitClean \/ CommitSyncRecords \/ CommitAppendMaster \/ CommitSyncMaster
    \/ CommitWriteHeader \/ CommitSyncHeader
    \/ CommitMasterTooLarge \/ CommitMasterError
    \/ CommitHeaderError \/ CommitSyncError

Next ==
    \/ OpenCreate \/ OpenCreateError \/ InitializeSync \/ InitializeSyncError
    \/ OpenLoad \/ OpenRejected
    \/ \E kind \in AppendKinds, d \in Doc :
          Append_(kind, d) \/ AppendError(kind, d)
    \/ \E d \in Doc : AppendTooLarge(d)
    \/ \E id \in DocId : Tombstone(id) \/ TombstoneError(id) \/ TombstoneMissing(id)
    \/ CommitNext
    \/ Drop \/ PowerLoss

Spec == Init /\ [][Next]_vars

(* A caller that keeps calling commit while there is something to commit,  *)
(* and whose calls run to their end.                                       *)
FairSpec == Spec /\ WF_vars(CommitNext)

-----------------------------------------------------------------------------
(* Properties. *)

(* The slots whose header is on the medium for certain, in a file that is  *)
(* certain to hold the whole header region.                                *)
DurableSlots ==
    {s \in Slot : /\ Eof \notin disk[LOG_START - 1]
                  /\ \E c \in disk[s] : disk[s] = {c} /\ c.tag = "header"}

(* The newest generation whose header is on the medium for certain; -1     *)
(* before the first one is.                                                *)
DurableGeneration ==
    IF DurableSlots = {} THEN -1
    ELSE CHOOSE g \in {header_decode(CHOOSE c \in disk[s] : TRUE).generation :
                         s \in DurableSlots} :
           \A s \in DurableSlots :
              header_decode(CHOOSE c \in disk[s] : TRUE).generation <= g

(* Once one header has been made durable, a file that nobody has open is   *)
(* accepted by load, whatever was lost, torn or left behind by failed      *)
(* writes and syncs: a crash during commit is always recoverable.          *)
AlwaysRecoverable == DurableSlots # {} /\ pc = "closed" => Loadable(file)

(* With two valid headers, losing either one leaves a file that opens, at  *)
(* the newest generation or the one before it: at most the last commit is  *)
(* lost (engine.rs load, header.rs select_live).                           *)
HeaderLossIsSurvived ==
    Valid(decode_slots(file)) = Slot =>
        \A s \in Slot :
            LET f == [file EXCEPT ![s] = Torn]
            IN /\ Loadable(f)
               /\ LiveHeader(f).generation >= LiveHeader(file).generation - 1

(* No step gives up the newest durable generation, with one exception: a   *)
(* commit that retries one whose last sync failed writes over the header   *)
(* that sync may have left durable, and even then never falls behind the   *)
(* generation the handle was opened at or last committed (header.rs        *)
(* victim_slot, engine.rs commit).                                         *)
NeverRolledBack ==
    [][\/ DurableGeneration' >= DurableGeneration
       \/ /\ pc = "write_header"
          /\ DurableGeneration' >= header.generation]_vars

(* When commit returns Ok, its header and every byte of the log below its  *)
(* log_end are on the medium, not only in the cache.                       *)
CommitIsDurable ==
    [][pc = "sync_header" /\ ~dirty' /\ pc' = "idle"
         => /\ DurableGeneration' = header'.generation
            /\ \A o \in LOG_START .. header'.log_end - 1 :
                  disk'[o] = {file'[o]}]_vars

(* While a handle is open, neither the slot of its live header nor a byte  *)
(* of the log below that header's log_end changes: a commit never          *)
(* overwrites a byte the live generation depends on.                       *)
LiveBytesUntouched ==
    [][pc \notin {"closed", "init"} /\ pc' # "closed"
         => \A o \in {live_slot} \cup LOG_START .. header.log_end - 1 :
               file'[o] = file[o]]_vars

(* StorageEngine::stats, of an open handle. *)
stats == [generation |-> header.generation,
          live_docs |-> live_count(index), dead_docs |-> dead_count(index),
          committed_len |-> header.log_end, pending_len |-> end]

(* An idle handle is dirty exactly when its stats show bytes that are not  *)
(* committed, and one that is not dirty holds the index its live header    *)
(* leads to: commit's early return loses nothing and skips no write, after *)
(* whatever calls failed before.                                           *)
CleanMeansSaved ==
    pc = "idle" => /\ dirty <=> stats.pending_len # stats.committed_len
                   /\ ~dirty => index = load_index(file, header)

(* verify succeeds on every open database, and the records it walks        *)
(* include the live master index and every document that index knows.      *)
VerifyPasses ==
    pc \notin {"closed", "init"} =>
        LET walked == verify(file, header.log_end)
            committed == load_index(file, header)
        IN /\ VerifyError \notin walked
           /\ {committed.offsets[id] : id \in Known(committed)} \subseteq walked
           /\ header.master_len # 0 => header.master_ptr \in walked

(* live_count, a difference of two sizes that is never negative, counts    *)
(* exactly live_ids; every id below the next one to hand out is in use and *)
(* no other; and the documents lie at distinct offsets of the log, below   *)
(* the next append.                                                        *)
IndexConsistent ==
    /\ live_count(index) = Cardinality(live_ids(index))
    /\ Known(index) = 1 .. index.next_doc_id - 1
    /\ \A a, b \in Known(index) :
          /\ index.offsets[a] \in LOG_START .. end - 1
          /\ index.offsets[a] = index.offsets[b] => a = b

(* An index of every id fits a record; and the device has room for the     *)
(* records the callers may yet append, for the master index of every call  *)
(* that may yet fail, and for the one that succeeds.                       *)
AmpleRoom ==
    /\ 24 * (MaxDocId + 1) <= MaxRecordLen * CellBytes
    /\ LET records == 2 * MaxDocId + (MaxFaults - faults) + 1
       IN end + records * (RECORD_HEADER_SIZE + MaxRecordLen) <= FileCap

(* A caller that keeps retrying commit gets through, however many calls    *)
(* failed before and whatever they left in the file, and costs the log no  *)
(* more than one master index for each (engine.rs commit).                 *)
RetriedCommitSucceeds == dirty /\ AmpleRoom ~> ~dirty

-----------------------------------------------------------------------------
(* What the comments of the code say, where the code does otherwise. *)

(* header.rs says of victim_slot that it never returns the live slot, so   *)
(* that the live header survives the write; the live header is the valid   *)
(* one with the highest generation.                                        *)
LiveHeaderSurvives ==
    pc = "write_header" =>
        victim_slot(slots) # select_live(decode_slots(file))

(* header.rs says that the two slots make a torn header a recoverable      *)
(* event instead of a corrupt database.                                    *)
TornHeaderIsRecoverable ==
    pc = "closed" => file[0] = Eof \/ Loadable(file)
=============================================================================
