-------------------------- MODULE EngineInvariant ---------------------------
(***************************************************************************)
(* The inductive invariants behind recovery and commit: why whatever       *)
(* header a crash leaves in the file leads to a complete log, and why a    *)
(* handle that has nothing to commit holds what is saved.                  *)
(***************************************************************************)
EXTENDS StorageEngine, LogInvariant

IsOpen == pc \notin {"closed", "init"}

(* A master index record starts at p and ends before e. *)
MasterBelow(p, e) ==
    /\ p >= LOG_START
    /\ HasMaster(file, p)
    /\ p + file[p].len < e

(* The log below the header's log_end is on the medium and holds the       *)
(* header's master index.                                                  *)
Supported(h) ==
    /\ \A o \in LOG_START .. h.log_end - 1 : o \notin unsynced /\ file[o] # Eof
    /\ h.master_len = 0 \/ MasterBelow(h.master_ptr, h.log_end)

(* What was synced is what the cache holds. *)
SyncedIsCached ==
    \A o \in Offset :
        /\ file[o] \in disk[o]
        /\ o \notin unsynced => disk[o] = {file[o]}

(* Every header the medium may hold is supported. *)
HeadersSupported ==
    \A s \in Slot : \A c \in disk[s] : c.tag = "header" => Supported(c.header)

(* Of the headers in the two slots the newer one has the longer log. *)
SlotsOrdered ==
    \A c \in disk[0], d \in disk[1] :
        c.tag = "header" /\ d.tag = "header" =>
            \/ /\ c.header.generation < d.header.generation
               /\ c.header.log_end <= d.header.log_end
            \/ /\ d.header.generation < c.header.generation
               /\ d.header.log_end <= c.header.log_end

(* No header the medium may hold reaches beyond e. *)
HeadersWithin(e) ==
    \A s \in Slot : \A c \in disk[s] : c.tag = "header" => c.header.log_end <= e

(* The header a reopen would find has the longest log of all. *)
CacheIsNewest ==
    Valid(decode_slots(file)) # {} => HeadersWithin(LiveHeader(file).log_end)

(* A file that looks new has never held a header. *)
NewIsEmpty == file[0] = Eof => disk[0] = {Eof} /\ disk[1] = {Eof}

FileInv ==
    /\ SyncedIsCached
    /\ HeadersSupported
    /\ SlotsOrdered
    /\ CacheIsNewest
    /\ NewIsEmpty

(* The handle, by what it is doing. *)
HandleUnused ==
    ~IsOpen => /\ header = InitialHeader
               /\ slots = [s \in Slot |-> NoHeader]
               /\ end = LOG_START

HandleCreating ==
    pc = "init" => file[0] = header_encode(InitialHeader) /\ file[1] = Zero

HandleOpen ==
    IsOpen => /\ file[live_slot] = header_encode(header)
              /\ slots[live_slot] = header
              /\ \A s \in Valid(slots) \ {live_slot} :
                    slots[s].generation < header.generation
              /\ HeadersWithin(end)
              /\ \A o \in LOG_START .. end - 1 : file[o] # Eof

HandleCommitting ==
    /\ pc \in {"sync_master", "write_header", "sync_header"}
          => MasterBelow(master_ptr, end)
    /\ pc = "write_header" => unsynced = {}
    /\ pc = "sync_header" =>
          file[victim_slot(slots)] = header_encode(NextHeader)

HandleInv == HandleUnused /\ HandleCreating /\ HandleOpen /\ HandleCommitting

(* The inductive invariant: whatever header load may come to see, the log  *)
(* it describes is complete and the next append starts after it (engine.rs *)
(* commit and load).                                                       *)
RecoveryInv == FileInv /\ HandleInv

-----------------------------------------------------------------------------
(* What a commit adds to it. *)

(* A commit is under way only when there is something to commit. *)
CommitIsDirty == pc \in CommitSteps => dirty

(* The file of an open handle holds the whole header region. *)
RegionInFile == IsOpen => file[LOG_START - 1] # Eof

(* The headers in the two slots are of consecutive generations. *)
SlotsConsecutive ==
    \A c \in disk[0], d \in disk[1] :
        c.tag = "header" /\ d.tag = "header" =>
            \/ c.header.generation = d.header.generation + 1
            \/ d.header.generation = c.header.generation + 1

(* Every header the medium may hold leads to an index of whole records. *)
HeadersIndexed ==
    \A s \in Slot : \A c \in disk[s] :
        c.tag = "header" =>
            IndexWithin(file, load_index(file, c.header), c.header.log_end)

(* So does the handle; there is nothing in one that is not open. *)
HandleIndexed ==
    IF IsOpen THEN IndexWithin(file, index, end)
    ELSE index = DefaultIndex /\ ~dirty

(* A handle is dirty when its log is longer than its header says, and      *)
(* holds the index its header leads to when it is not.                     *)
DirtyMeansUnsaved ==
    IsOpen => /\ dirty <=> end # header.log_end
              /\ ~dirty => index = load_index(file, header)

(* Once its master index is written a commit saves the handle's index. *)
MasterHoldsIndex ==
    pc \in {"sync_master", "write_header", "sync_header"} =>
        read_record_at(file, master_ptr).payload = index_encode(index)

(* With RecoveryInv the inductive invariant behind what commit promises:   *)
(* the index it writes is the handle's, every header a crash may leave     *)
(* leads to whole records, and the two slots never hold generations more   *)
(* than one apart (engine.rs append, commit and load).                     *)
CommitInv ==
    /\ CommitIsDirty
    /\ RegionInFile
    /\ SlotsConsecutive
    /\ HeadersIndexed
    /\ HandleIndexed
    /\ DirtyMeansUnsaved
    /\ MasterHoldsIndex

-----------------------------------------------------------------------------
(* What verify adds to it. *)

(* The walk succeeds for every header the medium may hold. *)
HeadersWalk ==
    \A s \in Slot : \A c \in disk[s] : c.tag = "header" => HeaderWalks(file, c.header)

(* It succeeds as far as the next append of an open handle. *)
HandleWalks == IsOpen => Walks(file, index, end)

(* It comes by the master index of a commit under way. *)
MasterWalked ==
    pc \in {"sync_master", "write_header", "sync_header"} =>
        master_ptr \in verify(file, end)

(* With RecoveryInv and CommitInv the inductive invariant behind verify:   *)
(* records follow one another without a gap up to every log_end a crash    *)
(* may leave, and up to the next append (engine.rs append_raw and verify). *)
VerifyInv == HeadersWalk /\ HandleWalks /\ MasterWalked
=============================================================================
