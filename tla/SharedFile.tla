----------------------------- MODULE SharedFile -----------------------------
(***************************************************************************)
(* Several processes with handles on one .cndb file (src/storage/engine.rs *)
(* takes no lock).  They see one coherent page cache: a sync that succeeds *)
(* makes no difference to them, one that fails does, since the caller gets *)
(* an error for what everybody can already read.  Nothing crashes here but *)
(* the processes; CndbFile and StorageEngine treat power cuts.             *)
(*                                                                         *)
(* open is as many steps as it has reads of the file: its length, its      *)
(* header region, its master index.  The write of a header slot is two,    *)
(* since a read of the slot in the middle of it returns part old, part new *)
(* bytes, and the sync after it is a third.                                *)
(***************************************************************************)
EXTENDS CndbFormat

CONSTANTS Proc,
          Writers,  \* the processes that append and commit
          Orderly,  \* processes coordinate outside cndb: see MayOpen
          MaxFaults \* bound: I/O errors in a behaviour

ASSUME SharedAssumption ==
    Writers \subseteq Proc /\ Orderly \in BOOLEAN /\ MaxFaults \in Nat

VARIABLES file,
          pc,       \* pc[p]: where p is in open or commit
          file_len, \* file_len[p]: the length that p's open took
          handle,   \* handle[p]: the fields of p's StorageEngine
          attempts, \* history: the headers written, each with what it leads to
          returned, \* history: the attempts up to the last that returned Ok
          since,    \* since[p]: history, returned when p's open began
          seen,     \* seen[p]: history, attempts made when p's open began
          faults

openVars == <<file_len, since, seen>>
history == <<attempts, returned>>
vars == <<file, pc, handle, openVars, history, faults>>

Steps == {"closed", "initialize", "load", "load_index", "idle",
          "write_header", "header_half_written", "sync_header"}

Handle == [header : Header, slots : [Slot -> Header \cup {NoHeader}],
           index : MasterIndex, end : LOG_START .. FileCap, dirty : BOOLEAN]

(* The type invariant. *)
TypeOK ==
    /\ file \in [Offset -> Cell]
    /\ pc \in [Proc -> Steps]
    /\ file_len \in [Proc -> 0 .. FileCap]
    /\ handle \in [Proc -> Handle]
    /\ returned \in 0 .. Len(attempts)
    /\ since \in [Proc -> 0 .. returned]
    /\ seen \in [Proc -> 0 .. Len(attempts)]
    /\ faults \in 0 .. MaxFaults

NewHandle == [header |-> InitialHeader, slots |-> [s \in Slot |-> NoHeader],
              index |-> DefaultIndex, end |-> LOG_START, dirty |-> FALSE]

(* f with cells written at offset o. *)
Written(f, cells, o) ==
    [x \in Offset |-> IF x \in o .. o + Len(cells) - 1
                      THEN cells[x - o + 1] ELSE f[x]]

Init ==
    /\ file = [o \in Offset |-> Eof]
    /\ pc = [p \in Proc |-> "closed"]
    /\ file_len = [p \in Proc |-> 0]
    /\ handle = [p \in Proc |-> NewHandle]
    /\ attempts = <<>>
    /\ returned = 0
    /\ since = [p \in Proc |-> 0]
    /\ seen = [p \in Proc |-> 0]
    /\ faults = 0

Goto(p, step) == pc' = [pc EXCEPT ![p] = step]

(* The locals of p's open are gone. *)
Forget(p) ==
    /\ file_len' = [file_len EXCEPT ![p] = 0]
    /\ seen' = [seen EXCEPT ![p] = 0]

(* There is no handle, or none any more. *)
Closes(p) ==
    /\ handle' = [handle EXCEPT ![p] = NewHandle]
    /\ since' = [since EXCEPT ![p] = 0]
    /\ Forget(p)
    /\ Goto(p, "closed")

Fault == faults < MaxFaults /\ faults' = faults + 1

(* A header that leads to x in the file f, or will once it is written. *)
Attempt(h, f, x) == [header |-> h, reads |-> Snapshot(f, x)]

-----------------------------------------------------------------------------
(* open. *)

FileLen == Cardinality({o \in Offset : file[o] # Eof})

(* Processes that coordinate have one write handle open at a time, and do  *)
(* not open a database for reading before its writer has created it.       *)
MayOpen(p) ==
    Orderly => IF p \in Writers
               THEN \A q \in Writers \ {p} : pc[q] = "closed"
               ELSE FileLen > 0

OpenStat(p) ==
    /\ pc[p] = "closed" /\ MayOpen(p)
    /\ file_len' = [file_len EXCEPT ![p] = FileLen]
    /\ since' = [since EXCEPT ![p] = returned]
    /\ seen' = [seen EXCEPT ![p] = Len(attempts)]
    /\ Goto(p, IF FileLen > 0 THEN "load" ELSE "initialize")
    /\ UNCHANGED <<file, handle, history, faults>>

(* The first header region in the file starts its history. *)
Created(f) ==
    IF attempts = <<>> THEN <<Attempt(InitialHeader, f, DefaultIndex)>> ELSE attempts

(* Nothing is checked again: what the file holds by now is overwritten. *)
Initialize(p) ==
    /\ pc[p] = "initialize"
    /\ file' = Written(file, HeaderRegion, 0)
    /\ handle' = [handle EXCEPT ![p].slots[0] = InitialHeader]
    /\ attempts' = Created(file')
    /\ returned' = IF attempts = <<>> THEN 1 ELSE returned
    /\ Goto(p, "idle")
    /\ UNCHANGED <<openVars, faults>>

(* The write fails after some cells, or the sync after all of them. *)
InitializeError(p) ==
    /\ pc[p] = "initialize"
    /\ \E k \in 0 .. Len(HeaderRegion) :
          /\ file' = Written(file, SubSeq(HeaderRegion, 1, k), 0)
          /\ attempts' = IF k = Len(HeaderRegion) THEN Created(file') ELSE attempts
    /\ Fault
    /\ Closes(p)
    /\ UNCHANGED returned

(* Mutant: the log has to end before the end of the file. *)
LogEndsBeforeFile(h, len) == h.log_end < len

LogInFile(h, len) == h.log_end <= len

(* Whether the reads that come next satisfy load. *)
Accepts(p) ==
    CASE pc[p] = "load" ->
            /\ file_len[p] >= LOG_START
            /\ Valid(decode_slots(file)) # {}
            /\ LogInFile(LiveHeader(file), file_len[p])
      [] pc[p] = "load_index" ->
            LET h == handle[p].header
            IN h.master_len = 0 \/ HasMaster(file, h.master_ptr)
      [] OTHER -> FALSE

LoadHeaders(p) ==
    /\ pc[p] = "load" /\ Accepts(p)
    /\ handle' = [handle EXCEPT ![p].slots = decode_slots(file),
                                ![p].header = LiveHeader(file)]
    /\ Goto(p, "load_index")
    /\ UNCHANGED <<file, openVars, history, faults>>

(* Mutant: the handle appends from the start of the log. *)
LoadIndexForgetsEnd(p) ==
    /\ pc[p] = "load_index" /\ Accepts(p)
    /\ handle' = [handle EXCEPT ![p].index = load_index(file, handle[p].header)]
    /\ Forget(p)
    /\ Goto(p, "idle")
    /\ UNCHANGED <<file, since, history, faults>>

LoadIndex(p) ==
    /\ pc[p] = "load_index" /\ Accepts(p)
    /\ LET h == handle[p].header
       IN handle' = [handle EXCEPT ![p].index = load_index(file, h),
                                   ![p].end = h.log_end]
    /\ Forget(p)
    /\ Goto(p, "idle")
    /\ UNCHANGED <<file, since, history, faults>>

LoadRejected(p) ==
    /\ pc[p] \in {"load", "load_index"} /\ ~Accepts(p)
    /\ Closes(p)
    /\ UNCHANGED <<file, history, faults>>

-----------------------------------------------------------------------------
(* append, tombstone and commit. *)

(* append_raw, with the index the caller leaves. *)
append_raw(p, kind, payload, index) ==
    LET cells == record_cells(kind, payload)
        end == handle[p].end
    IN /\ Len(payload) <= MaxRecordLen
       /\ end + Len(cells) <= FileCap
       /\ file' = Written(file, cells, end)
       /\ handle' = [handle EXCEPT ![p].end = end + Len(cells),
                                   ![p].dirty = TRUE,
                                   ![p].index = index]
       /\ UNCHANGED <<openVars, history, faults>>

(* A proper prefix of the record is written before the error, and end does *)
(* not move.  A full device is no fault: it fails every write beyond it.   *)
append_raw_error(p, kind, payload) ==
    LET cells == record_cells(kind, payload)
        end == handle[p].end
    IN /\ Len(payload) <= MaxRecordLen
       /\ IF end + Len(cells) <= FileCap THEN Fault ELSE UNCHANGED faults
       /\ \E k \in 0 .. Len(cells) - 1 :
             /\ end + k <= FileCap
             /\ file' = Written(file, SubSeq(cells, 1, k), end)
       /\ UNCHANGED <<handle, openVars, history>>

Append_(p, d) ==
    LET h == handle[p]
    IN /\ pc[p] = "idle" /\ p \in Writers /\ h.index.next_doc_id <= MaxDocId
       /\ append_raw(p, "Blob", doc_payload(d), InsertNew(h.index, h.end))
       /\ UNCHANGED pc

AppendError(p, d) ==
    /\ pc[p] = "idle" /\ p \in Writers
    /\ append_raw_error(p, "Blob", doc_payload(d))
    /\ UNCHANGED pc

Tombstone(p, id) ==
    LET x == handle[p].index
    IN /\ pc[p] = "idle" /\ p \in Writers /\ id \in live_ids(x)
       /\ append_raw(p, "Tombstone", tombstone_payload(id),
                     [x EXCEPT !.dead = @ \cup {id}])
       /\ UNCHANGED pc

TombstoneError(p, id) ==
    /\ pc[p] = "idle" /\ p \in Writers /\ id \in live_ids(handle[p].index)
    /\ append_raw_error(p, "Tombstone", tombstone_payload(id))
    /\ UNCHANGED pc

(* A failed sync of the records, before this, returns with nothing changed. *)
CommitAppendMaster(p) ==
    LET x == handle[p].index
    IN /\ pc[p] = "idle" /\ handle[p].dirty
       /\ append_raw(p, "MasterIndex", index_encode(x), x)
       /\ Goto(p, "write_header")

CommitMasterError(p) ==
    /\ pc[p] = "idle" /\ handle[p].dirty
    /\ append_raw_error(p, "MasterIndex", index_encode(handle[p].index))
    /\ UNCHANGED pc

(* Mutant: the log is said to end one cell after its master index. *)
HeaderPastEnd(h) ==
    [generation |-> h.header.generation + 1,
     master_ptr |-> h.end - EncodedLen(h.index) - RECORD_HEADER_SIZE,
     master_len |-> EncodedLen(h.index),
     log_end |-> h.end + 1]

NextHeader(h) ==
    [generation |-> h.header.generation + 1,
     master_ptr |-> h.end - EncodedLen(h.index) - RECORD_HEADER_SIZE,
     master_len |-> EncodedLen(h.index),
     log_end |-> h.end]

CommitHeaderBegins(p) ==
    /\ pc[p] = "write_header"
    /\ file' = [file EXCEPT ![victim_slot(handle[p].slots)] = Torn]
    /\ Goto(p, "header_half_written")
    /\ UNCHANGED <<handle, openVars, history, faults>>

(* From here on open finds the new header. *)
CommitHeaderEnds(p) ==
    LET h == handle[p]
    IN /\ pc[p] = "header_half_written"
       /\ file' = [file EXCEPT ![victim_slot(h.slots)] = header_encode(NextHeader(h))]
       /\ attempts' = Append(attempts, Attempt(NextHeader(h), file, h.index))
       /\ Goto(p, "sync_header")
       /\ UNCHANGED <<handle, openVars, returned, faults>>

CommitReturns(p) ==
    LET next == NextHeader(handle[p])
        slot == victim_slot(handle[p].slots)
    IN /\ pc[p] = "sync_header"
       /\ handle' = [handle EXCEPT ![p].header = next,
                                   ![p].slots[slot] = next,
                                   ![p].dirty = FALSE]
       /\ returned' = Len(attempts)
       /\ Goto(p, "idle")
       /\ UNCHANGED <<file, openVars, attempts, faults>>

(* Mutant: a failed commit takes its log back. *)
CommitErrorRollsBack(p) ==
    /\ pc[p] \in {"write_header", "sync_header"}
    /\ Fault
    /\ handle' = [handle EXCEPT ![p].end = handle[p].header.log_end,
                                ![p].index = load_index(file, handle[p].header)]
    /\ Goto(p, "idle")
    /\ UNCHANGED <<file, openVars, history>>

(* The sync of the master index, the write of the header (which then wrote *)
(* nothing) or its sync fails: commit returns with the handle as it was    *)
(* once the master index was appended, after the last of them behind the   *)
(* file.                                                                   *)
CommitError(p) ==
    /\ pc[p] \in {"write_header", "sync_header"}
    /\ Fault
    /\ Goto(p, "idle")
    /\ UNCHANGED <<file, handle, openVars, history>>

(* The handle is dropped, or its process killed between two system calls. *)
Drop(p) ==
    /\ pc[p] \in {"idle", "write_header", "sync_header"}
    /\ Closes(p)
    /\ UNCHANGED <<file, history, faults>>

Open(p) ==
    \/ OpenStat(p) \/ Initialize(p) \/ InitializeError(p)
    \/ LoadHeaders(p) \/ LoadIndex(p) \/ LoadRejected(p)

Commit(p) ==
    \/ CommitAppendMaster(p) \/ CommitMasterError(p)
    \/ CommitHeaderBegins(p) \/ CommitHeaderEnds(p)
    \/ CommitReturns(p) \/ CommitError(p)

Next ==
    \E p \in Proc :
        \/ Open(p) \/ Commit(p) \/ Drop(p)
        \/ \E d \in Doc : Append_(p, d) \/ AppendError(p, d)
        \/ \E id \in DocId : Tombstone(p, id) \/ TombstoneError(p, id)

Spec == Init /\ [][Next]_vars

(* A reader that opens again whenever open fails, and is not killed within *)
(* it.                                                                     *)
FairSpec == Spec /\ \A p \in Proc \ Writers : WF_vars(Open(p))

-----------------------------------------------------------------------------
(* Properties. *)

(* The attempt that a header belongs to, at least the i-th. *)
IsAttempt(h, i) == \E j \in DOMAIN attempts : i <= j /\ attempts[j].header = h

(* At every moment, in the middle of a header write and between a commit   *)
(* that failed and its retry, the file opens to what the last commit that  *)
(* returned Ok saved or what a later attempt did, and to all of it: no     *)
(* process, and no failed call, takes a committed document away            *)
(* (engine.rs open, commit).                                               *)
CommittedSurvives ==
    attempts # <<>> =>
        /\ Loadable(file)
        /\ LET h == LiveHeader(file)
           IN /\ IsAttempt(h, returned)
              /\ \A i \in DOMAIN attempts : attempts[i].header = h =>
                    Snapshot(file, load_index(file, h)) = attempts[i].reads

(* What a handle that writes nothing reads is, for as long as it stays     *)
(* open, what the attempt whose header it opened was to save, though that  *)
(* commit may have failed and its retry taken over its generation and its  *)
(* slot, and however many commits, abandoned appends and new writers       *)
(* follow: readers need no lock (engine.rs read_record, commit).           *)
SnapshotsAreStable ==
    \A p \in Proc :
        LET h == handle[p]
        IN pc[p] = "idle" /\ ~h.dirty =>
              /\ IsAttempt(h.header, 1)
              /\ \A i \in DOMAIN attempts : attempts[i].header = h.header =>
                    Snapshot(file, h.index) = attempts[i].reads

(* An open that begins after a commit has returned Ok sees that commit or  *)
(* a later attempt, though the headers may be read in the middle of the    *)
(* next one or after it has failed (engine.rs load).                       *)
OpensAreFresh ==
    \A p \in Proc : pc[p] = "idle" => IsAttempt(handle[p].header, since[p])

(* open fails, once the database is created, only when a header written    *)
(* since it began overtook it, by a commit that returned Ok or one that    *)
(* failed: the log it describes reaches beyond the length taken before     *)
(* (engine.rs load).                                                       *)
FailsOnlyIfOvertaken ==
    [][attempts # <<>> =>
         \A p \in Proc :
            pc[p] \in {"load", "load_index"} /\ pc'[p] = "closed"
               => seen[p] < Len(attempts)]_vars

(* A reader that retries gets in once the writer pauses: the attempts of a *)
(* behaviour are bounded by the size of the file, its opens are not.       *)
ReaderGetsIn ==
    \A p \in Proc \ Writers :
        pc[p] = "closed" /\ attempts # <<>> ~> pc[p] = "idle"
=============================================================================
