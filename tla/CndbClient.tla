----------------------------- MODULE CndbClient -----------------------------
(***************************************************************************)
(* The public handle (src/api.rs) and the document codec                   *)
(* (src/document/codec.rs) over the storage engine, with a history of what *)
(* callers were told, and with media that damage what they hold.           *)
(***************************************************************************)
EXTENDS StorageEngine

CONSTANTS Refused,    \* JSON values to_bson_bytes refuses, see below
          MaxDamages  \* bound: cells the medium damages in a behaviour

ASSUME ClientAssumption ==
    /\ Refused \cap Doc = {}
    /\ MaxDamages \in Nat
    /\ \A d \in Doc : DocLen[d] > 0  \* BSON has no document of no bytes
    /\ AppendKinds = {"Blob"}

VARIABLES inserted, \* inserted[id]: what the handle, or one before it, stored
          saved,    \* saved[o]: inserted, when a commit's header came to lead
                    \* to its master index at o
          acked,    \* ids inserted before a commit that returned Ok
          damages   \* cells damaged so far

history == <<inserted, saved, acked, damages>>

Nothing == [tag |-> "nothing"]

ClientInit ==
    /\ Init
    /\ inserted = [id \in DocId |-> Nothing]
    /\ saved = [o \in Offset |-> inserted]
    /\ acked = {}
    /\ damages = 0

-----------------------------------------------------------------------------
(* The codec. *)

(* to_bson_bytes: a document becomes its doc_payload; a value that is not  *)
(* an object, or that the bson crate cannot encode, is an error.           *)
encodable(value) == value \in Doc

Bson == [tag |-> "bson"]

(* No document is mistaken for an error, or for none. *)
ASSUME ResultAssumption ==
    {Nothing, Bson, Deleted, NotFound, Unreadable} \cap Doc = {}

(* Only a whole encoding decodes, and to what was encoded. *)
from_bson_bytes(bytes) ==
    IF \E d \in Doc : bytes = doc_payload(d)
    THEN CHOOSE d \in Doc : bytes = doc_payload(d)
    ELSE Bson

-----------------------------------------------------------------------------
(* The handle. *)

insert(value) ==
    /\ encodable(value)
    /\ Append_("Blob", value)
    /\ inserted' = [inserted EXCEPT ![index.next_doc_id] = value]
    /\ UNCHANGED <<saved, acked, damages>>

(* Nothing is written and no id is used up. *)
insert_refused(value) ==
    /\ pc = "idle" /\ ~encodable(value)
    /\ UNCHANGED <<vars, history>>

get(id) ==
    LET r == read_record(file, index, id)
    IN IF r \in {Deleted, NotFound, Unreadable} THEN r
       ELSE from_bson_bytes(r.payload)

delete(id) ==
    /\ Tombstone(id) \/ TombstoneError(id) \/ TombstoneMissing(id)
    /\ UNCHANGED history

len == live_count(index)
is_empty == len = 0
ids == live_ids(index)

open ==
    \/ /\ OpenCreate \/ OpenCreateError \/ InitializeSync \/ InitializeSyncError
          \/ OpenRejected
       /\ UNCHANGED history
    \/ /\ OpenLoad
       /\ inserted' = saved[header'.master_ptr]
       /\ UNCHANGED <<saved, acked, damages>>

commit ==
    \/ /\ CommitWriteHeader
       /\ saved' = [saved EXCEPT ![master_ptr] = inserted]
       /\ UNCHANGED <<inserted, acked, damages>>
    \/ /\ CommitSyncHeader
       /\ acked' = acked \cup Known(index)
       /\ UNCHANGED <<inserted, saved, damages>>
    \/ /\ \/ CommitClean \/ CommitSyncRecords \/ CommitAppendMaster
          \/ CommitSyncMaster \/ CommitMasterTooLarge \/ CommitMasterError
          \/ CommitHeaderError \/ CommitSyncError
       /\ UNCHANGED history

Closes ==
    /\ Drop \/ PowerLoss
    /\ inserted' = [id \in DocId |-> Nothing]
    /\ UNCHANGED <<saved, acked, damages>>

(* The medium ruins a cell while no call is under way: it reads as zeros   *)
(* or as bytes nobody wrote.                                               *)
Damage ==
    /\ damages < MaxDamages /\ pc \in {"closed", "idle"}
    /\ \E o \in Offset, c \in {Zero, Torn} :
          /\ file[o] # Eof
          /\ file' = [file EXCEPT ![o] = c]
          /\ disk' = [disk EXCEPT ![o] = {c}]
          /\ unsynced' = unsynced \ {o}
    /\ damages' = damages + 1
    /\ UNCHANGED <<pc, handleVars, faults, losses, inserted, saved, acked>>

ClientNext ==
    \/ open \/ commit \/ Closes \/ Damage
    \/ \E value \in Doc \cup Refused : insert(value) \/ insert_refused(value)
    \/ \E d \in Doc : (AppendError("Blob", d) \/ AppendTooLarge(d)) /\ UNCHANGED history
    \/ \E id \in DocId : delete(id)

ClientSpec == ClientInit /\ [][ClientNext]_<<vars, history>>

-----------------------------------------------------------------------------
(* Properties. *)

(* While nothing is damaged, a handle reads back exactly what was          *)
(* inserted: its own uncommitted documents too, and those of the handles   *)
(* before it that were committed, after any failed calls and crashes; and  *)
(* len and is_empty agree with what get returns (api.rs get, len).         *)
ReadsWhatWasInserted ==
    pc = "idle" /\ damages = 0 =>
        /\ \A id \in DocId :
              get(id) = IF id \in ids THEN inserted[id]
                        ELSE IF inserted[id] = Nothing THEN NotFound ELSE Deleted
        /\ len = Cardinality({id \in DocId : get(id) \in Doc})
        /\ is_empty <=> \A id \in DocId : get(id) \notin Doc

(* While nothing is damaged, the id of a document that a commit            *)
(* acknowledged is never returned by insert again, whatever is deleted,    *)
(* crashes or fails (index.rs allocate_id).                                *)
AckedIdsAreUnique ==
    pc = "idle" /\ damages = 0 => index.next_doc_id \notin acked

(* However the medium damages the file, get returns the document that was  *)
(* inserted under the id, or an error, never another document and never    *)
(* one that was not inserted (record.rs verify_payload, engine.rs load).   *)
NeverAnotherDocument ==
    pc = "idle" =>
        \A id \in DocId : get(id) \in Doc => get(id) = inserted[id]

(* verify reports every cell of the committed log that holds foreign       *)
(* bytes, wherever in a record it lies and whatever is zeroed beside it    *)
(* (engine.rs verify).                                                     *)
VerifyFindsDamage ==
    pc = "idle" /\ (\E o \in LOG_START .. header.log_end - 1 : file[o] = Torn)
        => VerifyError \in verify(file, header.log_end)

-----------------------------------------------------------------------------
(* What the comments of the code say, where the code does otherwise. *)

(* api.rs says of verify that it checks the checksum of every committed    *)
(* record: when it succeeds, every committed document is still there.      *)
VerifiedMeansIntact ==
    pc = "idle" /\ ~dirty /\ VerifyError \notin verify(file, header.log_end)
        => \A id \in ids : get(id) \in Doc
=============================================================================
