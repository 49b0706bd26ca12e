-------------------------- MODULE ClientInvariant ---------------------------
(***************************************************************************)
(* The inductive invariants behind the public handle.  While nothing       *)
(* damages the file: what it holds for a handle, and for every header a    *)
(* crash may leave in it, is what callers inserted, and what a commit      *)
(* acknowledged is under each of the headers that a reopen may choose.     *)
(* And of any file: what can still be read of it is what was inserted.     *)
(***************************************************************************)
EXTENDS CndbClient, EngineInvariant

(* The documents that the index x knows in the file f are those of ins. *)
Holds(f, x, ins) ==
    \A id \in DocId :
        IF id \in Known(x)
        THEN /\ ins[id] \in Doc
             /\ read_record_at(f, x.offsets[id]).payload = doc_payload(ins[id])
        ELSE ins[id] = Nothing

(* What the histories are about. *)
HistoryTypeOK ==
    /\ inserted \in [DocId -> Doc \cup {Nothing}]
    /\ saved \in [Offset -> [DocId -> Doc \cup {Nothing}]]
    /\ acked \subseteq DocId

(* The handle's index leads to what was inserted with it. *)
HandleHolds == Holds(file, index, inserted)

(* Every header the medium may hold leads to what was saved with its       *)
(* master index, which lies in the header's own log.                       *)
HeadersHold ==
    \A s \in Slot : \A c \in disk[s] :
        c.tag = "header" =>
            /\ c.header.master_ptr < c.header.log_end
            /\ Holds(file, load_index(file, c.header), saved[c.header.master_ptr])

(* A database without a master index has no documents. *)
FirstIsEmpty == saved[0] = [id \in DocId |-> Nothing]

(* No header the medium may hold leads to the master index of a commit     *)
(* that has not written its header yet.                                    *)
MasterIsNew ==
    pc \in {"sync_master", "write_header"} => HeadersWithin(master_ptr)

(* The header c leads to every document that was acknowledged. *)
Acknowledges(c) ==
    c.tag = "header" /\ acked \subseteq Known(load_index(file, c.header))

(* One slot is sure to lead to every acknowledged document, and the other  *)
(* one does too or is older.                                               *)
AckedAreDurable ==
    acked # {} =>
        \E s \in Slot :
            /\ \A c \in disk[s] : Acknowledges(c)
            /\ \A t \in Slot \ {s} : \A d \in disk[t] :
                  d.tag = "header" =>
                      \/ Acknowledges(d)
                      \/ \A c \in disk[s] : d.header.generation < c.header.generation

(* So does the header of the handle, and so does its index. *)
HandleAcked ==
    IsOpen => /\ acked \subseteq Known(index)
              /\ acked \subseteq Known(load_index(file, header))

(* With RecoveryInv and CommitInv the inductive invariant behind what a    *)
(* caller reads (api.rs insert, get and commit), of a file whose medium    *)
(* does what it should.                                                    *)
HistoryInv ==
    /\ HistoryTypeOK
    /\ HandleHolds /\ HeadersHold /\ FirstIsEmpty /\ MasterIsNew
    /\ AckedAreDurable /\ HandleAcked

ClientInv == damages = 0 => RecoveryInv /\ CommitInv /\ HistoryInv

-----------------------------------------------------------------------------
(* What is left of it when the medium damages the file. *)

(* The record at o is one of that payload, unless its frame is damaged. *)
Frames(f, o, payload) ==
    \/ f[o] \in {Zero, Torn}
    \/ f[o].tag = "frame" /\ f[o].crc = payload

(* So are the documents of ins that the index x leads to, all below e. *)
DocsLead(f, x, ins, e) ==
    \A id \in Known(x) :
        /\ x.offsets[id] \in LOG_START .. e - 1
        /\ ins[id] \in Doc
        /\ Frames(f, x.offsets[id], doc_payload(ins[id]))

(* The frame at o, unless damaged, is that of an index which leads there. *)
MasterLeads(f, o, ins, e) ==
    \/ f[o] \in {Zero, Torn}
    \/ /\ f[o].tag = "frame" /\ IsEncodedIndex(f[o].crc)
       /\ DocsLead(f, f[o].crc[1].index, ins, e)

(* Every header the medium may hold leads, if anywhere, to what was saved  *)
(* with its master index, in a log that is synced.                         *)
HeadersLead ==
    \A s \in Slot : \A c \in disk[s] :
        LET h == c.header
        IN c.tag = "header" =>
              /\ h.master_ptr < h.log_end
              /\ \A o \in LOG_START .. h.log_end - 1 : o \notin unsynced
              /\ h.master_len # 0 =>
                    /\ LOG_START <= h.master_ptr
                    /\ MasterLeads(file, h.master_ptr, saved[h.master_ptr], h.log_end)

(* A slot that reads as a header reads as the one of the longest log.      *)
CacheIsLongest ==
    \A s \in Slot : \A c \in disk[s] :
        c.tag = "header" => /\ file[s].tag = "header"
                            /\ c.header.log_end <= file[s].header.log_end

(* No damage gives a file that looks new. *)
FileStands ==
    SyncedIsCached /\ SlotsOrdered /\ CacheIsLongest /\ NewIsEmpty

(* The slot of the handle's header holds it or nothing; its index leads to *)
(* what was inserted, below the next append.                               *)
HandleStands ==
    IF IsOpen
    THEN /\ file[live_slot] \in {header_encode(header), Zero, Torn}
         /\ slots[live_slot] = header
         /\ \A s \in Valid(slots) \ {live_slot} :
               slots[s].generation < header.generation
         /\ HeadersWithin(end)
         /\ DocsLead(file, index, inserted, end)
    ELSE index = DefaultIndex

(* Before the header of a commit is written, the master index that it is   *)
(* to lead to is there, beyond the log of every other header.              *)
MasterStands ==
    /\ pc \in {"sync_master", "write_header"} =>
          /\ master_ptr \in LOG_START .. end - 1
          /\ file[master_ptr] = encode_frame("MasterIndex", index_encode(index))
          /\ HeadersWithin(master_ptr)
    /\ pc = "write_header" => unsynced = {}
    /\ pc = "sync_header" => file[victim_slot(slots)] = header_encode(NextHeader)

(* The inductive invariant of any file, damaged or not: a header, a master *)
(* index and a record are what a handle wrote for the documents it was     *)
(* given, or they fail to decode (header.rs decode, record.rs              *)
(* verify_payload, index.rs decode).                                       *)
DamageInv ==
    /\ HistoryTypeOK
    /\ FileStands /\ HeadersLead
    /\ HandleUnused /\ HandleCreating /\ HandleStands /\ MasterStands
=============================================================================
