----------------------------- MODULE CndbFormat -----------------------------
(***************************************************************************)
(* The .cndb file format: header slots, framed records and the master      *)
(* index, as operators on the contents of a file.                          *)
(*                                                                         *)
(* A file is a function from offsets to cells.  A cell is the unit that is *)
(* written whole or torn: a 64-byte header slot, a 9-byte record frame, or *)
(* a block of up to CellBytes payload bytes.  Offsets count cells, so      *)
(* LOG_START is 2 (two header slots) and RECORD_HEADER_SIZE is 1.          *)
(*                                                                         *)
(* CRC32 is taken to be collision free: a checksum is the value it was     *)
(* computed from.                                                          *)
(***************************************************************************)
EXTENDS Integers, Sequences, FiniteSets

CONSTANTS Doc,          \* documents, told apart only by equality
          DocLen,       \* length in cells of each document's encoding
          CellBytes,    \* payload bytes per cell
          MaxRecordLen, \* MAX_RECORD_LEN, in cells
          FileCap,      \* cells the storage device has room for
          MaxDocId      \* bound: document ids handed out are at most this

ASSUME FormatAssumption ==
    /\ DocLen \in [Doc -> Nat]
    /\ CellBytes \in Nat \ {0}
    /\ MaxRecordLen \in Nat
    /\ FileCap \in Nat /\ FileCap >= 2
    /\ MaxDocId \in Nat

HEADER_SLOTS == 2
LOG_START == HEADER_SLOTS
RECORD_HEADER_SIZE == 1

Slot == 0 .. HEADER_SLOTS - 1
Offset == 0 .. FileCap - 1
DocId == 1 .. MaxDocId
RecordKind == {"Node", "Edge", "Blob", "Tombstone", "MasterIndex"}

-----------------------------------------------------------------------------
(* The master index.  offsets is total on DocId: NoOffset marks the ids    *)
(* the code's map does not contain (offset 0 is a header slot, so no       *)
(* document is ever stored there).                                         *)

NoOffset == 0

MasterIndex == [offsets : [DocId -> Nat],
                dead : SUBSET DocId,
                next_doc_id : 1 .. MaxDocId + 1]

DefaultIndex == [offsets |-> [id \in DocId |-> NoOffset],
                 dead |-> {},
                 next_doc_id |-> 1]

Known(index) == {id \in DocId : index.offsets[id] # NoOffset}

dead_count(index) == Cardinality(index.dead)

live_count(index) == Cardinality(Known(index)) - dead_count(index)

live_ids(index) == Known(index) \ index.dead

(* allocate_id followed by insert, as StorageEngine::append calls them. *)
InsertNew(index, offset) ==
    [offsets |-> [index.offsets EXCEPT ![index.next_doc_id] = offset],
     dead |-> index.dead,
     next_doc_id |-> index.next_doc_id + 1]

(* Bytes of the bincode form: three u64 (two lengths and next_doc_id), 16  *)
(* bytes per offset and 8 per dead id; EncodedLen rounds them up to cells. *)
EncodedBytes(index) ==
    24 + 16 * Cardinality(Known(index)) + 8 * Cardinality(index.dead)

EncodedLen(index) == 1 + (EncodedBytes(index) - 1) \div CellBytes

-----------------------------------------------------------------------------
(* Cells. *)

Eof  == [tag |-> "eof"]     \* beyond the end of the file
Zero == [tag |-> "zero"]    \* a hole: zero bytes
Torn == [tag |-> "torn"]    \* part old, part new bytes

DocWord(d, i)   == [tag |-> "doc", doc |-> d, part |-> i]
IdWord(id)      == [tag |-> "id", id |-> id]
IndexWord(x, i) == [tag |-> "index", index |-> x, part |-> i]

Word == [tag : {"doc"}, doc : Doc, part : Nat]
          \cup [tag : {"id"}, id : DocId]
          \cup [tag : {"index"}, index : MasterIndex, part : Nat]

doc_payload(d) == [i \in 1 .. DocLen[d] |-> DocWord(d, i)]

index_encode(index) ==
    [i \in 1 .. EncodedLen(index) |-> IndexWord(index, i)]

tombstone_payload(id) == <<IdWord(id)>>

Header == [generation : Nat, master_ptr : Nat, master_len : Nat,
           log_end : LOG_START .. FileCap]

InitialHeader == [generation |-> 0, master_ptr |-> 0,
                  master_len |-> 0, log_end |-> LOG_START]

header_encode(h) == [tag |-> "header", header |-> h]

encode_frame(kind, payload) ==
    [tag |-> "frame", len |-> Len(payload), kind |-> kind, crc |-> payload]

(* What initialize lays down: generation 0 in slot 0, zeros in slot 1. *)
HeaderRegion == <<header_encode(InitialHeader), Zero>>

(* What append_raw writes. *)
record_cells(kind, payload) == <<encode_frame(kind, payload)>> \o payload

HeaderCell == [tag : {"header"}, header : Header]
FrameCell == {c \in [tag : {"frame"}, len : Nat, kind : RecordKind, crc : Seq(Word)] :
                c.len = Len(c.crc)}

Cell == {Eof, Zero, Torn} \cup HeaderCell \cup FrameCell \cup Word

-----------------------------------------------------------------------------
(* Header slots. *)

NoHeader == [tag |-> "none"]

(* Header::decode: magic, checksum and version reject anything but a whole *)
(* header; the Option the caller keeps is NoHeader then.                   *)
header_decode(c) == IF c.tag = "header" THEN c.header ELSE NoHeader

decode_slots(f) == [s \in Slot |-> header_decode(f[s])]

Valid(slots) == {s \in Slot : slots[s] # NoHeader}

(* Mutant: open takes the oldest valid header. *)
SelectOldest(slots) ==
    CHOOSE s \in Valid(slots) :
        \A t \in Valid(slots) : slots[s].generation <= slots[t].generation

(* select_live: the highest generation; max_by_key keeps the last of equals. *)
select_live(slots) ==
    CHOOSE s \in Valid(slots) :
        \A t \in Valid(slots) \ {s} :
            \/ slots[t].generation < slots[s].generation
            \/ slots[t].generation = slots[s].generation /\ t < s

(* Mutant: a commit goes over the newest header. *)
VictimNewest(slots) ==
    IF Valid(slots) # Slot
    THEN CHOOSE s \in Slot \ Valid(slots) : TRUE
    ELSE CHOOSE s \in Slot :
            \A t \in Slot : slots[t].generation <= slots[s].generation

(* victim_slot: the first invalid slot, else the first of the oldest. *)
victim_slot(slots) ==
    IF Valid(slots) # Slot
    THEN CHOOSE s \in Slot \ Valid(slots) :
            \A t \in Slot \ Valid(slots) : s <= t
    ELSE CHOOSE s \in Slot :
            \A t \in Slot \ {s} :
                \/ slots[s].generation < slots[t].generation
                \/ slots[s].generation = slots[t].generation /\ s < t

-----------------------------------------------------------------------------
(* Reading records back. *)

Unreadable == [tag |-> "unreadable"]

(* decode_frame.  Nine zero bytes are a well-formed frame: length 0, kind  *)
(* tag 0 (Node) and the CRC32 of the empty payload, which is 0.            *)
decode_frame(c) ==
    CASE c.tag = "frame" -> [len |-> c.len, kind |-> c.kind, crc |-> c.crc]
      [] c.tag = "zero"  -> [len |-> 0, kind |-> "Node", crc |-> <<>>]
      [] OTHER           -> Unreadable

(* Mutant: the checksum is not compared; bytes nobody wrote may then read   *)
(* as any document.                                                        *)
ReadUnchecked(f, o) ==
    LET frame == IF o \in Offset THEN decode_frame(f[o]) ELSE Unreadable
        read(i) == IF f[o + i] = Torn THEN DocWord(CHOOSE d \in Doc : TRUE, i)
                   ELSE f[o + i]
    IN IF frame # Unreadable /\ o + frame.len \in Offset
       THEN [kind |-> frame.kind, payload |-> [i \in 1 .. frame.len |-> read(i)]]
       ELSE Unreadable

(* read_record_at: a whole frame of an admissible length, a payload that   *)
(* ends inside the file, and a checksum that matches it.                   *)
read_record_at(f, o) ==
    LET frame == IF o \in Offset THEN decode_frame(f[o]) ELSE Unreadable
        ok == /\ frame # Unreadable
              /\ frame.len <= MaxRecordLen
              /\ o + frame.len \in Offset
              /\ \A i \in 1 .. frame.len : f[o + i] = frame.crc[i]
    IN IF ok THEN [kind |-> frame.kind, payload |-> frame.crc] ELSE Unreadable

(* MasterIndex::decode, on a record already read: bincode rejects a        *)
(* payload that does not start with a whole encoding.  What may follow one *)
(* it ignores, but no writer of a master index lets anything follow.       *)
IsEncodedIndex(payload) ==
    /\ payload # <<>>
    /\ payload[1].tag = "index"
    /\ payload = index_encode(payload[1].index)

HasMaster(f, o) ==
    LET r == read_record_at(f, o)
    IN /\ r # Unreadable
       /\ r.kind = "MasterIndex"
       /\ IsEncodedIndex(r.payload)

load_index(f, h) ==
    IF h.master_len = 0
    THEN DefaultIndex
    ELSE read_record_at(f, h.master_ptr).payload[1].index

(* StorageEngine::read_record, through the index x. *)
Deleted  == [tag |-> "deleted"]
NotFound == [tag |-> "not_found"]

read_record(f, x, id) ==
    IF id \in x.dead THEN Deleted
    ELSE IF id \in Known(x) THEN read_record_at(f, x.offsets[id])
    ELSE NotFound

(* All that a handle with the index x can read. *)
Snapshot(f, x) == [docs |-> [id \in DocId |-> read_record(f, x, id)],
                   next |-> x.next_doc_id]

LiveHeader(f) == LET slots == decode_slots(f) IN slots[select_live(slots)]

(* Whether StorageEngine::load accepts the file: both slots are inside it, *)
(* one decodes, the log it describes ends inside the file, and its master  *)
(* index decodes.                                                          *)
Loadable(f) ==
    /\ f[LOG_START - 1] # Eof
    /\ Valid(decode_slots(f)) # {}
    /\ LET h == LiveHeader(f)
       IN /\ h.log_end - 1 \in Offset
          /\ f[h.log_end - 1] # Eof
          /\ h.master_len = 0 \/ HasMaster(f, h.master_ptr)

(* StorageEngine::verify: the offsets of the records walked from LOG_START *)
(* to log_end; VerifyError is among them when the walk fails.              *)
VerifyError == -1

verify(f, log_end) ==
    LET walk[o \in 0 .. FileCap] ==
          IF o = log_end THEN {}
          ELSE LET r == read_record_at(f, o)
               IN IF o > log_end \/ r = Unreadable
                  THEN {VerifyError}
                  ELSE {o} \cup walk[o + RECORD_HEADER_SIZE + Len(r.payload)]
    IN walk[LOG_START]
=============================================================================
