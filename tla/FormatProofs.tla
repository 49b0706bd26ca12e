---------------------------- MODULE FormatProofs ----------------------------
(***************************************************************************)
(* Lemmas on the file format: what its operators return, and when what a   *)
(* file holds can still be read after the file has changed.                *)
(***************************************************************************)
EXTENDS LogInvariant, TLAPS, FiniteSetTheorems

-----------------------------------------------------------------------------
(* Types of the operators of CndbFormat. *)

(* Facts about the constants of the format. *)
LEMMA ConstantTypes ==
    /\ HEADER_SLOTS = 2 /\ LOG_START = 2 /\ RECORD_HEADER_SIZE = 1
    /\ Slot = {0, 1} /\ Slot \subseteq Offset
    /\ FileCap \in Nat /\ FileCap >= 2 /\ MaxDocId \in Nat
  BY FormatAssumption DEF HEADER_SLOTS, LOG_START, RECORD_HEADER_SIZE, Slot, Offset

(* An encoded index takes at least one cell. *)
LEMMA EncodedLenType ==
    ASSUME NEW x \in MasterIndex
    PROVE  EncodedLen(x) \in Nat \ {0}
<1>1. IsFiniteSet(DocId)
  BY ConstantTypes, FS_Interval DEF DocId
<1>2. IsFiniteSet(Known(x)) /\ IsFiniteSet(x.dead)
  BY <1>1, FS_Subset DEF Known, MasterIndex
<1>3. Cardinality(Known(x)) \in Nat /\ Cardinality(x.dead) \in Nat
  BY <1>2, FS_CardinalityType
<1>4. EncodedBytes(x) \in Nat /\ EncodedBytes(x) >= 24
  BY <1>3 DEF EncodedBytes
<1>5. (EncodedBytes(x) - 1) \div CellBytes \in Nat
  BY <1>4, FormatAssumption
<1> QED
  BY <1>5 DEF EncodedLen

(* The default index is an index. *)
LEMMA DefaultIndexType == DefaultIndex \in MasterIndex
  BY ConstantTypes DEF DefaultIndex, MasterIndex, NoOffset

(* Indexing a new document yields an index. *)
LEMMA InsertNewType ==
    ASSUME NEW x \in MasterIndex, x.next_doc_id <= MaxDocId, NEW o \in Nat
    PROVE  InsertNew(x, o) \in MasterIndex
  BY ConstantTypes DEF InsertNew, MasterIndex, DocId

(* The initial header is a header. *)
LEMMA InitialHeaderType == InitialHeader \in Header
  BY ConstantTypes DEF InitialHeader, Header

(* Payloads are sequences of words. *)
LEMMA PayloadTypes ==
    /\ \A d \in Doc : doc_payload(d) \in Seq(Word)
    /\ \A id \in DocId : tombstone_payload(id) \in Seq(Word)
    /\ \A x \in MasterIndex : index_encode(x) \in Seq(Word)
<1>1. ASSUME NEW d \in Doc PROVE doc_payload(d) \in Seq(Word)
  BY FormatAssumption DEF doc_payload, DocWord, Word
<1>2. ASSUME NEW id \in DocId PROVE tombstone_payload(id) \in Seq(Word)
  BY DEF tombstone_payload, IdWord, Word
<1>3. ASSUME NEW x \in MasterIndex PROVE index_encode(x) \in Seq(Word)
  BY EncodedLenType DEF index_encode, IndexWord, Word
<1> QED
  BY <1>1, <1>2, <1>3

(* A record is its frame followed by its payload. *)
LEMMA RecordCellsType ==
    ASSUME NEW kind \in RecordKind, NEW payload \in Seq(Word)
    PROVE  /\ record_cells(kind, payload) \in Seq(Cell)
           /\ Len(record_cells(kind, payload)) = 1 + Len(payload)
<1>1. encode_frame(kind, payload) \in Cell
  BY DEF encode_frame, Cell, FrameCell
<1>2. payload \in Seq(Cell)
  BY DEF Cell
<1> QED
  BY <1>1, <1>2 DEF record_cells

(* An encoded header is a cell. *)
LEMMA HeaderCellType ==
    ASSUME NEW h \in Header
    PROVE  header_encode(h) \in Cell
  BY DEF header_encode, Cell, HeaderCell

(* The cells that hold no data are cells. *)
LEMMA SpecialCells == Eof \in Cell /\ Zero \in Cell /\ Torn \in Cell
  BY DEF Cell

(* Decoding a cell yields a header or none. *)
LEMMA HeaderDecodeType ==
    ASSUME NEW c \in Cell
    PROVE  /\ header_decode(c) \in Header \cup {NoHeader}
           /\ c.tag = "header" => header_decode(c) \in Header
  BY DEF Cell, HeaderCell, FrameCell, Word, Eof, Zero, Torn, header_decode

(* Decoding the two slots yields a header or none for each. *)
LEMMA DecodeSlotsType ==
    ASSUME NEW f \in [Offset -> Cell]
    PROVE  decode_slots(f) \in [Slot -> Header \cup {NoHeader}]
  BY HeaderDecodeType, ConstantTypes DEF decode_slots

(* The live slot holds the highest generation of the valid slots. *)
LEMMA SelectLive ==
    ASSUME NEW sl \in [Slot -> Header \cup {NoHeader}], Valid(sl) # {}
    PROVE  /\ select_live(sl) \in Valid(sl)
           /\ \A t \in Valid(sl) : sl[t].generation <= sl[select_live(sl)].generation
<1> DEFINE P(s) == \A t \in Valid(sl) \ {s} :
                     \/ sl[t].generation < sl[s].generation
                     \/ sl[t].generation = sl[s].generation /\ t < s
<1>1. \A s \in Valid(sl) : s \in {0, 1} /\ sl[s].generation \in Nat
  BY ConstantTypes DEF Valid, Header
<1>2. \E s \in Valid(sl) : P(s)
  <2>1. CASE 0 \notin Valid(sl)
    BY <1>1, <2>1
  <2>2. CASE 1 \notin Valid(sl)
    BY <1>1, <2>2
  <2>3. CASE 0 \in Valid(sl) /\ 1 \in Valid(sl)
    <3>1. CASE sl[0].generation <= sl[1].generation
      <4>1. P(1)
        BY <1>1, <2>3, <3>1
      <4> QED BY <4>1, <2>3
    <3>2. CASE sl[1].generation < sl[0].generation
      <4>1. P(0)
        BY <1>1, <2>3, <3>2
      <4> QED BY <4>1, <2>3
    <3> QED BY <1>1, <2>3, <3>1, <3>2
  <2> QED BY <2>1, <2>2, <2>3
<1>3. select_live(sl) \in Valid(sl) /\ P(select_live(sl))
  <2>1. select_live(sl) = CHOOSE s \in Valid(sl) : P(s)
    BY DEF select_live
  <2> QED BY <1>2, <2>1
<1> QED
  BY <1>1, <1>3

(* Of two valid slots with different generations the victim is the older;  *)
(* an invalid slot is always preferred.                                    *)
LEMMA VictimSlot ==
    ASSUME NEW sl \in [Slot -> Header \cup {NoHeader}]
    PROVE  /\ victim_slot(sl) \in Slot
           /\ \A s \in Valid(sl) :
                (\A t \in Valid(sl) \ {s} : sl[t].generation < sl[s].generation)
                  => victim_slot(sl) # s
<1>1. CASE Valid(sl) # Slot
  <2>1. \E s \in Slot \ Valid(sl) : \A t \in Slot \ Valid(sl) : s <= t
    BY <1>1, ConstantTypes DEF Valid
  <2>2. victim_slot(sl) \in Slot \ Valid(sl)
    BY <1>1, <2>1 DEF victim_slot
  <2> QED BY <2>2
<1>2. CASE Valid(sl) = Slot
  <2> DEFINE Q(s) == \A t \in Slot \ {s} :
                       \/ sl[s].generation < sl[t].generation
                       \/ sl[s].generation = sl[t].generation /\ s < t
  <2>1. \A s \in {0, 1} : sl[s].generation \in Nat
    BY <1>2, ConstantTypes DEF Valid, Header
  <2>2. \E s \in Slot : Q(s)
    <3>1. CASE sl[0].generation <= sl[1].generation
      <4>1. Q(0)
        BY <2>1, <3>1, ConstantTypes
      <4> QED BY <4>1, ConstantTypes
    <3>2. CASE sl[1].generation < sl[0].generation
      <4>1. Q(1)
        BY <2>1, <3>2, ConstantTypes
      <4> QED BY <4>1, ConstantTypes
    <3> QED BY <2>1, <3>1, <3>2
  <2>3. victim_slot(sl) \in Slot /\ Q(victim_slot(sl))
    <3>1. victim_slot(sl) = CHOOSE s \in Slot : Q(s)
      BY <1>2 DEF victim_slot
    <3> QED BY <2>2, <3>1
  <2>4. ASSUME NEW s \in Valid(sl),
               \A t \in Valid(sl) \ {s} : sl[t].generation < sl[s].generation
        PROVE  victim_slot(sl) # s
    <3>1. PICK t \in {0, 1} : t # s
      OBVIOUS
    <3>2. sl[t].generation < sl[s].generation
      BY <1>2, <2>4, <3>1, ConstantTypes
    <3> QED BY <1>2, <2>1, <2>3, <3>1, <3>2, ConstantTypes
  <2> QED BY <2>3, <2>4
<1> QED BY <1>1, <1>2

(* What load finds in a file it accepts is well typed. *)
LEMMA LoadTypes ==
    ASSUME NEW f \in [Offset -> Cell], Loadable(f)
    PROVE  /\ decode_slots(f) \in [Slot -> Header \cup {NoHeader}]
           /\ select_live(decode_slots(f)) \in Slot
           /\ LiveHeader(f) \in Header
           /\ load_index(f, LiveHeader(f)) \in MasterIndex
<1>1. decode_slots(f) \in [Slot -> Header \cup {NoHeader}]
  BY DecodeSlotsType
<1>2. Valid(decode_slots(f)) # {}
  BY DEF Loadable
<1>3. select_live(decode_slots(f)) \in Valid(decode_slots(f))
  BY <1>1, <1>2, SelectLive
<1>4. LiveHeader(f) \in Header
  BY <1>1, <1>3 DEF LiveHeader, Valid
<1>5. load_index(f, LiveHeader(f)) \in MasterIndex
  <2> DEFINE p == LiveHeader(f).master_ptr
  <2>1. CASE LiveHeader(f).master_len = 0
    BY <2>1, DefaultIndexType DEF load_index
  <2>2. CASE LiveHeader(f).master_len # 0
    <3>1. HasMaster(f, p)
      BY <2>2 DEF Loadable
    <3>2. read_record_at(f, p).payload \in Seq(Word)
      <4>1. read_record_at(f, p) # Unreadable
        BY <3>1 DEF HasMaster
      <4>2. p \in Offset /\ decode_frame(f[p]) # Unreadable
        BY <4>1 DEF read_record_at
      <4>3. decode_frame(f[p]).crc \in Seq(Word)
        <5>1. f[p] \in Cell
          BY <4>2
        <5> QED
          BY <4>2, <5>1 DEF decode_frame, Cell, HeaderCell, FrameCell, Word, Eof, Zero, Torn
      <4> QED BY <4>1, <4>2, <4>3 DEF read_record_at
    <3>3. IsEncodedIndex(read_record_at(f, p).payload)
      BY <3>1 DEF HasMaster
    <3>4. read_record_at(f, p).payload[1] \in Word
      BY <3>2, <3>3 DEF IsEncodedIndex
    <3>5. read_record_at(f, p).payload[1].index \in MasterIndex
      BY <3>3, <3>4 DEF IsEncodedIndex, Word
    <3> QED BY <2>2, <3>5 DEF load_index
  <2> QED BY <2>1, <2>2
<1> QED
  BY <1>1, <1>3, <1>4, <1>5 DEF Valid

(* The header region is two cells. *)
LEMMA HeaderRegionType == HeaderRegion \in Seq(Cell) /\ Len(HeaderRegion) = 2
  BY InitialHeaderType, HeaderCellType, SpecialCells DEF HeaderRegion

(* A record has no end-of-file cell. *)
LEMMA RecordCellsNotEof ==
    ASSUME NEW kind \in RecordKind, NEW payload \in Seq(Word)
    PROVE  \A i \in 1 .. Len(record_cells(kind, payload)) :
              record_cells(kind, payload)[i] # Eof
<1>1. encode_frame(kind, payload) # Eof
  BY DEF encode_frame, Eof
<1>2. \A w \in Word : w # Eof
  BY DEF Word, Eof
<1> QED
  BY <1>1, <1>2 DEF record_cells

(* The live header depends on the two slots alone. *)
LEMMA LiveSame ==
    ASSUME NEW f, NEW g, \A s \in Slot : f[s] = g[s]
    PROVE  decode_slots(f) = decode_slots(g) /\ LiveHeader(f) = LiveHeader(g)
<1>1. decode_slots(f) = decode_slots(g)
  BY DEF decode_slots
<1> QED
  BY <1>1 DEF LiveHeader

(* The live header of a file is one of its cells, the newest. *)
LEMMA LiveCell ==
    ASSUME NEW f \in [Offset -> Cell], Valid(decode_slots(f)) # {}
    PROVE  LET s == select_live(decode_slots(f))
           IN /\ s \in Slot
              /\ f[s].tag = "header" /\ f[s].header = LiveHeader(f)
              /\ LiveHeader(f) \in Header
              /\ f[s] = header_encode(LiveHeader(f))
              /\ \A t \in Slot : f[t].tag = "header" =>
                    f[t].header.generation <= LiveHeader(f).generation
<1> DEFINE sl == decode_slots(f)
           s == select_live(sl)
<1>1. sl \in [Slot -> Header \cup {NoHeader}]
  BY DecodeSlotsType
<1>2. s \in Valid(sl) /\ \A t \in Valid(sl) : sl[t].generation <= sl[s].generation
  BY <1>1, SelectLive
<1>3. s \in Slot /\ s \in Offset /\ sl[s] # NoHeader
  BY <1>2, ConstantTypes DEF Valid
<1>4. f[s].tag = "header" /\ sl[s] = f[s].header
  BY <1>3 DEF decode_slots, header_decode
<1>5. LiveHeader(f) = sl[s]
  BY DEF LiveHeader
<1>6. f[s] \in HeaderCell
  BY <1>3, <1>4 DEF Cell, HeaderCell, FrameCell, Word, Eof, Zero, Torn
<1>7. f[s] = header_encode(LiveHeader(f)) /\ LiveHeader(f) \in Header
  BY <1>4, <1>5, <1>6 DEF header_encode, HeaderCell
<1>8. ASSUME NEW t \in Slot, f[t].tag = "header"
      PROVE  f[t].header.generation <= LiveHeader(f).generation
  <2>1. sl[t] = f[t].header
    BY <1>8 DEF decode_slots, header_decode
  <2>2. t \in Offset /\ f[t] \in HeaderCell
    BY <1>8, ConstantTypes DEF Cell, HeaderCell, FrameCell, Word, Eof, Zero, Torn
  <2>3. sl[t] # NoHeader
    BY <2>1, <2>2 DEF HeaderCell, Header, NoHeader
  <2> QED
    BY <1>2, <1>5, <2>1, <2>3 DEF Valid
<1> QED
  BY <1>3, <1>4, <1>5, <1>7, <1>8

-----------------------------------------------------------------------------
(* Reading a record depends on its cells alone. *)

(* A master index starts with a frame, and its record ends in the file. *)
LEMMA MasterShape ==
    ASSUME NEW f \in [Offset -> Cell], NEW p, HasMaster(f, p)
    PROVE  /\ p \in Offset /\ f[p].tag = "frame" /\ f[p].len \in Nat
           /\ p + f[p].len \in Offset
<1>1. read_record_at(f, p) # Unreadable /\ read_record_at(f, p).kind = "MasterIndex"
  BY DEF HasMaster
<1>2. p \in Offset /\ decode_frame(f[p]) # Unreadable
  BY <1>1 DEF read_record_at
<1>3. f[p] \in Cell
  BY <1>2
<1>4. decode_frame(f[p]).kind = "MasterIndex" /\ p + decode_frame(f[p]).len \in Offset
  BY <1>1, <1>2 DEF read_record_at
<1>5. f[p].tag = "frame"
  BY <1>2, <1>4 DEF decode_frame
<1>6. f[p].len \in Nat
  BY <1>3, <1>5 DEF Cell, HeaderCell, FrameCell, Word, Eof, Zero, Torn
<1>7. decode_frame(f[p]).len = f[p].len
  BY <1>5 DEF decode_frame
<1> QED
  BY <1>2, <1>4, <1>5, <1>6, <1>7

(* A master index is still there if no cell of its record changed. *)
LEMMA HasMasterStable ==
    ASSUME NEW f \in [Offset -> Cell], NEW g \in [Offset -> Cell], NEW p,
           HasMaster(f, p), \A o \in p .. p + f[p].len : g[o] = f[o]
    PROVE  HasMaster(g, p) /\ g[p].len = f[p].len
<1>1. /\ p \in Offset /\ f[p].tag = "frame" /\ f[p].len \in Nat
      /\ p + f[p].len \in Offset
  BY MasterShape
<1>2. p \in Int
  BY <1>1 DEF Offset
<1>3. g[p] = f[p]
  BY <1>1, <1>2
<1>4. \A i \in 1 .. f[p].len : g[p + i] = f[p + i]
  BY <1>1, <1>2
<1>5. decode_frame(f[p]).len = f[p].len
  BY <1>1 DEF decode_frame
<1>6. read_record_at(g, p) = read_record_at(f, p)
  BY <1>1, <1>3, <1>4, <1>5 DEF read_record_at
<1> QED
  BY <1>3, <1>6 DEF HasMaster

(* A readable record starts and ends inside the file, and what is read is  *)
(* the kind and checksum of its frame.                                     *)
LEMMA RecordShape ==
    ASSUME NEW f \in [Offset -> Cell], NEW p, read_record_at(f, p) # Unreadable
    PROVE  /\ p \in Offset /\ p \in Nat
           /\ decode_frame(f[p]).len \in Nat
           /\ p + decode_frame(f[p]).len \in Offset
           /\ decode_frame(f[p]).crc \in Seq(Word)
           /\ read_record_at(f, p) = [kind |-> decode_frame(f[p]).kind,
                                     payload |-> decode_frame(f[p]).crc]
           /\ read_record_at(f, p).payload \in Seq(Word)
           /\ Len(read_record_at(f, p).payload) = decode_frame(f[p]).len
<1>1. /\ p \in Offset /\ decode_frame(f[p]) # Unreadable
      /\ p + decode_frame(f[p]).len \in Offset
      /\ read_record_at(f, p) = [kind |-> decode_frame(f[p]).kind,
                                payload |-> decode_frame(f[p]).crc]
  BY DEF read_record_at
<1>2. f[p] \in Cell
  BY <1>1
<1>3. /\ decode_frame(f[p]).len \in Nat /\ decode_frame(f[p]).crc \in Seq(Word)
      /\ decode_frame(f[p]).len = Len(decode_frame(f[p]).crc)
  BY <1>1, <1>2 DEF decode_frame, Cell, HeaderCell, FrameCell, Word, Eof, Zero, Torn
<1> QED
  BY <1>1, <1>3 DEF Offset

(* A record is read the same if no cell of it changed. *)
LEMMA RecordStable ==
    ASSUME NEW f \in [Offset -> Cell], NEW g \in [Offset -> Cell], NEW p, NEW e \in Int,
           RecordWithin(f, p, e), \A o \in LOG_START .. e - 1 : g[o] = f[o]
    PROVE  /\ RecordWithin(g, p, e)
           /\ read_record_at(g, p) = read_record_at(f, p)
           /\ g[p] = f[p]
<1>1. /\ p \in LOG_START .. e - 1 /\ read_record_at(f, p) # Unreadable
      /\ p + decode_frame(f[p]).len < e
  BY DEF RecordWithin
<1>2. /\ p \in Nat /\ p \in Offset
      /\ decode_frame(f[p]).len \in Nat /\ p + decode_frame(f[p]).len \in Offset
  BY <1>1, RecordShape
<1>3. g[p] = f[p]
  BY <1>1
<1>4. ASSUME NEW i \in 1 .. decode_frame(f[p]).len
      PROVE  g[p + i] = f[p + i]
  <2>1. p + i \in LOG_START .. e - 1
    BY <1>1, <1>2, ConstantTypes
  <2> QED
    BY <2>1
<1>5. read_record_at(g, p) = read_record_at(f, p)
  BY <1>2, <1>3, <1>4 DEF read_record_at
<1> QED
  BY <1>1, <1>3, <1>5 DEF RecordWithin

(* A record that ends before e ends before anything after e. *)
LEMMA RecordWithinLonger ==
    ASSUME NEW f \in [Offset -> Cell], NEW p, NEW e \in Int, NEW e2 \in Int,
           e <= e2, RecordWithin(f, p, e)
    PROVE  RecordWithin(f, p, e2)
<1>1. /\ p \in LOG_START .. e - 1 /\ read_record_at(f, p) # Unreadable
      /\ p + decode_frame(f[p]).len < e
  BY DEF RecordWithin
<1>2. p \in Nat /\ decode_frame(f[p]).len \in Nat
  BY <1>1, RecordShape
<1> QED
  BY <1>1, <1>2, ConstantTypes DEF RecordWithin

(* A decoded frame and a record are not the value that stands for neither. *)
LEMMA ReadableRecords ==
    /\ \A l, k, c : [len |-> l, kind |-> k, crc |-> c] # Unreadable
    /\ \A k, c : [kind |-> k, payload |-> c] # Unreadable
<1>1. DOMAIN Unreadable = {"tag"}
  BY DEF Unreadable
<1>2. \A l, k, c : "len" \in DOMAIN [len |-> l, kind |-> k, crc |-> c]
  OBVIOUS
<1>3. \A k, c : "kind" \in DOMAIN [kind |-> k, payload |-> c]
  OBVIOUS
<1> QED
  BY <1>1, <1>2, <1>3

(* A record that was just written can be read. *)
LEMMA RecordWritten ==
    ASSUME NEW f \in [Offset -> Cell], NEW kind \in RecordKind, NEW payload \in Seq(Word),
           NEW o \in Nat, LOG_START <= o, Len(payload) <= MaxRecordLen,
           o + 1 + Len(payload) <= FileCap,
           \A x \in o .. o + Len(payload) : f[x] = record_cells(kind, payload)[x - o + 1]
    PROVE  /\ read_record_at(f, o) = [kind |-> kind, payload |-> payload]
           /\ RecordWithin(f, o, o + 1 + Len(payload))
<1> DEFINE L == Len(payload)
           cells == record_cells(kind, payload)
           frame == encode_frame(kind, payload)
<1>1. L \in Nat /\ \A i \in 1 .. L : cells[1 + i] = payload[i]
  BY DEF record_cells
<1>2. cells[1] = frame
  BY DEF record_cells
<1>3. f[o] = frame
  <2>1. o \in o .. o + L /\ o - o + 1 = 1
    BY <1>1
  <2> QED
    BY <1>2, <2>1
<1>4. ASSUME NEW i \in 1 .. L
      PROVE  f[o + i] = payload[i]
  <2>1. o + i \in o .. o + L /\ (o + i) - o + 1 = 1 + i
    BY <1>1
  <2> QED
    BY <1>1, <2>1
<1>5. frame.tag = "frame" /\ frame.len = L /\ frame.kind = kind /\ frame.crc = payload
  BY DEF encode_frame
<1>6. decode_frame(f[o]) = [len |-> L, kind |-> kind, crc |-> payload]
  <2> HIDE DEF frame, L
  <2> QED
    BY <1>3, <1>5 DEF decode_frame
<1>7. decode_frame(f[o]) # Unreadable
  BY <1>6, ReadableRecords
<1>8. o \in Offset /\ o + L \in Offset
  BY <1>1, ConstantTypes DEF Offset
<1>9. read_record_at(f, o) = [kind |-> kind, payload |-> payload]
  <2> HIDE DEF L
  <2>1. L <= MaxRecordLen
    BY DEF L
  <2> QED
    BY <1>4, <1>6, <1>7, <1>8, <2>1 DEF read_record_at
<1>10. o \in LOG_START .. o + 1 + L - 1 /\ o + L < o + 1 + L
  BY <1>1, ConstantTypes
<1>11. decode_frame(f[o]).len = L
  BY <1>6
<1>12. read_record_at(f, o) # Unreadable
  BY <1>9, ReadableRecords
<1> QED
  BY <1>9, <1>10, <1>11, <1>12 DEF RecordWithin

(* An encoded index is one, and of the index it encodes. *)
LEMMA IndexEncoded ==
    ASSUME NEW x \in MasterIndex
    PROVE  /\ IsEncodedIndex(index_encode(x))
           /\ index_encode(x)[1].index = x
           /\ Len(index_encode(x)) = EncodedLen(x)
<1>1. EncodedLen(x) \in Nat \ {0}
  BY EncodedLenType
<1>2. index_encode(x) \in Seq(Word) /\ Len(index_encode(x)) = EncodedLen(x)
  BY <1>1, PayloadTypes DEF index_encode
<1>3. index_encode(x)[1] = IndexWord(x, 1) /\ index_encode(x) # <<>>
  BY <1>1, <1>2 DEF index_encode
<1> QED
  BY <1>2, <1>3 DEF IsEncodedIndex, IndexWord

-----------------------------------------------------------------------------
(* The index, as the handle holds it and as the file does. *)

(* What load reads through a header is an index. *)
LEMMA LoadIndexType ==
    ASSUME NEW f \in [Offset -> Cell], NEW h,
           h.master_len = 0 \/ HasMaster(f, h.master_ptr)
    PROVE  load_index(f, h) \in MasterIndex
<1> DEFINE r == read_record_at(f, h.master_ptr)
<1>1. CASE h.master_len = 0
  BY <1>1, DefaultIndexType DEF load_index
<1>2. CASE h.master_len # 0
  <2>1. r # Unreadable /\ IsEncodedIndex(r.payload)
    BY <1>2 DEF HasMaster
  <2>2. r.payload \in Seq(Word)
    BY <2>1, RecordShape
  <2>3. r.payload[1] \in Word
    BY <2>1, <2>2 DEF IsEncodedIndex
  <2>4. r.payload[1].index \in MasterIndex
    BY <2>1, <2>3 DEF IsEncodedIndex, Word
  <2> QED
    BY <1>2, <2>4 DEF load_index
<1> QED
  BY <1>1, <1>2

(* A master index within a log depends on the log alone. *)
LEMMA MasterStable ==
    ASSUME NEW f \in [Offset -> Cell], NEW g \in [Offset -> Cell], NEW p, NEW e \in Int,
           MasterWithin(f, p, e), \A o \in LOG_START .. e - 1 : g[o] = f[o]
    PROVE  MasterWithin(g, p, e) /\ read_record_at(g, p) = read_record_at(f, p)
<1>1. RecordWithin(g, p, e) /\ read_record_at(g, p) = read_record_at(f, p)
  BY RecordStable DEF MasterWithin
<1> QED
  BY <1>1 DEF MasterWithin, HasMaster

(* So does what is read through a header. *)
LEMMA LoadIndexStable ==
    ASSUME NEW f \in [Offset -> Cell], NEW g \in [Offset -> Cell], NEW h, NEW e \in Int,
           h.master_len = 0 \/ MasterWithin(f, h.master_ptr, e),
           \A o \in LOG_START .. e - 1 : g[o] = f[o]
    PROVE  /\ load_index(g, h) = load_index(f, h)
           /\ h.master_len = 0 \/ MasterWithin(g, h.master_ptr, e)
  BY MasterStable DEF load_index

(* So do the documents of an index within the log. *)
LEMMA IndexStable ==
    ASSUME NEW f \in [Offset -> Cell], NEW g \in [Offset -> Cell], NEW x, NEW e \in Int,
           IndexWithin(f, x, e), \A o \in LOG_START .. e - 1 : g[o] = f[o]
    PROVE  /\ IndexWithin(g, x, e)
           /\ \A id : read_record(g, x, id) = read_record(f, x, id)
           /\ Snapshot(g, x) = Snapshot(f, x)
<1>1. \A id \in Known(x) :
        /\ RecordWithin(g, x.offsets[id], e)
        /\ read_record_at(g, x.offsets[id]) = read_record_at(f, x.offsets[id])
  BY RecordStable DEF IndexWithin
<1>2. IndexWithin(g, x, e)
  BY <1>1 DEF IndexWithin
<1>3. \A id : read_record(g, x, id) = read_record(f, x, id)
  BY <1>1 DEF read_record
<1> QED
  BY <1>2, <1>3 DEF Snapshot

(* An index within a log is within every longer one. *)
LEMMA IndexWithinLonger ==
    ASSUME NEW f \in [Offset -> Cell], NEW x, NEW e \in Int, NEW e2 \in Int,
           e <= e2, IndexWithin(f, x, e)
    PROVE  IndexWithin(f, x, e2)
  BY RecordWithinLonger DEF IndexWithin

(* The index of a new database knows nothing. *)
LEMMA DefaultIndexWithin ==
    ASSUME NEW f, NEW e
    PROVE  IndexWithin(f, DefaultIndex, e)
<1>1. Known(DefaultIndex) = {}
  BY DEF Known, DefaultIndex
<1>2. DefaultIndex.dead = {} /\ DefaultIndex.next_doc_id = 1
  BY DEF DefaultIndex
<1> QED
  BY <1>1, <1>2 DEF IndexWithin

(* Indexing the record that starts where the log ended. *)
LEMMA InsertNewWithin ==
    ASSUME NEW f \in [Offset -> Cell], NEW x \in MasterIndex, x.next_doc_id <= MaxDocId,
           NEW e \in Nat, NEW e2 \in Nat, e <= e2,
           IndexWithin(f, x, e), RecordWithin(f, e, e2)
    PROVE  IndexWithin(f, InsertNew(x, e), e2)
<1> DEFINE y == InsertNew(x, e)
           n == x.next_doc_id
<1>1. /\ n \in DocId /\ n \in Nat /\ e # NoOffset
      /\ x.offsets \in [DocId -> Nat]
  BY ConstantTypes DEF MasterIndex, DocId, RecordWithin, NoOffset
<1>2. /\ y.offsets = [x.offsets EXCEPT ![n] = e]
      /\ y.dead = x.dead /\ y.next_doc_id = n + 1
  BY DEF InsertNew
<1>3. /\ x.dead \subseteq Known(x) /\ Known(x) = 1 .. n - 1
      /\ \A id \in Known(x) : RecordWithin(f, x.offsets[id], e)
      /\ \A a, b \in Known(x) : x.offsets[a] = x.offsets[b] => a = b
  BY DEF IndexWithin
<1>4. \A id \in DocId : y.offsets[id] = IF id = n THEN e ELSE x.offsets[id]
  BY <1>1, <1>2
<1>5. Known(y) = Known(x) \cup {n}
  BY <1>1, <1>4 DEF Known
<1>6. Known(y) = 1 .. y.next_doc_id - 1
  <2>1. y.next_doc_id - 1 = n /\ n >= 1
    BY <1>1, <1>2 DEF DocId
  <2>2. 1 .. n = (1 .. n - 1) \cup {n}
    BY <1>1, <2>1
  <2> QED
    BY <1>3, <1>5, <2>1, <2>2
<1>7. \A id \in Known(x) : id \in DocId /\ id # n
  BY <1>1, <1>3 DEF Known
<1>8. \A id \in Known(x) : x.offsets[id] # e
  <2>1. \A p : RecordWithin(f, p, e) => p # e
    BY DEF RecordWithin
  <2> QED
    BY <1>3, <2>1
<1>9. \A a, b \in Known(y) : y.offsets[a] = y.offsets[b] => a = b
  BY <1>1, <1>3, <1>4, <1>5, <1>7, <1>8
<1>10. \A id \in Known(y) : RecordWithin(f, y.offsets[id], e2)
  <2>1. \A id \in Known(x) : RecordWithin(f, x.offsets[id], e2)
    BY <1>3, RecordWithinLonger
  <2> QED
    BY <1>1, <1>4, <1>5, <1>7, <2>1
<1>11. y.dead \subseteq Known(y)
  BY <1>2, <1>3, <1>5
<1> QED
  BY <1>6, <1>9, <1>10, <1>11 DEF IndexWithin

(* Marking a known document as deleted. *)
LEMMA BuryWithin ==
    ASSUME NEW f, NEW x \in MasterIndex, NEW e, NEW id \in Known(x), IndexWithin(f, x, e)
    PROVE  /\ IndexWithin(f, [x EXCEPT !.dead = @ \cup {id}], e)
           /\ [x EXCEPT !.dead = @ \cup {id}] \in MasterIndex
<1> DEFINE y == [x EXCEPT !.dead = @ \cup {id}]
<1>1. /\ y.offsets = x.offsets /\ y.next_doc_id = x.next_doc_id
      /\ y.dead = x.dead \cup {id} /\ y \in MasterIndex
  BY DEF MasterIndex, Known
<1>2. Known(y) = Known(x)
  BY <1>1 DEF Known
<1> QED
  BY <1>1, <1>2 DEF IndexWithin

(* All that a whole header leads to depends on its log alone. *)
LEMMA HeaderWholeStable ==
    ASSUME NEW f \in [Offset -> Cell], NEW g \in [Offset -> Cell], NEW h \in Header,
           HeaderWhole(f, h), \A o \in LOG_START .. h.log_end - 1 : g[o] = f[o]
    PROVE  /\ HeaderWhole(g, h)
           /\ load_index(g, h) = load_index(f, h)
           /\ Snapshot(g, load_index(g, h)) = Snapshot(f, load_index(f, h))
<1>1. h.log_end \in Int
  BY ConstantTypes DEF Header
<1>2. /\ load_index(g, h) = load_index(f, h)
      /\ h.master_len = 0 \/ MasterWithin(g, h.master_ptr, h.log_end)
  BY <1>1, LoadIndexStable DEF HeaderWhole
<1>3. /\ IndexWithin(g, load_index(f, h), h.log_end)
      /\ Snapshot(g, load_index(f, h)) = Snapshot(f, load_index(f, h))
  BY <1>1, IndexStable DEF HeaderWhole
<1> QED
  BY <1>2, <1>3 DEF HeaderWhole

(* A master index that was just written can be read, and is the one that   *)
(* was written.                                                            *)
LEMMA IndexWritten ==
    ASSUME NEW f \in [Offset -> Cell], NEW x \in MasterIndex,
           NEW o \in Nat, LOG_START <= o, EncodedLen(x) <= MaxRecordLen,
           o + 1 + EncodedLen(x) <= FileCap,
           \A i \in o .. o + EncodedLen(x) :
              f[i] = record_cells("MasterIndex", index_encode(x))[i - o + 1]
    PROVE  /\ MasterWithin(f, o, o + 1 + EncodedLen(x))
           /\ read_record_at(f, o).payload = index_encode(x)
<1>1. "MasterIndex" \in RecordKind
  BY DEF RecordKind
<1>2. index_encode(x) \in Seq(Word) /\ Len(index_encode(x)) = EncodedLen(x)
  BY PayloadTypes, IndexEncoded
<1>3. /\ read_record_at(f, o) = [kind |-> "MasterIndex", payload |-> index_encode(x)]
      /\ RecordWithin(f, o, o + 1 + EncodedLen(x))
  BY <1>1, <1>2, RecordWritten
<1>4. HasMaster(f, o)
  BY <1>3, IndexEncoded, ReadableRecords DEF HasMaster
<1> QED
  BY <1>3, <1>4 DEF MasterWithin

(* A header that points at an encoded index leads to that index. *)
LEMMA LoadIndexEncoded ==
    ASSUME NEW f, NEW h, NEW x \in MasterIndex, h.master_len # 0,
           read_record_at(f, h.master_ptr).payload = index_encode(x)
    PROVE  load_index(f, h) = x
  BY IndexEncoded DEF load_index
=============================================================================
