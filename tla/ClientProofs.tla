---------------------------- MODULE ClientProofs ----------------------------
(***************************************************************************)
(* ClientInv is an invariant of the handle and its engine, and what        *)
(* follows from it for the caller: while nothing damages the file, get     *)
(* returns what was inserted, and the id of an acknowledged document is    *)
(* not handed out again.                                                   *)
(***************************************************************************)
EXTENDS ClientInvariant, VerifyProofs

-----------------------------------------------------------------------------
(* What a file holds. *)

(* A document stays what it is while the log it lies in is left alone. *)
LEMMA HoldsStable ==
    ASSUME NEW f \in [Offset -> Cell], NEW g \in [Offset -> Cell], NEW x, NEW ins,
           NEW e \in Int, IndexWithin(f, x, e), Holds(f, x, ins),
           \A o \in LOG_START .. e - 1 : g[o] = f[o]
    PROVE  Holds(g, x, ins)
<1>1. ASSUME NEW id \in Known(x)
      PROVE  read_record_at(g, x.offsets[id]) = read_record_at(f, x.offsets[id])
  <2>1. RecordWithin(f, x.offsets[id], e)
    BY <1>1 DEF IndexWithin
  <2> QED
    BY <2>1, RecordStable
<1> QED
  BY <1>1 DEF Holds

(* No document is what an index that knows none leads to. *)
LEMMA HoldsNothing ==
    ASSUME NEW f
    PROVE  Holds(f, DefaultIndex, [id \in DocId |-> Nothing])
  BY DEF Holds, DefaultIndex, Known

(* An index whose offsets are the same leads to the same documents. *)
LEMMA HoldsByOffsets ==
    ASSUME NEW f, NEW x, NEW y, NEW ins, y.offsets = x.offsets, Holds(f, x, ins)
    PROVE  Holds(f, y, ins) /\ Known(y) = Known(x)
  BY DEF Holds, Known

(* A new document is what the index leads to under the id it allocates. *)
LEMMA HoldsInserted ==
    ASSUME NEW f, NEW x \in MasterIndex, x.next_doc_id <= MaxDocId,
           NEW ins \in [DocId -> Doc \cup {Nothing}], Holds(f, x, ins),
           NEW d \in Doc, NEW o \in Nat, LOG_START <= o,
           read_record_at(f, o).payload = doc_payload(d)
    PROVE  Holds(f, InsertNew(x, o), [ins EXCEPT ![x.next_doc_id] = d])
<1> DEFINE n == x.next_doc_id
           y == InsertNew(x, o)
           after == [ins EXCEPT ![n] = d]
<1>1. n \in DocId /\ x.offsets \in [DocId -> Nat]
  BY ConstantTypes DEF MasterIndex, DocId
<1>2. y.offsets = [x.offsets EXCEPT ![n] = o]
  BY DEF InsertNew
<1>3. n \in Known(y) /\ y.offsets[n] = o /\ after[n] = d
  BY <1>1, <1>2, ConstantTypes DEF Known, NoOffset
<1>4. ASSUME NEW id \in DocId, id # n
      PROVE  /\ id \in Known(y) <=> id \in Known(x)
             /\ y.offsets[id] = x.offsets[id] /\ after[id] = ins[id]
  BY <1>1, <1>2, <1>4 DEF Known
<1> HIDE DEF y, after, n
<1> SUFFICES ASSUME NEW id \in DocId
             PROVE  IF id \in Known(y)
                    THEN /\ after[id] \in Doc
                         /\ read_record_at(f, y.offsets[id]).payload = doc_payload(after[id])
                    ELSE after[id] = Nothing
  BY DEF Holds, y, after, n
<1>5. CASE id = n
  BY <1>3, <1>5
<1>6. CASE id # n
  BY <1>4, <1>6 DEF Holds
<1> QED BY <1>5, <1>6

(* Documents are told apart by their encodings. *)
LEMMA DocDecoded ==
    ASSUME NEW d \in Doc
    PROVE  from_bson_bytes(doc_payload(d)) = d
<1>1. ASSUME NEW a \in Doc, NEW b \in Doc, doc_payload(a) = doc_payload(b)
      PROVE  a = b
  <2>1. DocLen[a] \in Nat /\ DocLen[a] > 0 /\ DocLen[b] \in Nat /\ DocLen[b] > 0
    BY FormatAssumption, ClientAssumption
  <2>2. doc_payload(a)[1] = DocWord(a, 1) /\ doc_payload(b)[1] = DocWord(b, 1)
    BY <2>1 DEF doc_payload
  <2> QED
    BY <1>1, <2>2 DEF DocWord
<1> QED
  BY <1>1 DEF from_bson_bytes

-----------------------------------------------------------------------------
(* What a step leaves alone. *)

(* A slot holds nothing it could not hold before, and the logs of the      *)
(* headers that it may hold are as they were.                              *)
LogsKept ==
    /\ \A s \in Slot : disk'[s] \subseteq disk[s]
    /\ \A s \in Slot : \A c \in disk'[s] : c.tag = "header" =>
          /\ c \in disk[s]
          /\ \A o \in LOG_START .. c.header.log_end - 1 : file'[o] = file[o]

(* A header whose log is left alone leads to what it led to. *)
LEMMA HeaderKept ==
    ASSUME FileTypeOK, FileTypeOK', FileInv, HeadersIndexed,
           NEW s \in Slot, NEW c \in disk[s], c.tag = "header",
           \A o \in LOG_START .. c.header.log_end - 1 : file'[o] = file[o]
    PROVE  /\ load_index(file', c.header) = load_index(file, c.header)
           /\ \A ins : Holds(file, load_index(file, c.header), ins)
                          => Holds(file', load_index(file', c.header), ins)
<1>1. c.header \in Header /\ c.header.log_end \in LOG_START .. FileCap
  BY CandidateType
<1>2. IndexWithin(file, load_index(file, c.header), c.header.log_end)
  BY DEF HeadersIndexed
<1>3. HeaderWhole(file, c.header)
  BY <1>1, <1>2, SupportedIsWhole DEF FileInv, HeadersSupported
<1>4. file \in [Offset -> Cell] /\ file' \in [Offset -> Cell] /\ c.header.log_end \in Int
  BY <1>1, ConstantTypes DEF FileTypeOK
<1>5. load_index(file', c.header) = load_index(file, c.header)
  BY <1>1, <1>3, <1>4, HeaderWholeStable
<1>6. ASSUME NEW ins, Holds(file, load_index(file, c.header), ins)
      PROVE  Holds(file', load_index(file, c.header), ins)
  BY <1>2, <1>4, <1>6, HoldsStable
<1> QED
  BY <1>5, <1>6

(* A step that leaves the logs alone, and the histories of commits, leaves *)
(* what is saved and what is acknowledged.                                 *)
LEMMA SavedKept ==
    ASSUME FileTypeOK, FileTypeOK', FileInv, HeadersIndexed,
           HeadersHold, FirstIsEmpty, AckedAreDurable,
           LogsKept, UNCHANGED <<saved, acked>>
    PROVE  HeadersHold' /\ FirstIsEmpty' /\ AckedAreDurable'
<1>1. ASSUME NEW s \in Slot, NEW c \in disk'[s], c.tag = "header"
      PROVE  /\ c \in disk[s]
             /\ load_index(file', c.header) = load_index(file, c.header)
             /\ Holds(file, load_index(file, c.header), saved[c.header.master_ptr])
                   => Holds(file', load_index(file', c.header), saved[c.header.master_ptr])
  <2>1. c \in disk[s] /\ \A o \in LOG_START .. c.header.log_end - 1 : file'[o] = file[o]
    BY <1>1 DEF LogsKept
  <2> QED
    BY <1>1, <2>1, HeaderKept
<1>2. HeadersHold'
  BY <1>1 DEF HeadersHold
<1>3. FirstIsEmpty'
  BY DEF FirstIsEmpty
<1>4. AckedAreDurable'
  <2> SUFFICES ASSUME acked' # {}
               PROVE  \E s \in Slot :
                         /\ \A c \in disk'[s] : Acknowledges(c)'
                         /\ \A t \in Slot \ {s} : \A d \in disk'[t] :
                               d.tag = "header" =>
                                  \/ Acknowledges(d)'
                                  \/ \A c \in disk'[s] :
                                        d.header.generation < c.header.generation
    BY DEF AckedAreDurable
  <2>1. PICK s \in Slot :
            /\ \A c \in disk[s] : Acknowledges(c)
            /\ \A t \in Slot \ {s} : \A d \in disk[t] :
                  d.tag = "header" =>
                     \/ Acknowledges(d)
                     \/ \A c \in disk[s] : d.header.generation < c.header.generation
    BY DEF AckedAreDurable
  <2>2. \A t \in Slot : \A c \in disk'[t] :
           /\ c \in disk[t]
           /\ Acknowledges(c) => Acknowledges(c)'
    BY <1>1 DEF Acknowledges, LogsKept
  <2>3. \A c \in disk'[s] : Acknowledges(c)'
    BY <2>1, <2>2
  <2>4. ASSUME NEW t \in Slot \ {s}, NEW d \in disk'[t], d.tag = "header"
        PROVE  \/ Acknowledges(d)'
               \/ \A c \in disk'[s] : d.header.generation < c.header.generation
    BY <2>1, <2>2, <2>4
  <2> QED
    BY <2>3, <2>4
<1> QED
  BY <1>2, <1>3, <1>4

(* A handle whose header and offsets, and whose log, a step leaves as they *)
(* were, reads what it read.                                               *)
LEMMA HandleReadsOn ==
    ASSUME TypeOK, FileTypeOK', RecoveryInv, CommitInv, HandleHolds, HandleAcked, IsOpen,
           UNCHANGED <<header, inserted, acked>>, index'.offsets = index.offsets,
           \A o \in LOG_START .. end - 1 : file'[o] = file[o]
    PROVE  HandleHolds' /\ HandleAcked'
<1>1. /\ file \in [Offset -> Cell] /\ file' \in [Offset -> Cell] /\ end \in Int
  BY ConstantTypes DEF TypeOK, FileTypeOK
<1>2. IndexWithin(file, index, end) /\ Holds(file, index, inserted)
  BY DEF CommitInv, HandleIndexed, HandleHolds
<1>3. Holds(file', index, inserted)
  BY <1>1, <1>2, HoldsStable
<1>4. Holds(file', index', inserted) /\ Known(index') = Known(index)
  BY <1>3, HoldsByOffsets
<1>5. load_index(file', header) = load_index(file, header)
  <2>1. /\ header.log_end \in LOG_START .. end /\ header.log_end \in Int
        /\ header.master_len = 0 \/ MasterWithin(file, header.master_ptr, header.log_end)
    BY LiveHeaderSupported, LiveBelowEnd
  <2>2. \A o \in LOG_START .. header.log_end - 1 : file'[o] = file[o]
    BY <1>1, <2>1, ConstantTypes
  <2> QED
    BY <1>1, <2>1, <2>2, LoadIndexStable
<1> QED
  BY <1>4, <1>5 DEF HandleHolds, HandleAcked

(* A handle that is not open holds nothing and promises nothing. *)
LEMMA NoHandleReads ==
    ASSUME index' = DefaultIndex, inserted' = [id \in DocId |-> Nothing], ~IsOpen'
    PROVE  HandleHolds' /\ HandleAcked'
  BY HoldsNothing DEF HandleHolds, HandleAcked

(* A sync, failed or not, and a power cut leave the logs alone. *)
LEMMA MediumLogsKept ==
    ASSUME FileTypeOK, FileTypeOK', FileInv,
           UNCHANGED fileVars \/ sync_data \/ SyncError \/ PowerCut
    PROVE  LogsKept
  BY MediumKeepsLogs DEF LogsKept

(* A handle that is not open leads to no document in any file. *)
LEMMA ClosedReads ==
    ASSUME CommitInv, HandleHolds, ~IsOpen, UNCHANGED <<index, inserted>>
    PROVE  HandleHolds'
<1>1. index = DefaultIndex
  BY DEF CommitInv, HandleIndexed
<1>2. Known(index) = {}
  BY <1>1 DEF Known, DefaultIndex
<1> QED
  BY <1>2 DEF HandleHolds, Holds

(* A file that holds no header in one slot, and the first one in the       *)
(* other, has acknowledged nothing.                                        *)
LEMMA NewHasNoAcks ==
    ASSUME AckedAreDurable, NEW c \in disk[0], NEW d \in disk[1],
           c.tag = "header" => c.header = InitialHeader, d.tag # "header"
    PROVE  acked = {}
<1> SUFFICES ASSUME acked # {}
             PROVE  FALSE
  OBVIOUS
<1>1. PICK s \in Slot : \A x \in disk[s] : Acknowledges(x)
  BY DEF AckedAreDurable
<1>2. Acknowledges(c) \/ Acknowledges(d)
  BY <1>1, ConstantTypes
<1>3. c.header = InitialHeader /\ acked \subseteq Known(load_index(file, c.header))
  BY <1>2 DEF Acknowledges
<1>4. Known(load_index(file, InitialHeader)) = {}
  BY DEF load_index, InitialHeader, Known, DefaultIndex
<1> QED
  BY <1>3, <1>4

-----------------------------------------------------------------------------
(* The inductive step. *)

(* Laying down the header region preserves the invariant: no document was  *)
(* acknowledged in a file of length zero.                                  *)
LEMMA CreateHistoryStep ==
    ASSUME TypeOK, TypeOK', RecoveryInv, CommitInv, HistoryInv,
           OpenCreate \/ OpenCreateError, UNCHANGED history
    PROVE  HistoryInv'
<1>1. /\ FileTypeOK /\ FileTypeOK' /\ FileInv /\ pc = "closed" /\ file[0] = Eof
      /\ pc' \in {"init", "closed"} /\ UNCHANGED handleVars
      /\ UNCHANGED <<inserted, saved, acked>>
  BY DEF TypeOK, RecoveryInv, OpenCreate, OpenCreateError, history
<1>2. HeaderRegion \in Seq(Cell) /\ Len(HeaderRegion) = 2
  BY HeaderRegionType
<1>3. PICK k \in 0 .. 2 : WritePrefix(HeaderRegion, k, 0)
  <2>1. CASE OpenCreate
    BY <1>2, <2>1 DEF OpenCreate, write_all_at
  <2>2. CASE OpenCreateError
    BY <1>2, <2>2 DEF OpenCreateError, WriteFault, WriteError
  <2> QED BY <2>1, <2>2
<1>4. \A s \in Slot : \A c \in disk'[s] : c.tag = "header" => c.header = InitialHeader
  BY <1>1, <1>3, CreateKeepsFile
<1>5. acked = {}
  <2>1. Eof \in disk[0] /\ Eof \in disk[1] /\ Eof.tag # "header"
    BY <1>1 DEF FileInv, NewIsEmpty, Eof
  <2> QED
    BY <2>1, NewHasNoAcks DEF HistoryInv
<1>6. HeadersHold'
  <2> SUFFICES ASSUME NEW s \in Slot, NEW c \in disk'[s], c.tag = "header"
               PROVE  /\ c.header.master_ptr < c.header.log_end
                      /\ Holds(file', load_index(file', c.header),
                               saved'[c.header.master_ptr])
    BY DEF HeadersHold
  <2>1. c.header = InitialHeader
    BY <1>4
  <2>2. InitialHeader.master_ptr = 0 /\ InitialHeader.log_end = 2
    BY ConstantTypes DEF InitialHeader
  <2>3. load_index(file', InitialHeader) = DefaultIndex
    BY DEF load_index, InitialHeader
  <2>4. saved'[0] = [id \in DocId |-> Nothing]
    BY <1>1 DEF HistoryInv, FirstIsEmpty
  <2>5. Holds(file', DefaultIndex, saved'[0])
    BY <2>4, HoldsNothing
  <2> QED
    BY <2>1, <2>2, <2>3, <2>5
<1>7. HandleHolds'
  BY <1>1, ClosedReads DEF HistoryInv, IsOpen, handleVars
<1>8. ~IsOpen' /\ pc' \notin {"sync_master", "write_header"}
  BY <1>1 DEF IsOpen
<1> QED
  BY <1>1, <1>5, <1>6, <1>7, <1>8
  DEF HistoryInv, HistoryTypeOK, FirstIsEmpty, MasterIsNew, AckedAreDurable, HandleAcked

(* The sync of initialize and its error preserve the invariant. *)
LEMMA InitializeHistoryStep ==
    ASSUME TypeOK, TypeOK', RecoveryInv, CommitInv, HistoryInv,
           InitializeSync \/ InitializeSyncError, UNCHANGED history
    PROVE  HistoryInv'
<1>1. /\ FileTypeOK /\ FileTypeOK' /\ FileInv /\ pc = "init"
      /\ sync_data \/ SyncError
      /\ UNCHANGED <<index, inserted, saved, acked>>
      /\ pc' \in {"idle", "closed"}
  BY DEF TypeOK, RecoveryInv, InitializeSync, InitializeSyncError, handleVars, history
<1>2. LogsKept
  BY <1>1, MediumLogsKept
<1>3. HeadersHold' /\ FirstIsEmpty' /\ AckedAreDurable'
  BY <1>1, <1>2, SavedKept DEF HistoryInv, CommitInv
<1>4. HandleHolds'
  BY <1>1, ClosedReads DEF HistoryInv, IsOpen
<1>5. acked = {}
  <2>1. file[0] = header_encode(InitialHeader) /\ file[1] = Zero
    BY <1>1 DEF RecoveryInv, HandleInv, HandleCreating
  <2>2. file[0] \in disk[0] /\ file[1] \in disk[1]
    BY <1>1, ConstantTypes DEF FileInv, SyncedIsCached
  <2> QED
    BY <2>1, <2>2, NewHasNoAcks DEF HistoryInv, header_encode, Zero
<1>6. HandleAcked'
  BY <1>1, <1>5 DEF HandleAcked
<1> QED
  BY <1>1, <1>3, <1>4, <1>6 DEF HistoryInv, HistoryTypeOK, MasterIsNew

(* load preserves the invariant: its header leads to what was saved with   *)
(* it, and to everything that was acknowledged.                            *)
LEMMA LoadHistoryStep ==
    ASSUME TypeOK, TypeOK', RecoveryInv, CommitInv, HistoryInv,
           OpenLoad, inserted' = saved[header'.master_ptr], UNCHANGED <<saved, acked>>
    PROVE  HistoryInv'
<1> DEFINE h == LiveHeader(file)
           s == select_live(decode_slots(file))
<1>1. /\ FileTypeOK /\ FileTypeOK' /\ FileInv /\ file \in [Offset -> Cell]
      /\ Loadable(file) /\ UNCHANGED fileVars /\ file' = file
      /\ pc' = "idle" /\ header' = h /\ index' = load_index(file, h)
  BY DEF TypeOK, FileTypeOK, RecoveryInv, OpenLoad, LoadHandle, fileVars
<1>2. LogsKept
  BY <1>1, MediumLogsKept
<1>3. HeadersHold' /\ FirstIsEmpty' /\ AckedAreDurable'
  BY <1>1, <1>2, SavedKept DEF HistoryInv, CommitInv
<1>4. /\ s \in Slot /\ file[s].tag = "header" /\ file[s].header = h
      /\ \A t \in Slot : file[t].tag = "header" =>
            file[t].header.generation <= h.generation
      /\ \A t \in Slot : file[t] \in disk[t]
  BY <1>1, LiveCell, ConstantTypes DEF Loadable, FileInv, SyncedIsCached
<1> HIDE DEF h, s
<1>5. h.master_ptr < h.log_end /\ Holds(file, load_index(file, h), saved[h.master_ptr])
  BY <1>4 DEF HistoryInv, HeadersHold
<1>6. HandleHolds'
  BY <1>1, <1>5 DEF HandleHolds
<1>7. HistoryTypeOK'
  <2>1. h \in Header /\ h.log_end \in LOG_START .. FileCap /\ h.master_ptr \in Nat
    BY <1>1, <1>4, CandidateType DEF Header
  <2>2. h.master_ptr \in Offset
    BY <1>5, <2>1, ConstantTypes DEF Offset
  <2> QED
    BY <1>1, <2>2 DEF HistoryInv, HistoryTypeOK
<1>8. acked \subseteq Known(load_index(file, h))
  <2> SUFFICES ASSUME acked # {}
               PROVE  Acknowledges(file[s])
    BY <1>4 DEF Acknowledges
  <2>1. PICK t \in Slot :
            /\ \A c \in disk[t] : Acknowledges(c)
            /\ \A u \in Slot \ {t} : \A d \in disk[u] :
                  d.tag = "header" =>
                     \/ Acknowledges(d)
                     \/ \A c \in disk[t] : d.header.generation < c.header.generation
    BY DEF HistoryInv, AckedAreDurable
  <2>2. CASE s = t
    BY <1>4, <2>1, <2>2
  <2>3. CASE s # t
    <3>1. Acknowledges(file[t]) /\ file[t].tag = "header"
      BY <1>4, <2>1 DEF Acknowledges
    <3>2. file[t].header.generation \in Nat /\ h.generation \in Nat
      BY <1>1, <1>4, <3>1, CandidateType
    <3>3. ~(h.generation < file[t].header.generation)
      BY <1>4, <3>1, <3>2
    <3> QED
      BY <1>4, <2>1, <2>3, <3>3
  <2> QED BY <2>2, <2>3
<1>9. HandleAcked'
  BY <1>1, <1>8 DEF HandleAcked
<1> QED
  BY <1>1, <1>3, <1>6, <1>7, <1>9 DEF HistoryInv, MasterIsNew

(* What an append that succeeds leaves alone, and what it adds. *)
LEMMA AppendedReads ==
    ASSUME TypeOK, FileTypeOK', RecoveryInv, CommitInv, IsOpen, IsOpen',
           NEW kind \in RecordKind, NEW payload \in Seq(Word),
           append_raw(kind, payload), UNCHANGED header
    PROVE  /\ LogsKept
           /\ \A s \in Slot : disk'[s] = disk[s]
           /\ \A o \in LOG_START .. end - 1 : file'[o] = file[o]
           /\ read_record_at(file', end).payload = payload
           /\ end \in Nat /\ LOG_START <= end
<1> DEFINE cells == record_cells(kind, payload)
           k == Len(cells)
<1>1. cells \in Seq(Cell) /\ k = 1 + Len(payload) /\ k \in Nat
  BY RecordCellsType
<1>2. WritePrefix(cells, k, end) /\ k \in 0 .. Len(cells)
  BY <1>1 DEF append_raw, WriteRecord, write_all_at
<1>3. LogsKept /\ \A s \in Slot : disk'[s] = disk[s]
  BY <1>1, <1>2, AppendKeepsLogs DEF LogsKept
<1> HIDE DEF cells, k
<1>4. /\ end \in Nat /\ LOG_START <= end /\ end' = end + 1 + Len(payload)
      /\ end' <= FileCap /\ Len(payload) <= MaxRecordLen
      /\ file' \in [Offset -> Cell]
      /\ \A o \in LOG_START .. end - 1 : file'[o] = file[o]
      /\ \A o \in end .. end + Len(payload) :
            file'[o] = record_cells(kind, payload)[o - end + 1]
  BY AppendedRecord
<1>5. end + 1 + Len(payload) <= FileCap
  BY <1>4
<1>6. read_record_at(file', end) = [kind |-> kind, payload |-> payload]
  BY <1>4, <1>5, RecordWritten
<1> QED
  BY <1>3, <1>4, <1>6

(* insert preserves the invariant: the new id leads to the new document. *)
LEMMA InsertHistoryStep ==
    ASSUME TypeOK, TypeOK', RecoveryInv, CommitInv, HistoryInv,
           NEW value \in Doc, insert(value)
    PROVE  HistoryInv'
<1>1. /\ FileTypeOK /\ FileTypeOK' /\ FileInv /\ pc = "idle" /\ pc' = "idle"
      /\ index \in MasterIndex /\ index.next_doc_id <= MaxDocId
      /\ append_raw("Blob", doc_payload(value))
      /\ index' = InsertNew(index, end)
      /\ inserted' = [inserted EXCEPT ![index.next_doc_id] = value]
      /\ UNCHANGED <<header, saved, acked>>
  BY DEF TypeOK, RecoveryInv, insert, Append_
<1>2. IsOpen /\ IsOpen' /\ "Blob" \in RecordKind /\ doc_payload(value) \in Seq(Word)
  BY <1>1, OpenStates, PayloadTypes DEF RecordKind
<1>3. /\ LogsKept
      /\ \A o \in LOG_START .. end - 1 : file'[o] = file[o]
      /\ read_record_at(file', end).payload = doc_payload(value)
      /\ end \in Nat /\ LOG_START <= end
  BY <1>1, <1>2, AppendedReads
<1>4. HeadersHold' /\ FirstIsEmpty' /\ AckedAreDurable'
  BY <1>1, <1>3, SavedKept DEF HistoryInv, CommitInv
<1>5. /\ inserted \in [DocId -> Doc \cup {Nothing}]
      /\ file \in [Offset -> Cell] /\ file' \in [Offset -> Cell]
  BY <1>1 DEF HistoryInv, HistoryTypeOK, FileTypeOK
<1>6. Holds(file', index, inserted)
  <2>1. IndexWithin(file, index, end) /\ Holds(file, index, inserted)
    BY <1>2 DEF CommitInv, HandleIndexed, HistoryInv, HandleHolds
  <2>2. end \in Int
    BY <1>3
  <2> QED
    BY <1>3, <1>5, <2>1, <2>2, HoldsStable
<1>7. HandleHolds'
  BY <1>1, <1>3, <1>5, <1>6, HoldsInserted DEF HandleHolds
<1>8. Known(index) \subseteq Known(index')
  <2>1. /\ index.offsets \in [DocId -> Nat]
        /\ index'.offsets = [index.offsets EXCEPT ![index.next_doc_id] = end]
        /\ end # NoOffset
    BY <1>1, <1>3, ConstantTypes DEF MasterIndex, InsertNew, NoOffset
  <2> QED
    BY <2>1 DEF Known
<1>9. HandleAcked'
  <2>1. load_index(file', header) = load_index(file, header)
    <3>1. /\ header.log_end \in LOG_START .. end /\ header.log_end \in Int
          /\ header.master_len = 0 \/ MasterWithin(file, header.master_ptr, header.log_end)
      BY <1>2, LiveHeaderSupported, LiveBelowEnd
    <3>2. \A o \in LOG_START .. header.log_end - 1 : file'[o] = file[o]
      BY <1>3, <3>1, ConstantTypes
    <3> QED
      BY <1>5, <3>1, <3>2, LoadIndexStable
  <2> QED
    BY <1>1, <1>2, <1>8, <2>1 DEF HistoryInv, HandleAcked
<1>10. HistoryTypeOK'
  BY <1>1, <1>5 DEF HistoryInv, HistoryTypeOK
<1> QED
  BY <1>1, <1>4, <1>7, <1>9, <1>10 DEF HistoryInv, MasterIsNew

(* delete preserves the invariant, and so does writing the master index,   *)
(* which no header leads to yet.                                           *)
LEMMA RecordHistoryStep ==
    ASSUME TypeOK, TypeOK', RecoveryInv, CommitInv, HistoryInv, UNCHANGED history,
           CommitAppendMaster \/ \E id \in DocId : Tombstone(id)
    PROVE  HistoryInv'
<1>1. PICK kind \in RecordKind, payload \in Seq(Word) :
         /\ append_raw(kind, payload)
         /\ UNCHANGED header /\ index'.offsets = index.offsets
         /\ \/ pc = "idle" /\ pc' = "idle"
            \/ pc = "append_master" /\ pc' = "sync_master" /\ master_ptr' = end
  <2>1. "Tombstone" \in RecordKind /\ "MasterIndex" \in RecordKind /\ index \in MasterIndex
    BY DEF RecordKind, TypeOK
  <2>2. CASE CommitAppendMaster
    BY <2>1, <2>2, PayloadTypes DEF CommitAppendMaster
  <2>3. CASE \E id \in DocId : Tombstone(id)
    <3>1. PICK id \in DocId : Tombstone(id)
      BY <2>3
    <3>2. index' = [index EXCEPT !.dead = @ \cup {id}]
      BY <3>1 DEF Tombstone, Bury
    <3>3. index'.offsets = index.offsets
      BY <2>1, <3>2 DEF MasterIndex
    <3> QED
      BY <2>1, <3>1, <3>3, PayloadTypes DEF Tombstone, Bury
  <2> QED BY <2>2, <2>3
<1>2. /\ FileTypeOK /\ FileTypeOK' /\ FileInv
      /\ UNCHANGED <<inserted, saved, acked>>
  BY DEF TypeOK, RecoveryInv, history
<1>3. IsOpen /\ IsOpen'
  BY <1>1, OpenStates
<1>4. /\ LogsKept
      /\ \A s \in Slot : disk'[s] = disk[s]
      /\ \A o \in LOG_START .. end - 1 : file'[o] = file[o]
  BY <1>1, <1>2, <1>3, AppendedReads
<1>5. HeadersHold' /\ FirstIsEmpty' /\ AckedAreDurable'
  BY <1>2, <1>4, SavedKept DEF HistoryInv, CommitInv
<1>6. HandleHolds' /\ HandleAcked'
  BY <1>1, <1>2, <1>3, <1>4, HandleReadsOn DEF HistoryInv
<1>7. MasterIsNew'
  <2>1. HeadersWithin(end)
    BY <1>3 DEF RecoveryInv, HandleInv, HandleOpen
  <2> QED
    BY <1>1, <1>4, <2>1 DEF MasterIsNew, HeadersWithin
<1> QED
  BY <1>2, <1>5, <1>6, <1>7 DEF HistoryInv, HistoryTypeOK

(* A write of the log that fails preserves the invariant, in commit too. *)
LEMMA ErrorHistoryStep ==
    ASSUME TypeOK, TypeOK', RecoveryInv, CommitInv, HistoryInv, UNCHANGED history,
           \/ \E kind \in AppendKinds, d \in Doc : AppendError(kind, d)
           \/ \E id \in DocId : TombstoneError(id)
           \/ CommitMasterError
    PROVE  HistoryInv'
<1>1. /\ FileTypeOK /\ FileTypeOK' /\ FileInv
      /\ pc \in {"idle", "append_master"} /\ pc' = "idle"
      /\ UNCHANGED <<header, index, end, inserted, saved, acked>> /\ index \in MasterIndex
  BY DEF TypeOK, RecoveryInv, AppendError, TombstoneError, CommitMasterError,
         append_raw_error, history
<1>2. IsOpen /\ IsOpen'
  BY <1>1, OpenStates
<1>3. PICK kind \in RecordKind, payload \in Seq(Word) : append_raw_error(kind, payload)
  <2>1. /\ "Tombstone" \in RecordKind /\ "MasterIndex" \in RecordKind
        /\ AppendKinds \subseteq RecordKind
    BY EngineAssumption DEF RecordKind
  <2> QED
    BY <1>1, <2>1, PayloadTypes DEF AppendError, TombstoneError, CommitMasterError
<1> DEFINE cells == record_cells(kind, payload)
<1>4. cells \in Seq(Cell)
  BY RecordCellsType
<1>5. PICK k \in 0 .. Len(cells) - 1 : WritePrefix(cells, k, end)
  BY <1>3 DEF append_raw_error, WriteFault, WriteError
<1>6. k \in 0 .. Len(cells)
  BY <1>4
<1>7. LogsKept /\ \A o \in LOG_START .. end - 1 : file'[o] = file[o]
  BY <1>1, <1>2, <1>4, <1>5, <1>6, AppendKeepsLogs DEF LogsKept
<1>8. HeadersHold' /\ FirstIsEmpty' /\ AckedAreDurable'
  BY <1>1, <1>7, SavedKept DEF HistoryInv, CommitInv
<1>9. HandleHolds' /\ HandleAcked'
  BY <1>1, <1>2, <1>7, HandleReadsOn DEF HistoryInv
<1> QED
  BY <1>1, <1>8, <1>9 DEF HistoryInv, HistoryTypeOK, MasterIsNew

(* So do commit's syncs before its header is written, a failed sync, and   *)
(* the errors that write nothing.                                          *)
LEMMA SyncHistoryStep ==
    ASSUME TypeOK, TypeOK', RecoveryInv, CommitInv, HistoryInv, UNCHANGED history,
           \/ CommitSyncRecords \/ CommitSyncMaster \/ CommitSyncError
           \/ CommitMasterTooLarge \/ CommitHeaderError
    PROVE  HistoryInv'
<1>1. /\ FileTypeOK /\ FileTypeOK' /\ FileInv /\ IsOpen /\ pc \notin {"closed", "init"}
      /\ UNCHANGED <<header, index, inserted, saved, acked>>
  BY OpenStates
  DEF TypeOK, RecoveryInv, CommitSyncRecords, CommitSyncMaster, CommitSyncError,
      CommitMasterTooLarge, CommitHeaderError, handleVars, history
<1>2. /\ UNCHANGED fileVars \/ sync_data \/ SyncError
      /\ pc' \in {"sync_master", "write_header"} => pc = "sync_master" /\ master_ptr' = master_ptr
  <2>1. CASE \/ CommitSyncRecords \/ CommitSyncMaster \/ CommitSyncError
             \/ CommitMasterTooLarge
    BY <2>1 DEF CommitSyncRecords, CommitSyncMaster, CommitSyncError, CommitReturns,
                CommitMasterTooLarge, handleVars
  <2>2. CASE CommitHeaderError
    <3> DEFINE N == header_encode(NextHeader)
               v == victim_slot(slots)
    <3>1. WriteError(<<N>>, v) /\ pc' = "idle"
      BY <2>2 DEF CommitHeaderError, WriteFault, CommitReturns
    <3>2. WritePrefix(<<N>>, 0, v)
      BY <3>1 DEF WriteError
    <3>3. v .. v + 0 - 1 = {}
      BY <1>1, VictimIsNotLive, ConstantTypes
    <3>4. UNCHANGED fileVars
      BY <1>1, <3>2, <3>3 DEF WritePrefix, fileVars, FileTypeOK
    <3> QED
      BY <3>1, <3>4
  <2> QED BY <2>1, <2>2
<1>3. LogsKept /\ file' = file
  BY <1>1, <1>2, MediumLogsKept DEF fileVars, sync_data, SyncError
<1>4. HeadersHold' /\ FirstIsEmpty' /\ AckedAreDurable'
  BY <1>1, <1>3, SavedKept DEF HistoryInv, CommitInv
<1>5. HandleHolds' /\ HandleAcked'
  BY <1>1, <1>3, HandleReadsOn DEF HistoryInv
<1>6. MasterIsNew'
  BY <1>2, <1>3 DEF HistoryInv, MasterIsNew, HeadersWithin, LogsKept
<1> QED
  BY <1>1, <1>4, <1>5, <1>6 DEF HistoryInv, HistoryTypeOK

(* Writing the header preserves the invariant: it leads to the handle's    *)
(* index, and so to everything acknowledged, while the live header stays.  *)
LEMMA WriteHeaderHistoryStep ==
    ASSUME TypeOK, TypeOK', RecoveryInv, CommitInv, CommitInv', HistoryInv,
           CommitWriteHeader, saved' = [saved EXCEPT ![master_ptr] = inserted],
           UNCHANGED <<inserted, acked>>
    PROVE  HistoryInv'
<1> DEFINE v == victim_slot(slots)
           N == header_encode(NextHeader)
<1>1. /\ FileTypeOK /\ FileTypeOK' /\ FileInv /\ HeadersIndexed
      /\ pc = "write_header" /\ pc' = "sync_header" /\ UNCHANGED handleVars
      /\ write_all_at(<<N>>, v) /\ index \in MasterIndex /\ header \in Header
      /\ end \in LOG_START .. FileCap /\ end \in Int
  BY ConstantTypes DEF TypeOK, RecoveryInv, CommitInv, CommitWriteHeader
<1>2. /\ IsOpen /\ IsOpen' /\ v \in Slot /\ v # live_slot /\ live_slot \in Slot
      /\ \A s \in Slot : s = v \/ s = live_slot
  BY <1>1, OpenStates, VictimIsNotLive, ConstantTypes DEF TypeOK
<1>3. /\ \A o \in Offset \ {v} : file'[o] = file[o] /\ disk'[o] = disk[o]
      /\ \A c \in disk'[v] : c.tag = "header" => c \in disk[v] \/ c = N
      /\ \A o \in Offset : disk[o] = {file[o]}
  BY <1>1, HeaderWriteKeepsFile
<1>4. /\ N.tag = "header" /\ N.header = NextHeader
      /\ NextHeader.master_ptr = master_ptr /\ NextHeader.log_end = end
      /\ NextHeader.master_len = EncodedLen(index)
  BY DEF header_encode, NextHeader
<1>5. \A e \in LOG_START .. FileCap : \A o \in LOG_START .. e - 1 : file'[o] = file[o]
  BY <1>2, <1>3, ConstantTypes DEF Offset
<1>6. /\ master_ptr \in Offset /\ LOG_START <= master_ptr /\ master_ptr < end
      /\ HeadersWithin(master_ptr)
  <2>1. MasterBelow(master_ptr, end)
    BY <1>1 DEF RecoveryInv, HandleInv, HandleCommitting
  <2>2. /\ LOG_START <= master_ptr /\ HasMaster(file, master_ptr)
        /\ master_ptr + file[master_ptr].len < end
    BY <2>1 DEF MasterBelow
  <2>3. master_ptr \in Offset /\ file[master_ptr].len \in Nat
    BY <1>1, <2>2, MasterShape DEF FileTypeOK
  <2>4. master_ptr \in Nat
    BY <2>3, ConstantTypes DEF Offset
  <2> QED
    BY <1>1, <2>2, <2>3, <2>4 DEF HistoryInv, MasterIsNew
<1>7. HandleHolds' /\ HandleAcked'
  <2>1. /\ UNCHANGED <<header, inserted, acked>> /\ index'.offsets = index.offsets
        /\ \A o \in LOG_START .. end - 1 : file'[o] = file[o]
    BY <1>1, <1>5 DEF handleVars
  <2> QED
    BY <1>1, <1>2, <2>1, HandleReadsOn DEF HistoryInv
<1>8. load_index(file', NextHeader) = index
  <2>1. read_record_at(file', master_ptr).payload = index_encode(index)
    BY <1>1 DEF CommitInv, MasterHoldsIndex, handleVars
  <2>2. EncodedLen(index) # 0
    BY <1>1, EncodedLenType
  <2> QED
    BY <1>1, <1>4, <2>1, <2>2, LoadIndexEncoded
<1>9. /\ HistoryTypeOK' /\ saved'[master_ptr] = inserted
      /\ \A o \in Offset : o # master_ptr => saved'[o] = saved[o]
  BY <1>6 DEF HistoryInv, HistoryTypeOK
<1> HIDE DEF N, v
<1>10. ASSUME NEW s \in Slot, NEW c \in disk[s], c.tag = "header"
       PROVE  /\ load_index(file', c.header) = load_index(file, c.header)
              /\ \A ins : Holds(file, load_index(file, c.header), ins)
                             => Holds(file', load_index(file', c.header), ins)
  <2>1. c.header.log_end \in LOG_START .. FileCap
    BY <1>1, <1>10, CandidateType
  <2>2. \A o \in LOG_START .. c.header.log_end - 1 : file'[o] = file[o]
    BY <1>5, <2>1
  <2> QED
    BY <1>1, <1>10, <2>2, HeaderKept
<1>11. HeadersHold'
  <2> SUFFICES ASSUME NEW s \in Slot, NEW c \in disk'[s], c.tag = "header"
               PROVE  /\ c.header.master_ptr < c.header.log_end
                      /\ Holds(file', load_index(file', c.header),
                               saved'[c.header.master_ptr])
    BY DEF HeadersHold
  <2>1. CASE c = N
    <3>1. Holds(file', index, inserted)
      BY <1>1, <1>7 DEF HandleHolds, handleVars
    <3> QED
      BY <1>4, <1>6, <1>8, <1>9, <2>1, <3>1
  <2>2. CASE c \in disk[s]
    <3>1. /\ c.header.master_ptr < c.header.log_end
          /\ Holds(file, load_index(file, c.header), saved[c.header.master_ptr])
      BY <2>2 DEF HistoryInv, HeadersHold
    <3>2. c.header.log_end <= master_ptr
      BY <1>6, <2>2 DEF HeadersWithin
    <3>3. c.header.log_end \in LOG_START .. FileCap /\ c.header.master_ptr \in Nat
      BY <1>1, <2>2, CandidateType DEF Header
    <3>4. c.header.master_ptr \in Offset /\ c.header.master_ptr # master_ptr
      BY <1>6, <3>1, <3>2, <3>3, ConstantTypes DEF Offset
    <3>5. saved'[c.header.master_ptr] = saved[c.header.master_ptr]
      BY <1>9, <3>4
    <3> QED
      BY <1>10, <2>2, <3>1, <3>5
  <2> QED
    BY <1>2, <1>3, <2>1, <2>2, ConstantTypes
<1>12. FirstIsEmpty'
  <2>1. 0 \in Offset /\ 0 # master_ptr
    BY <1>6, ConstantTypes
  <2> QED
    BY <1>9, <2>1 DEF HistoryInv, FirstIsEmpty
<1>13. AckedAreDurable'
  <2>1. \A c \in disk'[live_slot] : Acknowledges(c)'
    <3>1. disk'[live_slot] = {header_encode(header)} /\ header' = header
      BY <1>1, <1>2, <1>3, ConstantTypes
      DEF RecoveryInv, HandleInv, HandleOpen, handleVars
    <3>2. acked' \subseteq Known(load_index(file', header))
      BY <1>2, <1>7, <3>1 DEF HandleAcked
    <3> QED
      BY <3>1, <3>2 DEF Acknowledges, header_encode
  <2>2. ASSUME acked # {}, NEW d \in disk'[v], d.tag = "header"
        PROVE  \/ Acknowledges(d)'
               \/ \A c \in disk'[live_slot] : d.header.generation < c.header.generation
    <3>1. CASE d = N
      <4>1. acked \subseteq Known(index)
        BY <1>2 DEF HistoryInv, HandleAcked
      <4> QED
        BY <1>4, <1>8, <3>1, <4>1 DEF Acknowledges
    <3>2. CASE d \in disk[v]
      <4>1. disk'[live_slot] = disk[live_slot]
        BY <1>2, <1>3, ConstantTypes
      <4>2. PICK s \in Slot :
              /\ \A c \in disk[s] : Acknowledges(c)
              /\ \A t \in Slot \ {s} : \A x \in disk[t] :
                    x.tag = "header" =>
                       \/ Acknowledges(x)
                       \/ \A c \in disk[s] : x.header.generation < c.header.generation
        BY <2>2 DEF HistoryInv, AckedAreDurable
      <4>3. \/ Acknowledges(d)
            \/ \A c \in disk[live_slot] : d.header.generation < c.header.generation
        BY <1>2, <2>2, <3>2, <4>2
      <4>4. Acknowledges(d) => Acknowledges(d)'
        BY <1>2, <1>10, <2>2, <3>2 DEF Acknowledges
      <4> QED
        BY <4>1, <4>3, <4>4
    <3> QED
      BY <1>3, <2>2, <3>1, <3>2
  <2> QED
    BY <1>2, <2>1, <2>2 DEF AckedAreDurable
<1> QED
  BY <1>1, <1>7, <1>9, <1>11, <1>12, <1>13 DEF HistoryInv, MasterIsNew

(* A commit that returns Ok preserves the invariant: its header, alone in  *)
(* its slot and newer than the other one, leads to every document that it  *)
(* acknowledges.                                                           *)
LEMMA SyncHeaderHistoryStep ==
    ASSUME TypeOK, TypeOK', RecoveryInv, RecoveryInv', CommitInv, CommitInv', HistoryInv,
           CommitSyncHeader, acked' = acked \cup Known(index),
           UNCHANGED <<inserted, saved>>
    PROVE  HistoryInv'
<1> DEFINE v == victim_slot(slots)
<1>1. /\ FileTypeOK /\ FileTypeOK' /\ FileInv /\ FileInv'
      /\ pc = "sync_header" /\ pc' = "idle" /\ sync_data /\ file' = file
      /\ header \in Header /\ header' = NextHeader /\ ~dirty' /\ index' = index
      /\ live_slot' = v
  BY DEF TypeOK, RecoveryInv, CommitSyncHeader, InstallHeader, CommitReturns, sync_data
<1>2. /\ IsOpen /\ IsOpen' /\ v \in Slot /\ v # live_slot /\ live_slot \in Slot
      /\ \A s \in Slot : s = v \/ s = live_slot
  BY <1>1, OpenStates, VictimIsNotLive, ConstantTypes DEF TypeOK
<1>3. LogsKept
  BY <1>1, MediumLogsKept
<1>4. load_index(file', header') = index
  BY <1>1, <1>2 DEF CommitInv, DirtyMeansUnsaved
<1>5. acked' = Known(index)
  BY <1>2 DEF HistoryInv, HandleAcked
<1>6. HandleHolds' /\ HandleAcked'
  BY <1>1, <1>4, <1>5 DEF HistoryInv, HandleHolds, HandleAcked
<1>7. HeadersHold' /\ FirstIsEmpty'
  <2>1. ASSUME NEW s \in Slot, NEW c \in disk'[s], c.tag = "header"
        PROVE  /\ c.header.master_ptr < c.header.log_end
               /\ Holds(file', load_index(file', c.header), saved'[c.header.master_ptr])
    BY <1>1, <1>3, <2>1 DEF LogsKept, HistoryInv, HeadersHold
  <2> QED
    BY <2>1 DEF HeadersHold, HistoryInv, FirstIsEmpty
<1>8. /\ disk'[v] = {header_encode(header')}
      /\ disk'[live_slot] = {header_encode(header)}
  <2>1. \A s \in Slot : disk'[s] = {file'[s]}
    BY <1>1, ConstantTypes DEF FileInv, SyncedIsCached, sync_data
  <2>2. file'[v] = header_encode(header') /\ file'[live_slot] = header_encode(header)
    BY <1>1, <1>2 DEF RecoveryInv, HandleInv, HandleOpen
  <2> QED
    BY <1>2, <2>1, <2>2
<1>9. header.generation < header'.generation
  BY <1>1 DEF NextHeader, Header
<1>10. AckedAreDurable'
  <2>1. \A c \in disk'[v] : Acknowledges(c)'
    BY <1>4, <1>5, <1>8 DEF Acknowledges, header_encode
  <2>2. \A d \in disk'[live_slot] : \A c \in disk'[v] :
          d.header.generation < c.header.generation
    BY <1>8, <1>9 DEF header_encode
  <2> HIDE DEF v
  <2> QED
    BY <1>2, <2>1, <2>2 DEF AckedAreDurable
<1>11. HistoryTypeOK'
  BY <1>5 DEF HistoryInv, HistoryTypeOK, Known
<1> QED
  BY <1>1, <1>6, <1>7, <1>10, <1>11 DEF HistoryInv, MasterIsNew

(* Losing the handle or the power preserves the invariant. *)
LEMMA CloseHistoryStep ==
    ASSUME TypeOK, TypeOK', RecoveryInv, CommitInv, HistoryInv, Closes
    PROVE  HistoryInv'
<1>1. /\ FileTypeOK /\ FileTypeOK' /\ FileInv /\ HeadersIndexed
      /\ UNCHANGED fileVars \/ PowerCut
      /\ pc' = "closed" /\ index' = DefaultIndex
      /\ inserted' = [id \in DocId |-> Nothing] /\ UNCHANGED <<saved, acked>>
  BY DEF TypeOK, RecoveryInv, CommitInv, Closes, Drop, PowerLoss, NoHandle
<1>2. LogsKept
  BY <1>1, MediumLogsKept
<1>3. HeadersHold' /\ FirstIsEmpty' /\ AckedAreDurable'
  BY <1>1, <1>2, SavedKept DEF HistoryInv
<1>4. HandleHolds' /\ HandleAcked'
  BY <1>1, NoHandleReads DEF IsOpen
<1>5. HistoryTypeOK'
  BY <1>1 DEF HistoryInv, HistoryTypeOK
<1> QED
  BY <1>1, <1>3, <1>4, <1>5 DEF HistoryInv, MasterIsNew

(* Every step but Damage is one of the engine's, or none of them. *)
LEMMA EngineSteps ==
    ASSUME ClientNext, ~Damage
    PROVE  [Next]_vars /\ UNCHANGED damages
<1>1. "Blob" \in AppendKinds
  BY ClientAssumption
<1>2. CASE open
  BY <1>2 DEF open, history, Next
<1>3. CASE commit
  BY <1>3 DEF commit, history, Next, CommitNext
<1>4. CASE Closes
  BY <1>4 DEF Closes, Next
<1>5. CASE \E value \in Doc \cup Refused : insert(value) \/ insert_refused(value)
  BY <1>1, <1>5 DEF insert, insert_refused, encodable, history, Next
<1>6. CASE \E d \in Doc : (AppendError("Blob", d) \/ AppendTooLarge(d)) /\ UNCHANGED history
  BY <1>1, <1>6 DEF history, Next
<1>7. CASE \E id \in DocId : delete(id)
  BY <1>7 DEF delete, history, Next
<1> QED
  BY <1>2, <1>3, <1>4, <1>5, <1>6, <1>7 DEF ClientNext

(* Damage leaves cells in the file, if not those it held. *)
LEMMA DamageTyped ==
    ASSUME TypeOK, Damage
    PROVE  TypeOK'
<1>1. PICK o \in Offset, c \in {Zero, Torn} :
         /\ file' = [file EXCEPT ![o] = c]
         /\ disk' = [disk EXCEPT ![o] = {c}]
         /\ unsynced' = unsynced \ {o}
  BY DEF Damage
<1>2. c \in Cell
  BY SpecialCells
<1>3. FileTypeOK'
  BY <1>1, <1>2 DEF TypeOK, FileTypeOK
<1> QED
  BY <1>3 DEF Damage, TypeOK, handleVars

(* Every step of an undamaged file preserves the invariant. *)
LEMMA StepHistory ==
    ASSUME TypeOK, TypeOK', RecoveryInv, RecoveryInv', CommitInv, CommitInv', HistoryInv,
           ClientNext, ~Damage
    PROVE  HistoryInv'
<1>1. ASSUME UNCHANGED vars, UNCHANGED history
      PROVE  HistoryInv'
  BY <1>1
  DEF vars, fileVars, handleVars, history, HistoryInv, HistoryTypeOK, HandleHolds, HeadersHold,
      FirstIsEmpty, MasterIsNew, HeadersWithin, AckedAreDurable, Acknowledges, HandleAcked, IsOpen
<1>2. CASE open
  BY <1>1, <1>2, CreateHistoryStep, InitializeHistoryStep, LoadHistoryStep
  DEF open, OpenRejected
<1>3. CASE commit
  <2>1. CASE \/ CommitWriteHeader /\ saved' = [saved EXCEPT ![master_ptr] = inserted]
                /\ UNCHANGED <<inserted, acked, damages>>
             \/ CommitSyncHeader /\ acked' = acked \cup Known(index)
                /\ UNCHANGED <<inserted, saved, damages>>
    BY <2>1, WriteHeaderHistoryStep, SyncHeaderHistoryStep
  <2>2. CASE /\ \/ CommitClean \/ CommitSyncRecords \/ CommitAppendMaster
                \/ CommitSyncMaster \/ CommitMasterTooLarge \/ CommitMasterError
                \/ CommitHeaderError \/ CommitSyncError
             /\ UNCHANGED history
    BY <1>1, <2>2, RecordHistoryStep, ErrorHistoryStep, SyncHistoryStep DEF CommitClean
  <2> QED
    BY <1>3, <2>1, <2>2 DEF commit
<1>4. CASE Closes
  BY <1>4, CloseHistoryStep
<1>5. CASE \E value \in Doc \cup Refused : insert(value) \/ insert_refused(value)
  <2>1. PICK value \in Doc \cup Refused : insert(value) \/ insert_refused(value)
    BY <1>5
  <2>2. CASE insert(value)
    BY <2>2, InsertHistoryStep DEF insert, encodable
  <2>3. CASE insert_refused(value)
    BY <1>1, <2>3 DEF insert_refused
  <2> QED BY <2>1, <2>2, <2>3
<1>6. CASE \E d \in Doc : (AppendError("Blob", d) \/ AppendTooLarge(d)) /\ UNCHANGED history
  BY <1>1, <1>6, ErrorHistoryStep, ClientAssumption DEF AppendTooLarge
<1>7. CASE \E id \in DocId : delete(id)
  BY <1>1, <1>7, ErrorHistoryStep, RecordHistoryStep DEF delete, TombstoneMissing
<1> QED
  BY <1>2, <1>3, <1>4, <1>5, <1>6, <1>7 DEF ClientNext

-----------------------------------------------------------------------------
(* The theorems. *)

(* The state stays typed, of a damaged file too. *)
THEOREM ClientTypeCorrect == ClientSpec => [](TypeOK /\ damages \in Nat)
<1>1. ClientInit => TypeOK /\ damages \in Nat
  BY InitTyped DEF ClientInit
<1>2. TypeOK /\ damages \in Nat /\ [ClientNext]_<<vars, history>>
        => (TypeOK /\ damages \in Nat)'
  <2> SUFFICES ASSUME TypeOK, damages \in Nat, [ClientNext]_<<vars, history>>
               PROVE  TypeOK' /\ damages' \in Nat
    OBVIOUS
  <2>1. CASE Damage
    <3>1. damages' = damages + 1
      BY <2>1 DEF Damage
    <3> QED
      BY <2>1, <3>1, DamageTyped
  <2>2. CASE ClientNext /\ ~Damage
    BY <2>2, EngineSteps, StepTyped
  <2>3. CASE UNCHANGED <<vars, history>>
    BY <2>3, StepTyped DEF history
  <2> QED BY <2>1, <2>2, <2>3
<1> QED
  BY <1>1, <1>2, PTL DEF ClientSpec

(* Unless the kernel drops the pages of a failed sync, the file holds for  *)
(* the handle, and for every header a crash may leave, what callers        *)
(* inserted, and a reopen finds whatever was acknowledged (api.rs).        *)
THEOREM HandleInvariant ==
    ASSUME ~SyncErrorDropsWrites
    PROVE  ClientSpec => []ClientInv
<1>1. ClientInit => ClientInv
  <2> SUFFICES ASSUME ClientInit
               PROVE  HistoryInv
    BY InitRecoverable, InitCommitted DEF ClientInit, ClientInv
  <2>1. \A o \in Offset : disk[o] = {Eof}
    BY DEF ClientInit, Init, FileInit
  <2>2. \A s \in Slot : \A c \in disk[s] : c.tag # "header"
    BY <2>1, ConstantTypes DEF Eof
  <2>3. HandleHolds
    BY HoldsNothing DEF ClientInit, Init, HandleHolds
  <2>4. HistoryTypeOK /\ FirstIsEmpty
    BY ConstantTypes DEF ClientInit, HistoryTypeOK, FirstIsEmpty
  <2> QED
    BY <2>2, <2>3, <2>4
    DEF ClientInit, Init, HistoryInv, HeadersHold, MasterIsNew, AckedAreDurable, HandleAcked,
        IsOpen
<1>2. TypeOK /\ TypeOK' /\ damages \in Nat /\ ClientInv /\ [ClientNext]_<<vars, history>>
        => ClientInv'
  <2> SUFFICES ASSUME TypeOK, TypeOK', damages \in Nat, ClientInv,
                      [ClientNext]_<<vars, history>>, damages' = 0
               PROVE  RecoveryInv' /\ CommitInv' /\ HistoryInv'
    BY DEF ClientInv
  <2>1. ~Damage
    BY DEF Damage
  <2>2. [Next]_vars /\ UNCHANGED damages
    BY <2>1, EngineSteps DEF history
  <2>3. RecoveryInv /\ CommitInv /\ HistoryInv
    BY <2>2 DEF ClientInv
  <2>4. RecoveryInv' /\ CommitInv'
    BY <2>2, <2>3, StepRecoverable, StepCommitted
  <2>5. CASE ClientNext
    BY <2>1, <2>3, <2>4, <2>5, StepHistory
  <2>6. CASE UNCHANGED <<vars, history>>
    BY <2>3, <2>4, <2>6
    DEF vars, fileVars, handleVars, history, HistoryInv, HistoryTypeOK, HandleHolds,
        HeadersHold, FirstIsEmpty, MasterIsNew, HeadersWithin, AckedAreDurable, Acknowledges,
        HandleAcked, IsOpen
  <2> QED BY <2>4, <2>5, <2>6
<1> QED
  BY <1>1, <1>2, ClientTypeCorrect, PTL DEF ClientSpec

(* While nothing damages the file, a handle reads back exactly what was    *)
(* inserted, through failed calls, crashes and power cuts, and len and     *)
(* is_empty agree with what get returns (api.rs get, len, is_empty).       *)
THEOREM ReadsBack ==
    ASSUME ~SyncErrorDropsWrites
    PROVE  ClientSpec => []ReadsWhatWasInserted
<1>1. TypeOK /\ ClientInv => ReadsWhatWasInserted
  <2> SUFFICES ASSUME TypeOK, RecoveryInv, CommitInv, HistoryInv, pc = "idle"
               PROVE  /\ \A id \in DocId :
                            get(id) = IF id \in ids THEN inserted[id]
                                      ELSE IF inserted[id] = Nothing THEN NotFound
                                      ELSE Deleted
                      /\ len = Cardinality({id \in DocId : get(id) \in Doc})
                      /\ is_empty <=> \A id \in DocId : get(id) \notin Doc
    BY DEF ClientInv, ReadsWhatWasInserted
  <2>1. /\ index \in MasterIndex /\ IndexWithin(file, index, end)
        /\ Holds(file, index, inserted) /\ file \in [Offset -> Cell]
    BY OpenStates DEF TypeOK, FileTypeOK, CommitInv, HandleIndexed, HistoryInv, HandleHolds
  <2>2. index.dead \subseteq Known(index)
    BY <2>1 DEF IndexWithin
  <2>3. ASSUME NEW id \in DocId
        PROVE  /\ id \in ids => get(id) = inserted[id] /\ inserted[id] \in Doc
               /\ id \notin ids =>
                    get(id) = IF inserted[id] = Nothing THEN NotFound ELSE Deleted
    <3> DEFINE r == read_record_at(file, index.offsets[id])
    <3>1. CASE id \in ids
      <4>1. id \in Known(index) /\ id \notin index.dead
        BY <3>1 DEF ids, live_ids
      <4>2. inserted[id] \in Doc /\ r.payload = doc_payload(inserted[id])
        BY <2>1, <4>1 DEF Holds
      <4>3. RecordWithin(file, index.offsets[id], end)
        BY <2>1, <4>1 DEF IndexWithin
      <4>4. r # Unreadable
        BY <4>3 DEF RecordWithin
      <4>5. PICK k, p : r = [kind |-> k, payload |-> p]
        BY <2>1, <4>4, RecordShape
      <4>6. r \notin {Deleted, NotFound, Unreadable}
        BY <4>4, <4>5 DEF Deleted, NotFound
      <4>7. read_record(file, index, id) = r
        BY <4>1 DEF read_record
      <4> HIDE DEF r
      <4>8. get(id) = from_bson_bytes(r.payload)
        BY <4>6, <4>7 DEF get
      <4> QED
        BY <3>1, <4>2, <4>8, DocDecoded
    <3>2. CASE id \in index.dead
      <4>1. id \in Known(index) /\ id \notin ids
        BY <2>2, <3>2 DEF ids, live_ids
      <4>2. inserted[id] # Nothing
        BY <2>1, <4>1, ResultAssumption DEF Holds
      <4>3. get(id) = Deleted
        BY <3>2 DEF get, read_record
      <4> QED
        BY <4>1, <4>2, <4>3
    <3>3. CASE id \notin Known(index)
      <4>1. id \notin ids /\ id \notin index.dead
        BY <2>2, <3>3 DEF ids, live_ids
      <4>2. inserted[id] = Nothing
        BY <2>1, <3>3 DEF Holds
      <4>3. get(id) = NotFound
        BY <3>3, <4>1 DEF get, read_record
      <4> QED
        BY <4>1, <4>2, <4>3
    <3> QED
      BY <3>1, <3>2, <3>3 DEF ids, live_ids
  <2>4. \A id \in DocId : get(id) \in Doc <=> id \in ids
    BY <2>3, ResultAssumption
  <2>5. ids = {id \in DocId : get(id) \in Doc}
    BY <2>4 DEF ids, live_ids, Known
  <2>6. len = Cardinality(ids) /\ IsFiniteSet(ids)
    BY <2>1, LiveCount DEF len, ids
  <2>7. is_empty <=> ids = {}
    BY <2>6, FS_EmptySet DEF is_empty
  <2> QED
    BY <2>3, <2>4, <2>5, <2>6, <2>7
<1> QED
  BY <1>1, ClientTypeCorrect, HandleInvariant, PTL

(* While nothing damages the file, insert never returns the id of a        *)
(* document that a commit acknowledged, whatever was deleted, failed or    *)
(* lost since (index.rs allocate_id, header.rs select_live).               *)
THEOREM UniqueIds ==
    ASSUME ~SyncErrorDropsWrites
    PROVE  ClientSpec => []AckedIdsAreUnique
<1>1. TypeOK /\ ClientInv => AckedIdsAreUnique
  <2> SUFFICES ASSUME TypeOK, CommitInv, HistoryInv, pc = "idle"
               PROVE  index.next_doc_id \notin acked
    BY DEF ClientInv, AckedIdsAreUnique
  <2>1. /\ index \in MasterIndex /\ IndexWithin(file, index, end)
        /\ acked \subseteq Known(index)
    BY OpenStates DEF TypeOK, CommitInv, HandleIndexed, HistoryInv, HandleAcked
  <2>2. Known(index) = 1 .. index.next_doc_id - 1 /\ index.next_doc_id \in Int
    BY <2>1 DEF IndexWithin, MasterIndex
  <2> QED
    BY <2>1, <2>2
<1> QED
  BY <1>1, ClientTypeCorrect, HandleInvariant, PTL

(* Whatever the medium does and whatever fails, verify reports foreign     *)
(* bytes anywhere in the committed log: a walk that ends at log_end has    *)
(* compared every cell on its way with a checksum (engine.rs verify).      *)
THEOREM DamageIsFound == ClientSpec => []VerifyFindsDamage
<1>1. TypeOK => VerifyFindsDamage
  <2> SUFFICES ASSUME TypeOK, VerifyError \notin verify(file, header.log_end)
               PROVE  \A o \in LOG_START .. header.log_end - 1 : file[o] # Torn
    BY DEF VerifyFindsDamage
  <2>1. file \in [Offset -> Cell] /\ header.log_end \in LOG_START .. FileCap
    BY DEF TypeOK, FileTypeOK, Header
  <2> QED
    BY <2>1, WalkedIsWhole
<1> QED
  BY <1>1, ClientTypeCorrect, PTL
=============================================================================
