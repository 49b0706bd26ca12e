-------------------------- MODULE SharedFileProofs --------------------------
(***************************************************************************)
(* Proofs about several processes on one file: its types whatever the      *)
(* processes do, and what processes that coordinate may rely on.           *)
(***************************************************************************)
EXTENDS SharedFileInvariant, FormatProofs

(* What a header may let a handle read, and the attempts at one. *)
SnapshotSet == {Snapshot(f, x) : f \in [Offset -> Cell], x \in MasterIndex}

AttemptSet == [header : Header, reads : SnapshotSet]

(* Where a commit has appended its master index, the log is long enough to *)
(* hold it.                                                                *)
PointerType ==
    \A p \in Proc :
        MasterAppended(p) =>
            handle[p].end - EncodedLen(handle[p].index) - RECORD_HEADER_SIZE \in Nat

(* TypeOK with the types it leaves out. *)
TypeInv ==
    /\ TypeOK
    /\ attempts \in Seq(AttemptSet)
    /\ PointerType

LEMMA WrittenType ==
    ASSUME NEW f \in [Offset -> Cell], NEW cells \in Seq(Cell), NEW o \in Nat
    PROVE  /\ Written(f, cells, o) \in [Offset -> Cell]
           /\ \A x \in Offset : x \notin o .. o + Len(cells) - 1
                                  => Written(f, cells, o)[x] = f[x]
           /\ \A x \in Offset : x \in o .. o + Len(cells) - 1
                                  => Written(f, cells, o)[x] = cells[x - o + 1]
<1>1. \A x \in o .. o + Len(cells) - 1 : x - o + 1 \in 1 .. Len(cells)
  OBVIOUS
<1>2. \A x \in o .. o + Len(cells) - 1 : cells[x - o + 1] \in Cell
  BY <1>1
<1> QED
  BY <1>2 DEF Written

(* A prefix of the cells leaves the rest of the file alone too. *)
LEMMA PrefixWritten ==
    ASSUME NEW f \in [Offset -> Cell], NEW cells \in Seq(Cell), NEW o \in Nat,
           NEW k \in 0 .. Len(cells)
    PROVE  LET g == Written(f, SubSeq(cells, 1, k), o)
           IN /\ g \in [Offset -> Cell]
              /\ \A x \in Offset : x \notin o .. o + k - 1 => g[x] = f[x]
<1> DEFINE s == SubSeq(cells, 1, k)
<1>1. s \in Seq(Cell) /\ Len(s) = k
  OBVIOUS
<1> HIDE DEF s
<1>2. /\ Written(f, s, o) \in [Offset -> Cell]
      /\ \A x \in Offset : x \notin o .. o + Len(s) - 1 => Written(f, s, o)[x] = f[x]
  BY <1>1, WrittenType
<1> QED
  BY <1>1, <1>2 DEF s

(* The length of the file counts cells up to the device's capacity. *)
LEMMA FileLenType == FileLen \in 0 .. FileCap
<1> DEFINE S == {o \in Offset : file[o] # Eof}
<1>1. IsFiniteSet(Offset) /\ Cardinality(Offset) = FileCap
  BY FS_Interval, ConstantTypes DEF Offset
<1>2. IsFiniteSet(S) /\ Cardinality(S) <= Cardinality(Offset)
  BY <1>1, FS_Subset, FS_CardinalityType
<1>3. Cardinality(S) \in Nat
  BY <1>2, FS_CardinalityType
<1> QED
  BY <1>1, <1>2, <1>3, ConstantTypes DEF FileLen

(* It is at least e when every cell below e is in the file. *)
LEMMA FileLenCovers ==
    ASSUME NEW e \in 0 .. FileCap, \A o \in 0 .. e - 1 : file[o] # Eof
    PROVE  FileLen >= e
<1> DEFINE S == {o \in Offset : file[o] # Eof}
<1>1. IsFiniteSet(Offset)
  BY FS_Interval, ConstantTypes DEF Offset
<1>2. 0 .. e - 1 \subseteq S
  BY ConstantTypes DEF Offset
<1>3. IsFiniteSet(S)
  BY <1>1, FS_Subset
<1>4. Cardinality(0 .. e - 1) = e
  BY FS_Interval, ConstantTypes
<1>5. Cardinality(0 .. e - 1) <= Cardinality(S)
  BY <1>2, <1>3, FS_Subset
<1>6. Cardinality(S) \in Nat
  BY <1>3, FS_CardinalityType
<1> QED
  BY <1>4, <1>5, <1>6, ConstantTypes DEF FileLen

(* It is no more than 1 when no cell but the first is. *)
LEMMA FileLenSmall ==
    ASSUME \A o \in Offset \ {0} : file[o] = Eof
    PROVE  FileLen <= 1
<1> DEFINE S == {o \in Offset : file[o] # Eof}
<1>1. IsFiniteSet({0}) /\ Cardinality({0}) = 1
  BY FS_Singleton
<1>2. S \subseteq {0}
  OBVIOUS
<1> QED
  BY <1>1, <1>2, FS_Subset DEF FileLen

(* It is 0 when no cell is. *)
LEMMA FileLenEmpty ==
    ASSUME \A o \in Offset : file[o] = Eof
    PROVE  FileLen = 0
<1>1. {o \in Offset : file[o] # Eof} = {}
  OBVIOUS
<1> QED
  BY <1>1, FS_EmptySet DEF FileLen

(* Where p goes, and only p. *)
LEMMA GotoType ==
    ASSUME TypeOK, NEW p \in Proc, NEW step \in Steps, Goto(p, step)
    PROVE  /\ pc' \in [Proc -> Steps] /\ pc'[p] = step
           /\ \A q \in Proc \ {p} : pc'[q] = pc[q]
  BY DEF TypeOK, Goto

(* The header a commit writes. *)
LEMMA NextHeaderType ==
    ASSUME TypeInv, NEW p \in Proc, MasterAppended(p)
    PROVE  NextHeader(handle[p]) \in Header
<1>1. handle[p] \in Handle
  BY DEF TypeInv, TypeOK
<1>2. EncodedLen(handle[p].index) \in Nat
  BY <1>1, EncodedLenType DEF Handle
<1> QED
  BY <1>1, <1>2 DEF NextHeader, Handle, Header, TypeInv, PointerType

(* What append_raw does, whoever calls it. *)
Appended(p, kind, payload, x) ==
    LET end == handle[p].end
    IN /\ file' \in [Offset -> Cell] /\ handle' \in [Proc -> Handle]
       /\ UNCHANGED <<openVars, history, faults>>
       /\ \A q \in Proc \ {p} : handle'[q] = handle[q]
       /\ handle'[p].header = handle[p].header
       /\ handle'[p].slots = handle[p].slots
       /\ handle'[p].index = x
       /\ handle'[p].dirty = TRUE
       /\ end \in LOG_START .. FileCap
       /\ handle'[p].end = end + 1 + Len(payload)
       /\ handle'[p].end <= FileCap /\ Len(payload) <= MaxRecordLen
       /\ Len(payload) \in Nat
       /\ \A o \in Offset : o < end => file'[o] = file[o]
       /\ \A o \in end .. end + Len(payload) :
             file'[o] = record_cells(kind, payload)[o - end + 1]

LEMMA AppendRawShape ==
    ASSUME TypeInv, NEW p \in Proc, NEW kind \in RecordKind, NEW payload \in Seq(Word),
           NEW x \in MasterIndex, append_raw(p, kind, payload, x)
    PROVE  Appended(p, kind, payload, x)
<1> DEFINE cells == record_cells(kind, payload)
           end == handle[p].end
<1>1. /\ handle \in [Proc -> Handle] /\ handle[p] \in Handle /\ file \in [Offset -> Cell]
      /\ end \in LOG_START .. FileCap /\ end \in Nat
  BY ConstantTypes DEF TypeInv, TypeOK, Handle
<1>2. /\ cells \in Seq(Cell) /\ Len(cells) = 1 + Len(payload) /\ Len(payload) \in Nat
  BY RecordCellsType
<1>3. /\ file' = Written(file, cells, end)
      /\ handle' = [handle EXCEPT ![p].end = end + Len(cells),
                                  ![p].dirty = TRUE,
                                  ![p].index = x]
      /\ end + Len(cells) <= FileCap /\ Len(payload) <= MaxRecordLen
      /\ UNCHANGED <<openVars, history, faults>>
  BY DEF append_raw
<1>4. /\ file' \in [Offset -> Cell]
      /\ \A o \in Offset : o \notin end .. end + Len(cells) - 1 => file'[o] = file[o]
      /\ \A o \in Offset : o \in end .. end + Len(cells) - 1 => file'[o] = cells[o - end + 1]
  <2>1. file' = Written(file, cells, end)
    BY <1>3
  <2>2. file \in [Offset -> Cell] /\ cells \in Seq(Cell) /\ end \in Nat
    BY <1>1, <1>2
  <2> HIDE DEF cells, end
  <2>3. /\ Written(file, cells, end) \in [Offset -> Cell]
        /\ \A o \in Offset : o \notin end .. end + Len(cells) - 1
                                => Written(file, cells, end)[o] = file[o]
        /\ \A o \in Offset : o \in end .. end + Len(cells) - 1
                                => Written(file, cells, end)[o] = cells[o - end + 1]
    BY <2>2, WrittenType
  <2> QED BY <2>1, <2>3
<1>5. /\ handle' \in [Proc -> Handle]
      /\ \A q \in Proc \ {p} : handle'[q] = handle[q]
      /\ handle'[p] = [handle[p] EXCEPT !.end = end + Len(cells), !.dirty = TRUE, !.index = x]
  <2> HIDE DEF cells, end
  <2>1. end + Len(cells) \in LOG_START .. FileCap
    BY <1>1, <1>2, <1>3, ConstantTypes
  <2> QED BY <1>1, <1>3, <2>1 DEF Handle
<1>6. \A o \in end .. end + Len(payload) :
         o \in Offset /\ o \in end .. end + Len(cells) - 1
  <2> HIDE DEF cells, end
  <2> QED BY <1>1, <1>2, <1>3, ConstantTypes DEF Offset
<1>7. \A o \in Offset : o < end => o \notin end .. end + Len(cells) - 1
  <2> HIDE DEF cells, end
  <2> QED BY <1>1, ConstantTypes DEF Offset
<1>8. handle'[p].end = end + 1 + Len(payload)
  BY <1>1, <1>2, <1>5 DEF Handle
<1>9. /\ handle'[p].header = handle[p].header /\ handle'[p].slots = handle[p].slots
      /\ handle'[p].index = x /\ handle'[p].dirty = TRUE
  BY <1>1, <1>5 DEF Handle
<1>10. handle'[p].end <= FileCap
  BY <1>1, <1>2, <1>3, <1>8
<1>11. \A o \in Offset : o < end => file'[o] = file[o]
  BY <1>4, <1>7
<1>12. \A o \in end .. end + Len(payload) : file'[o] = cells[o - end + 1]
  BY <1>4, <1>6
<1> QED
  BY <1>1, <1>2, <1>3, <1>4, <1>5, <1>8, <1>9, <1>10, <1>11, <1>12 DEF Appended

(* What it does when it fails: the log below end stays. *)
LEMMA AppendErrorShape ==
    ASSUME TypeInv, NEW p \in Proc, NEW kind \in RecordKind, NEW payload \in Seq(Word),
           append_raw_error(p, kind, payload)
    PROVE  /\ file' \in [Offset -> Cell]
           /\ \A o \in Offset : o < handle[p].end => file'[o] = file[o]
           /\ UNCHANGED <<handle, openVars, history>>
           /\ faults' \in 0 .. MaxFaults
<1> DEFINE cells == record_cells(kind, payload)
           end == handle[p].end
<1>1. /\ file \in [Offset -> Cell] /\ end \in Nat /\ cells \in Seq(Cell)
      /\ faults \in 0 .. MaxFaults /\ MaxFaults \in Nat
  BY RecordCellsType, ConstantTypes, SharedAssumption DEF TypeInv, TypeOK, Handle
<1>2. PICK k \in 0 .. Len(cells) - 1 : file' = Written(file, SubSeq(cells, 1, k), end)
  BY DEF append_raw_error
<1>3. UNCHANGED <<handle, openVars, history>> /\ (UNCHANGED faults \/ Fault)
  BY DEF append_raw_error
<1>4. faults' \in 0 .. MaxFaults
  BY <1>1, <1>3 DEF Fault
<1> HIDE DEF cells, end
<1>5. k \in 0 .. Len(cells)
  BY <1>1, <1>2
<1>6. /\ file' \in [Offset -> Cell]
      /\ \A o \in Offset : o \notin end .. end + k - 1 => file'[o] = file[o]
  BY <1>1, <1>2, <1>5, PrefixWritten
<1>7. \A o \in Offset : o < end => o \notin end .. end + k - 1
  BY <1>1, ConstantTypes DEF Offset
<1> QED
  BY <1>3, <1>4, <1>6, <1>7 DEF end

(* A process that goes anywhere but to a commit's header owes no pointer;  *)
(* one whose end and index stay keeps the pointer it has.                  *)
LEMMA PointerKept ==
    ASSUME TypeInv, NEW p \in Proc,
           \A q \in Proc \ {p} : pc'[q] = pc[q] /\ handle'[q] = handle[q],
           \/ ~MasterAppended(p)'
           \/ /\ MasterAppended(p)
              /\ handle'[p].end = handle[p].end /\ handle'[p].index = handle[p].index
    PROVE  PointerType'
  BY DEF TypeInv, PointerType, MasterAppended

(* A snapshot, and what stays one when a commit adds another. *)
LEMMA SnapshotType ==
    ASSUME NEW f \in [Offset -> Cell], NEW x \in MasterIndex
    PROVE  Snapshot(f, x) \in SnapshotSet
  BY DEF SnapshotSet

(* Faults are counted up to their bound. *)
LEMMA FaultType ==
    ASSUME TypeInv, Fault
    PROVE  faults' \in 0 .. MaxFaults
  BY SharedAssumption DEF TypeInv, TypeOK, Fault

LEMMA NewHandleType == NewHandle \in Handle /\ ~NewHandle.dirty
  BY InitialHeaderType, DefaultIndexType, ConstantTypes DEF NewHandle, Handle

(* The history that begins with a database. *)
LEMMA CreatedType ==
    ASSUME TypeInv, NEW f \in [Offset -> Cell]
    PROVE  /\ Created(f) \in Seq(AttemptSet)
           /\ Len(attempts) <= Len(Created(f)) /\ 1 <= Len(Created(f))
           /\ Len(Created(f)) \in Nat /\ Len(attempts) \in Nat
<1>1. attempts \in Seq(AttemptSet)
  BY DEF TypeInv
<1>2. Attempt(InitialHeader, f, DefaultIndex) \in AttemptSet
  BY InitialHeaderType, DefaultIndexType, SnapshotType DEF Attempt, AttemptSet
<1>3. CASE attempts = <<>>
  BY <1>2, <1>3 DEF Created
<1>4. CASE attempts # <<>>
  BY <1>1, <1>4 DEF Created
<1> QED BY <1>3, <1>4

(* A step that closes p's handle, whatever it does to the file. *)
LEMMA CloseTypeStep ==
    ASSUME TypeInv, NEW p \in Proc, Closes(p), file' \in [Offset -> Cell],
           attempts' \in Seq(AttemptSet), Len(attempts) <= Len(attempts'),
           returned' = returned, faults' \in 0 .. MaxFaults
    PROVE  TypeInv'
<1>1. /\ handle \in [Proc -> Handle] /\ returned \in 0 .. Len(attempts)
      /\ since \in [Proc -> 0 .. returned] /\ seen \in [Proc -> 0 .. Len(attempts)]
      /\ file_len \in [Proc -> 0 .. FileCap] /\ returned \in Nat
      /\ Len(attempts) \in Nat /\ Len(attempts') \in Nat
  BY DEF TypeInv, TypeOK
<1>2. /\ handle' = [handle EXCEPT ![p] = NewHandle] /\ since' = [since EXCEPT ![p] = 0]
      /\ file_len' = [file_len EXCEPT ![p] = 0] /\ seen' = [seen EXCEPT ![p] = 0]
      /\ Goto(p, "closed")
  BY DEF Closes, Forget
<1>3. pc' \in [Proc -> Steps] /\ pc'[p] = "closed" /\ \A q \in Proc \ {p} : pc'[q] = pc[q]
  BY <1>2, GotoType DEF Steps, TypeInv
<1>4. handle' \in [Proc -> Handle] /\ \A q \in Proc \ {p} : handle'[q] = handle[q]
  BY <1>1, <1>2, NewHandleType
<1>5. /\ returned' \in 0 .. Len(attempts') /\ since' \in [Proc -> 0 .. returned']
      /\ seen' \in [Proc -> 0 .. Len(attempts')] /\ file_len' \in [Proc -> 0 .. FileCap]
  BY <1>1, <1>2, ConstantTypes
<1>6. PointerType'
  BY <1>3, <1>4, PointerKept DEF MasterAppended
<1> QED
  BY <1>3, <1>4, <1>5, <1>6 DEF TypeInv, TypeOK

(* The steps of open preserve the types. *)
LEMMA OpenTypeStep ==
    ASSUME TypeInv, NEW p \in Proc, Open(p)
    PROVE  TypeInv'
<1>1. /\ file \in [Offset -> Cell] /\ pc \in [Proc -> Steps]
      /\ file_len \in [Proc -> 0 .. FileCap] /\ handle \in [Proc -> Handle]
      /\ handle[p] \in Handle /\ since \in [Proc -> 0 .. returned]
      /\ seen \in [Proc -> 0 .. Len(attempts)] /\ returned \in 0 .. Len(attempts)
      /\ attempts \in Seq(AttemptSet) /\ Len(attempts) \in Nat /\ returned \in Nat
      /\ faults \in 0 .. MaxFaults
  BY DEF TypeInv, TypeOK
<1>2. CASE OpenStat(p)
  <2>1. PICK step \in {"load", "initialize"} : Goto(p, step)
    BY <1>2 DEF OpenStat
  <2>2. pc' \in [Proc -> Steps] /\ pc'[p] = step /\ \A q \in Proc \ {p} : pc'[q] = pc[q]
    BY <2>1, GotoType DEF Steps, TypeInv
  <2>3. /\ file_len' \in [Proc -> 0 .. FileCap]
        /\ since' \in [Proc -> 0 .. returned] /\ seen' \in [Proc -> 0 .. Len(attempts)]
        /\ UNCHANGED <<file, handle, attempts, returned, faults>>
    BY <1>1, <1>2, FileLenType DEF OpenStat, history
  <2>4. PointerType'
    BY <2>1, <2>2, <2>3, PointerKept DEF MasterAppended
  <2> QED
    BY <1>1, <2>2, <2>3, <2>4 DEF TypeInv, TypeOK
<1>3. CASE Initialize(p)
  <2>1. pc' \in [Proc -> Steps] /\ pc'[p] = "idle" /\ \A q \in Proc \ {p} : pc'[q] = pc[q]
    BY <1>3, GotoType DEF Initialize, Steps, TypeInv
  <2>2. file' \in [Offset -> Cell]
    BY <1>1, <1>3, HeaderRegionType, WrittenType DEF Initialize
  <2>3. /\ handle' \in [Proc -> Handle] /\ \A q \in Proc \ {p} : handle'[q] = handle[q]
        /\ UNCHANGED <<file_len, since, seen, faults>>
    BY <1>1, <1>3, InitialHeaderType, ConstantTypes DEF Initialize, Handle, openVars
  <2>4. /\ attempts' \in Seq(AttemptSet) /\ Len(attempts) <= Len(attempts')
        /\ 1 <= Len(attempts') /\ Len(attempts') \in Nat
    BY <1>3, <2>2, CreatedType DEF Initialize
  <2>5. returned' \in 0 .. Len(attempts') /\ returned <= returned'
    <3>1. returned' = IF attempts = <<>> THEN 1 ELSE returned
      BY <1>3 DEF Initialize
    <3>2. CASE attempts = <<>>
      BY <1>1, <2>4, <3>1, <3>2
    <3>3. CASE attempts # <<>>
      BY <1>1, <2>4, <3>1, <3>3
    <3> QED BY <3>2, <3>3
  <2>6. since' \in [Proc -> 0 .. returned'] /\ seen' \in [Proc -> 0 .. Len(attempts')]
    BY <1>1, <2>3, <2>4, <2>5
  <2>7. PointerType'
    BY <2>1, <2>3, PointerKept DEF MasterAppended
  <2> QED
    BY <1>1, <2>1, <2>2, <2>3, <2>4, <2>5, <2>6, <2>7 DEF TypeInv, TypeOK
<1>4. CASE InitializeError(p)
  <2>1. /\ HeaderRegion \in Seq(Cell) /\ Len(HeaderRegion) = 2 /\ 0 \in Nat
    BY HeaderRegionType
  <2>2. PICK k \in 0 .. Len(HeaderRegion) :
           /\ file' = Written(file, SubSeq(HeaderRegion, 1, k), 0)
           /\ attempts' = Created(file') \/ attempts' = attempts
    BY <1>4 DEF InitializeError
  <2> HIDE DEF HeaderRegion
  <2>3. file' \in [Offset -> Cell]
    BY <1>1, <2>1, <2>2, PrefixWritten
  <2>4. attempts' \in Seq(AttemptSet) /\ Len(attempts) <= Len(attempts')
    BY <1>1, <2>2, <2>3, CreatedType
  <2>5. Fault /\ Closes(p) /\ returned' = returned
    BY <1>4 DEF InitializeError
  <2>6. faults' \in 0 .. MaxFaults
    BY <2>5, FaultType
  <2> QED BY <2>3, <2>4, <2>5, <2>6, CloseTypeStep
<1>5. CASE LoadHeaders(p)
  <2> DEFINE h == [handle[p] EXCEPT !.slots = decode_slots(file), !.header = LiveHeader(file)]
  <2>1. Valid(decode_slots(file)) # {}
    BY <1>5 DEF LoadHeaders, Accepts
  <2>2. h \in Handle
    BY <1>1, <2>1, DecodeSlotsType, LiveCell DEF Handle
  <2>3. /\ handle' = [handle EXCEPT ![p] = h] /\ Goto(p, "load_index")
        /\ UNCHANGED <<file, file_len, since, seen, attempts, returned, faults>>
    BY <1>5 DEF LoadHeaders, openVars, history
  <2> HIDE DEF h
  <2>4. pc' \in [Proc -> Steps] /\ pc'[p] = "load_index" /\ \A q \in Proc \ {p} : pc'[q] = pc[q]
    BY <2>3, GotoType DEF Steps, TypeInv
  <2>5. handle' \in [Proc -> Handle] /\ \A q \in Proc \ {p} : handle'[q] = handle[q]
    BY <1>1, <2>2, <2>3
  <2>6. PointerType'
    BY <2>4, <2>5, PointerKept DEF MasterAppended
  <2> QED
    BY <1>1, <2>3, <2>4, <2>5, <2>6 DEF TypeInv, TypeOK
<1>6. CASE LoadIndex(p)
  <2> DEFINE g == handle[p].header
             h == [handle[p] EXCEPT !.index = load_index(file, g), !.end = g.log_end]
  <2>1. g.master_len = 0 \/ HasMaster(file, g.master_ptr)
    BY <1>6 DEF LoadIndex, Accepts
  <2>2. h \in Handle
    BY <1>1, <2>1, LoadIndexType DEF Handle, Header
  <2>3. /\ handle' = [handle EXCEPT ![p] = h] /\ Goto(p, "idle") /\ Forget(p)
        /\ UNCHANGED <<file, since, attempts, returned, faults>>
    BY <1>6 DEF LoadIndex, history
  <2> HIDE DEF h
  <2>4. pc' \in [Proc -> Steps] /\ pc'[p] = "idle" /\ \A q \in Proc \ {p} : pc'[q] = pc[q]
    BY <2>3, GotoType DEF Steps, TypeInv
  <2>5. handle' \in [Proc -> Handle] /\ \A q \in Proc \ {p} : handle'[q] = handle[q]
    BY <1>1, <2>2, <2>3
  <2>6. file_len' \in [Proc -> 0 .. FileCap] /\ seen' \in [Proc -> 0 .. Len(attempts)]
    BY <1>1, <2>3, ConstantTypes DEF Forget
  <2>7. PointerType'
    BY <2>4, <2>5, PointerKept DEF MasterAppended
  <2> QED
    BY <1>1, <2>3, <2>4, <2>5, <2>6, <2>7 DEF TypeInv, TypeOK
<1>7. CASE LoadRejected(p)
  <2>1. Closes(p) /\ UNCHANGED <<file, attempts, returned, faults>>
    BY <1>7 DEF LoadRejected, history
  <2> QED BY <1>1, <2>1, CloseTypeStep
<1> QED
  BY <1>2, <1>3, <1>4, <1>5, <1>6, <1>7 DEF Open

(* The appends, of a document, a tombstone or a master index, preserve the *)
(* types; a master index leaves room for its pointer.                      *)
LEMMA AppendTypeStep ==
    ASSUME TypeInv, NEW p \in Proc,
           \/ \E d \in Doc : Append_(p, d)
           \/ \E id \in DocId : Tombstone(p, id)
           \/ CommitAppendMaster(p)
    PROVE  TypeInv'
<1>1. /\ handle[p] \in Handle /\ handle[p].index \in MasterIndex
      /\ handle[p].end \in Nat
  BY ConstantTypes DEF TypeInv, TypeOK, Handle
<1>2. ASSUME NEW kind \in RecordKind, NEW payload \in Seq(Word), NEW x \in MasterIndex,
             append_raw(p, kind, payload, x),
             pc' \in [Proc -> Steps], \A q \in Proc \ {p} : pc'[q] = pc[q],
             MasterAppended(p)' => Len(payload) = EncodedLen(x)
      PROVE  TypeInv'
  <2>1. /\ file' \in [Offset -> Cell] /\ handle' \in [Proc -> Handle]
        /\ UNCHANGED <<file_len, since, seen, attempts, returned, faults>>
        /\ \A q \in Proc \ {p} : handle'[q] = handle[q]
        /\ handle'[p].index = x /\ Len(payload) \in Nat
        /\ handle'[p].end = handle[p].end + 1 + Len(payload)
    <3>1. Appended(p, kind, payload, x)
      BY <1>2, AppendRawShape
    <3> QED BY <3>1 DEF Appended, openVars, history
  <2>2. PointerType'
    BY <1>1, <1>2, <2>1, ConstantTypes DEF TypeInv, PointerType, MasterAppended
  <2> QED
    BY <1>2, <2>1, <2>2 DEF TypeInv, TypeOK
<1>3. CASE \E d \in Doc : Append_(p, d)
  <2>1. PICK d \in Doc : Append_(p, d)
    BY <1>3
  <2>2. /\ append_raw(p, "Blob", doc_payload(d), InsertNew(handle[p].index, handle[p].end))
        /\ pc' = pc /\ pc[p] = "idle" /\ handle[p].index.next_doc_id <= MaxDocId
    BY <2>1 DEF Append_
  <2>3. /\ "Blob" \in RecordKind /\ doc_payload(d) \in Seq(Word)
        /\ InsertNew(handle[p].index, handle[p].end) \in MasterIndex
    BY <1>1, <2>2, PayloadTypes, InsertNewType DEF RecordKind
  <2> QED BY <1>2, <2>2, <2>3 DEF MasterAppended, TypeInv, TypeOK
<1>4. CASE \E id \in DocId : Tombstone(p, id)
  <2>1. PICK id \in DocId : Tombstone(p, id)
    BY <1>4
  <2> DEFINE x == [handle[p].index EXCEPT !.dead = @ \cup {id}]
  <2>2. /\ append_raw(p, "Tombstone", tombstone_payload(id), x)
        /\ pc' = pc /\ pc[p] = "idle"
    BY <2>1 DEF Tombstone
  <2>3. /\ "Tombstone" \in RecordKind /\ tombstone_payload(id) \in Seq(Word)
        /\ x \in MasterIndex
    BY <1>1, PayloadTypes DEF RecordKind, MasterIndex
  <2> HIDE DEF x
  <2> QED BY <1>2, <2>2, <2>3 DEF MasterAppended, TypeInv, TypeOK
<1>5. CASE CommitAppendMaster(p)
  <2> DEFINE x == handle[p].index
  <2>1. append_raw(p, "MasterIndex", index_encode(x), x) /\ Goto(p, "write_header")
    BY <1>5 DEF CommitAppendMaster
  <2>2. /\ "MasterIndex" \in RecordKind /\ index_encode(x) \in Seq(Word)
        /\ Len(index_encode(x)) = EncodedLen(x)
    BY <1>1, PayloadTypes, IndexEncoded DEF RecordKind
  <2>3. pc' \in [Proc -> Steps] /\ \A q \in Proc \ {p} : pc'[q] = pc[q]
    BY <2>1, GotoType DEF Steps, TypeInv
  <2> QED BY <1>1, <1>2, <2>1, <2>2, <2>3
<1> QED
  BY <1>3, <1>4, <1>5

(* An append that fails preserves them. *)
LEMMA AppendErrorTypeStep ==
    ASSUME TypeInv, NEW p \in Proc, UNCHANGED pc,
           NEW kind \in RecordKind, NEW payload \in Seq(Word),
           append_raw_error(p, kind, payload)
    PROVE  TypeInv'
<1>1. /\ file' \in [Offset -> Cell] /\ faults' \in 0 .. MaxFaults
      /\ UNCHANGED <<handle, file_len, since, seen, attempts, returned>>
  BY AppendErrorShape DEF openVars, history
<1> QED
  BY <1>1 DEF TypeInv, TypeOK, PointerType, MasterAppended

(* The records whose append may fail. *)
LEMMA ErrorsAppend ==
    ASSUME TypeInv, NEW p \in Proc,
           \/ \E d \in Doc : AppendError(p, d)
           \/ \E id \in DocId : TombstoneError(p, id)
           \/ CommitMasterError(p)
    PROVE  /\ pc[p] = "idle" /\ UNCHANGED pc
           /\ p \in Writers \/ handle[p].dirty
           /\ \E kind \in RecordKind, payload \in Seq(Word) :
                 append_raw_error(p, kind, payload)
<1>1. handle[p].index \in MasterIndex
  BY DEF TypeInv, TypeOK, Handle
<1> QED
  BY <1>1, PayloadTypes DEF AppendError, TombstoneError, CommitMasterError, RecordKind

(* The header write, its returns, and the drop of a handle. *)
LEMMA HeaderTypeStep ==
    ASSUME TypeInv, NEW p \in Proc,
           \/ CommitHeaderBegins(p) \/ CommitHeaderEnds(p)
           \/ CommitReturns(p) \/ CommitError(p) \/ Drop(p)
    PROVE  TypeInv'
<1> DEFINE v == victim_slot(handle[p].slots)
           N == NextHeader(handle[p])
<1>1. /\ file \in [Offset -> Cell] /\ pc \in [Proc -> Steps]
      /\ handle \in [Proc -> Handle] /\ handle[p] \in Handle
      /\ since \in [Proc -> 0 .. returned] /\ returned \in 0 .. Len(attempts)
      /\ seen \in [Proc -> 0 .. Len(attempts)] /\ file_len \in [Proc -> 0 .. FileCap]
      /\ attempts \in Seq(AttemptSet) /\ Len(attempts) \in Nat /\ returned \in Nat
      /\ faults \in 0 .. MaxFaults
  BY DEF TypeInv, TypeOK
<1>2. v \in Slot /\ v \in Offset
  BY <1>1, VictimSlot, ConstantTypes DEF Handle
<1>3. CASE CommitHeaderBegins(p)
  <2>1. /\ pc[p] = "write_header"
        /\ UNCHANGED <<handle, file_len, since, seen, attempts, returned, faults>>
        /\ pc' \in [Proc -> Steps] /\ \A q \in Proc \ {p} : pc'[q] = pc[q]
    BY <1>3, GotoType DEF CommitHeaderBegins, Steps, TypeInv, openVars, history
  <2>2. file' \in [Offset -> Cell]
    BY <1>1, <1>2, <1>3, SpecialCells DEF CommitHeaderBegins
  <2>3. PointerType'
    BY <2>1, PointerKept DEF MasterAppended
  <2> QED BY <1>1, <2>1, <2>2, <2>3 DEF TypeInv, TypeOK
<1>4. CASE CommitHeaderEnds(p)
  <2>1. N \in Header
    BY <1>4, NextHeaderType DEF CommitHeaderEnds, MasterAppended
  <2>2. /\ pc[p] = "header_half_written"
        /\ pc' \in [Proc -> Steps] /\ \A q \in Proc \ {p} : pc'[q] = pc[q]
        /\ UNCHANGED <<handle, file_len, since, seen, returned, faults>>
    BY <1>4, GotoType DEF CommitHeaderEnds, Steps, TypeInv, openVars
  <2>3. file' \in [Offset -> Cell]
    <3>1. file' = [file EXCEPT ![v] = header_encode(N)]
      BY <1>4 DEF CommitHeaderEnds
    <3> HIDE DEF v, N
    <3> QED BY <1>1, <1>2, <2>1, <3>1, HeaderCellType
  <2>4. attempts' \in Seq(AttemptSet) /\ Len(attempts') = Len(attempts) + 1
    <3> DEFINE a == Attempt(N, file, handle[p].index)
    <3>1. attempts' = Append(attempts, a)
      BY <1>4 DEF CommitHeaderEnds
    <3>2. a \in AttemptSet
      BY <1>1, <2>1, SnapshotType DEF Handle, Attempt, AttemptSet
    <3> HIDE DEF a
    <3> QED BY <1>1, <3>1, <3>2
  <2>5. returned' \in 0 .. Len(attempts') /\ seen' \in [Proc -> 0 .. Len(attempts')]
    BY <1>1, <2>2, <2>4
  <2>6. PointerType'
    BY <2>2, PointerKept DEF MasterAppended
  <2> QED BY <1>1, <2>2, <2>3, <2>4, <2>5, <2>6 DEF TypeInv, TypeOK
<1>5. CASE CommitReturns(p)
  <2>1. N \in Header
    BY <1>5, NextHeaderType DEF CommitReturns, MasterAppended
  <2>2. /\ pc' \in [Proc -> Steps] /\ pc'[p] = "idle" /\ \A q \in Proc \ {p} : pc'[q] = pc[q]
        /\ UNCHANGED <<file, file_len, since, seen, attempts, faults>>
    BY <1>5, GotoType DEF CommitReturns, Steps, TypeInv, openVars
  <2>3. handle' \in [Proc -> Handle] /\ \A q \in Proc \ {p} : handle'[q] = handle[q]
    <3>1. handle' = [handle EXCEPT ![p].header = N, ![p].slots[v] = N, ![p].dirty = FALSE]
      BY <1>5 DEF CommitReturns
    <3> HIDE DEF v, N
    <3> QED BY <1>1, <1>2, <2>1, <3>1 DEF Handle
  <2>4. returned' = Len(attempts) /\ since' \in [Proc -> 0 .. returned']
    BY <1>1, <1>5, <2>2 DEF CommitReturns
  <2>5. PointerType'
    BY <2>2, <2>3, PointerKept DEF MasterAppended
  <2> QED BY <1>1, <2>2, <2>3, <2>4, <2>5 DEF TypeInv, TypeOK
<1>6. CASE CommitError(p)
  <2>1. /\ pc' \in [Proc -> Steps] /\ pc'[p] = "idle" /\ \A q \in Proc \ {p} : pc'[q] = pc[q]
        /\ UNCHANGED <<file, handle, file_len, since, seen, attempts, returned>>
    BY <1>6, GotoType DEF CommitError, Steps, TypeInv, openVars, history
  <2>2. faults' \in 0 .. MaxFaults
    BY <1>6, FaultType DEF CommitError
  <2>3. PointerType'
    BY <2>1, PointerKept DEF MasterAppended
  <2> QED BY <1>1, <2>1, <2>2, <2>3 DEF TypeInv, TypeOK
<1>7. CASE Drop(p)
  <2>1. Closes(p) /\ UNCHANGED <<file, attempts, returned, faults>>
    BY <1>7 DEF Drop, history
  <2> QED BY <1>1, <2>1, CloseTypeStep
<1> QED
  BY <1>3, <1>4, <1>5, <1>6, <1>7

LEMMA TypeInvariant == Spec => []TypeInv
<1>1. Init => TypeInv
  <2> SUFFICES ASSUME Init PROVE TypeInv
    OBVIOUS
  <2>1. attempts \in Seq(AttemptSet) /\ Len(attempts) = 0
    BY DEF Init
  <2> QED
    BY <2>1, NewHandleType, SpecialCells, ConstantTypes, SharedAssumption
    DEF Init, TypeInv, TypeOK, PointerType, MasterAppended, Steps
<1>2. TypeInv /\ [Next]_vars => TypeInv'
  <2> SUFFICES ASSUME TypeInv, [Next]_vars PROVE TypeInv'
    OBVIOUS
  <2>1. CASE UNCHANGED vars
    BY <2>1 DEF vars, openVars, history, TypeInv, TypeOK, PointerType, MasterAppended
  <2>2. ASSUME NEW p \in Proc,
               \/ \E d \in Doc : AppendError(p, d)
               \/ \E id \in DocId : TombstoneError(p, id)
               \/ CommitMasterError(p)
        PROVE  TypeInv'
    BY <2>2, ErrorsAppend, AppendErrorTypeStep
  <2>3. CASE Next
    BY <2>2, <2>3, OpenTypeStep, AppendTypeStep, HeaderTypeStep DEF Next, Commit
  <2> QED BY <2>1, <2>3
<1> QED
  BY <1>1, <1>2, PTL DEF Spec

(* Every reachable state has its types, whatever the processes do: a       *)
(* header that a commit writes describes a log that fits the device, even  *)
(* when several writers race and calls fail (engine.rs commit).            *)
THEOREM SharedTypeCorrect == Spec => []TypeOK
  BY TypeInvariant, PTL DEF TypeInv

-----------------------------------------------------------------------------
(* Processes that coordinate.  Each step below preserves SharedInv when    *)
(* Orderly holds.                                                          *)

(* Every step is a step of one process. *)
StepOf(p) ==
    \/ Open(p) \/ Commit(p) \/ Drop(p)
    \/ \E d \in Doc : Append_(p, d) \/ AppendError(p, d)
    \/ \E id \in DocId : Tombstone(p, id) \/ TombstoneError(p, id)

(* It leaves every other process where it is. *)
Others(p) ==
    \A q \in Proc \ {p} : /\ pc'[q] = pc[q] /\ handle'[q] = handle[q]
                          /\ since'[q] = since[q] /\ seen'[q] = seen[q]
                          /\ file_len'[q] = file_len[q]

LEMMA OthersStay ==
    ASSUME TypeInv, NEW p \in Proc, StepOf(p)
    PROVE  Others(p)
<1>1. /\ pc \in [Proc -> Steps] /\ handle \in [Proc -> Handle]
      /\ since \in [Proc -> 0 .. returned] /\ seen \in [Proc -> 0 .. Len(attempts)]
      /\ file_len \in [Proc -> 0 .. FileCap]
  BY DEF TypeInv, TypeOK
<1>2. CASE Open(p)
  BY <1>1, <1>2
  DEF Others, Open, OpenStat, Initialize, InitializeError, LoadHeaders, LoadIndex,
      LoadRejected, Closes, Forget, Goto, openVars
<1>3. CASE Commit(p) \/ Drop(p)
  BY <1>1, <1>3
  DEF Others, Commit, CommitAppendMaster, CommitMasterError, CommitHeaderBegins,
      CommitHeaderEnds, CommitReturns, CommitError, Drop, Closes, Forget, append_raw,
      append_raw_error, Goto, openVars
<1>4. CASE \/ \E d \in Doc : Append_(p, d) \/ AppendError(p, d)
           \/ \E id \in DocId : Tombstone(p, id) \/ TombstoneError(p, id)
  BY <1>1, <1>4
  DEF Others, Append_, AppendError, Tombstone, TombstoneError, append_raw,
      append_raw_error, openVars
<1> QED BY <1>2, <1>3, <1>4 DEF StepOf

(* The types of the attempts, and that none has a longer log than the last. *)
LEMMA AttemptTypes ==
    ASSUME TypeInv
    PROVE  /\ Len(attempts) \in Nat /\ DOMAIN attempts = 1 .. Len(attempts)
           /\ attempts = <<>> <=> Len(attempts) = 0
           /\ \A i \in DOMAIN attempts : /\ attempts[i] \in AttemptSet
                                         /\ attempts[i].header \in Header
                                         /\ attempts[i].header.log_end \in LOG_START .. FileCap
                                         /\ attempts[i].header.log_end \in Nat
           /\ attempts # <<>> => /\ Len(attempts) \in DOMAIN attempts
                                 /\ LastHeader \in Header
                                 /\ LastHeader.log_end \in LOG_START .. FileCap
<1>1. attempts \in Seq(AttemptSet)
  BY DEF TypeInv
<1>2. /\ Len(attempts) \in Nat /\ DOMAIN attempts = 1 .. Len(attempts)
      /\ attempts = <<>> <=> Len(attempts) = 0
      /\ \A i \in DOMAIN attempts : attempts[i] \in AttemptSet
  BY <1>1
<1>3. \A i \in DOMAIN attempts : /\ attempts[i].header \in Header
                                 /\ attempts[i].header.log_end \in LOG_START .. FileCap
  BY <1>2 DEF AttemptSet, Header
<1>4. attempts # <<>> => Len(attempts) \in DOMAIN attempts
  BY <1>2
<1> QED
  BY <1>2, <1>3, <1>4, ConstantTypes DEF LastHeader

(* No step takes an attempt back, nor changes the log of the last. *)
Grows ==
    /\ Len(attempts) <= Len(attempts')
    /\ \A i \in DOMAIN attempts : attempts'[i] = attempts[i]

LogStays ==
    attempts # <<>> => \A o \in LOG_START .. LastHeader.log_end - 1 : file'[o] = file[o]

(* Then every attempt's header still leads to what it was to save. *)
LEMMA AttemptKept ==
    ASSUME TypeInv, TypeInv', SharedInv, LogStays, NEW i \in DOMAIN attempts
    PROVE  LET h == attempts[i].header
           IN /\ HeaderWhole(file', h)
              /\ load_index(file', h) = load_index(file, h)
              /\ Snapshot(file', load_index(file', h)) = attempts[i].reads
<1> DEFINE h == attempts[i].header
<1>1. /\ attempts # <<>> /\ h \in Header /\ h.log_end \in Nat
      /\ LastHeader.log_end \in LOG_START .. FileCap
  BY AttemptTypes
<1>2. /\ HeaderWhole(file, h) /\ h.log_end <= LastHeader.log_end
      /\ Snapshot(file, load_index(file, h)) = attempts[i].reads
  BY DEF SharedInv, AttemptsKept
<1>3. file \in [Offset -> Cell] /\ file' \in [Offset -> Cell]
  BY DEF TypeInv, TypeOK
<1>4. \A o \in LOG_START .. h.log_end - 1 : file'[o] = file[o]
  <2> HIDE DEF h
  <2>1. \A o \in LOG_START .. LastHeader.log_end - 1 : file'[o] = file[o]
    BY <1>1 DEF LogStays
  <2>2. LastHeader.log_end \in Nat
    BY <1>1, ConstantTypes
  <2> HIDE DEF LastHeader
  <2> QED BY <1>1, <1>2, <2>1, <2>2, ConstantTypes
<1>5. /\ HeaderWhole(file', h) /\ load_index(file', h) = load_index(file, h)
      /\ Snapshot(file', load_index(file', h)) = Snapshot(file, load_index(file, h))
  <2> HIDE DEF h
  <2> QED BY <1>1, <1>2, <1>3, <1>4, HeaderWholeStable
<1> QED
  BY <1>2, <1>5

(* All that is said of the processes that do not take the step. *)
LEMMA OthersKept ==
    ASSUME TypeInv, TypeInv', SharedInv, NEW p \in Proc, Others(p), Grows, LogStays,
           file[0] # Eof => file'[0] # Eof,
           attempts = <<>> /\ attempts' # <<>> => \A q \in Proc \ {p} : pc[q] # "load",
           \/ UNCHANGED <<file, attempts, returned>>
           \/ \A q \in Writers \ {p} : pc[q] = "closed"
    PROVE  \A q \in Proc \ {p} : ProcessInv(q)'
<1> SUFFICES ASSUME NEW q \in Proc \ {p} PROVE ProcessInv(q)'
  OBVIOUS
<1>1. /\ pc'[q] = pc[q] /\ handle'[q] = handle[q] /\ since'[q] = since[q]
      /\ seen'[q] = seen[q] /\ file_len'[q] = file_len[q]
  BY DEF Others
<1>2. /\ ClosedIsNew(q) /\ LengthTaken(q) /\ HeaderIsAttempt(q)
      /\ CleanIsHeaders(q) /\ WriterIsCurrent(q) /\ MasterIsLast(q)
  BY DEF SharedInv, ProcessInv
<1>3. /\ Len(attempts) \in Nat /\ DOMAIN attempts = 1 .. Len(attempts)
      /\ Len(attempts') \in Nat /\ DOMAIN attempts' = 1 .. Len(attempts')
      /\ attempts = <<>> <=> Len(attempts) = 0
      /\ attempts' = <<>> <=> Len(attempts') = 0
      /\ seen[q] \in 0 .. Len(attempts)
  <2>1. attempts \in Seq(AttemptSet) /\ attempts' \in Seq(AttemptSet)
    BY DEF TypeInv
  <2>2. seen[q] \in 0 .. Len(attempts)
    BY DEF TypeInv, TypeOK
  <2> QED BY <2>1, <2>2
<1>4. \/ UNCHANGED <<file, attempts, returned>>
      \/ q \notin Writers /\ pc[q] \in {"closed", "load", "load_index", "idle"}
      \/ pc[q] = "closed"
  <2>1. OneWriter
    BY DEF SharedInv
  <2> QED BY <2>1 DEF OneWriter
<1>5. ClosedIsNew(q)'
  BY <1>1, <1>2, <1>4 DEF ClosedIsNew
<1>6. LengthTaken(q)'
  <2> SUFFICES ASSUME pc[q] = "load"
               PROVE  /\ file'[0] # Eof
                      /\ attempts' = <<>> <=> file_len[q] < LOG_START
                      /\ \A i \in 1 .. seen[q] : attempts'[i].header.log_end <= file_len[q]
    BY <1>1 DEF LengthTaken
  <2>1. /\ file[0] # Eof
        /\ attempts = <<>> <=> file_len[q] < LOG_START
        /\ \A i \in 1 .. seen[q] : attempts[i].header.log_end <= file_len[q]
    BY <1>2 DEF LengthTaken
  <2>2. attempts' = <<>> <=> attempts = <<>>
    BY <1>3 DEF Grows
  <2>3. \A i \in 1 .. seen[q] : attempts'[i] = attempts[i]
    BY <1>3 DEF Grows
  <2> QED BY <2>1, <2>2, <2>3
<1>7. HeaderIsAttempt(q)'
  BY <1>1, <1>2, <1>3 DEF HeaderIsAttempt, HasHeader, IsAttempt, Grows
<1>8. CleanIsHeaders(q)'
  <2> SUFFICES ASSUME pc[q] = "idle", ~handle[q].dirty
               PROVE  handle[q].index = load_index(file', handle[q].header)
    BY <1>1 DEF CleanIsHeaders
  <2>1. handle[q].index = load_index(file, handle[q].header)
    BY <1>2 DEF CleanIsHeaders
  <2>2. PICK j \in DOMAIN attempts : attempts[j].header = handle[q].header
    BY <1>2 DEF HeaderIsAttempt, HasHeader, IsAttempt
  <2> QED BY <2>1, <2>2, AttemptKept
<1>9. WriterIsCurrent(q)'
  <2>1. CASE UNCHANGED <<file, attempts, returned>>
    BY <1>1, <1>2, <2>1
    DEF WriterIsCurrent, HasHeader, IsAttempt, BehindInOneSlot, LastHeader, NextHeader
  <2>2. CASE ~(q \in Writers /\ HasHeader(q))
    BY <1>1, <2>2 DEF WriterIsCurrent, HasHeader
  <2> QED BY <1>4, <2>1, <2>2 DEF HasHeader
<1>10. MasterIsLast(q)'
  <2>1. CASE UNCHANGED <<file, attempts, returned>>
    BY <1>1, <1>2, <2>1 DEF MasterIsLast, MasterAppended
  <2>2. CASE ~MasterAppended(q)
    BY <1>1, <2>2 DEF MasterIsLast, MasterAppended
  <2> QED BY <1>4, <2>1, <2>2 DEF MasterAppended
<1> QED
  BY <1>5, <1>6, <1>7, <1>8, <1>9, <1>10 DEF ProcessInv

(* A write handle has no other beside it, and readers do not write. *)
LEMMA WriterAlone ==
    ASSUME SharedInv, NEW p \in Writers, pc[p] # "closed"
    PROVE  /\ \A q \in Writers \ {p} : pc[q] = "closed"
           /\ \A q \in Proc \ Writers : pc[q] \in {"closed", "load", "load_index", "idle"}
           /\ \A q \in Proc \ {p} : pc[q] \in {"closed", "load", "load_index", "idle"}
  BY DEF SharedInv, OneWriter

(* A step of an open process opens no other write handle. *)
LEMMA OneWriterKept ==
    ASSUME SharedInv, NEW p \in Proc, Others(p), pc[p] # "closed",
           p \in Writers \/ /\ pc'[p] \in {"closed", "load", "load_index", "idle"}
                            /\ ~handle'[p].dirty
    PROVE  OneWriter'
<1>1. OneWriter
  BY DEF SharedInv
<1> QED
  BY <1>1, SharedAssumption DEF OneWriter, Others

(* A step that leaves the file alone, and finishes no header. *)
LEMMA QuietStep ==
    ASSUME TypeInv, TypeInv', SharedInv, NEW p \in Proc, Others(p),
           UNCHANGED <<file, attempts>>, pc[p] # "header_half_written",
           OneWriter', ProcessInv(p)',
           returned' = returned \/ \A q \in Writers \ {p} : pc[q] = "closed"
    PROVE  SharedInv'
<1>1. EmptyUntilCreated' /\ AttemptsKept'
  BY DEF SharedInv, EmptyUntilCreated, AttemptsKept, LastHeader
<1>2. LiveIsLast'
  <2>1. (\A q \in Proc : pc'[q] # "header_half_written")
           => \A q \in Proc : pc[q] # "header_half_written"
    BY DEF Others
  <2> QED BY <2>1 DEF SharedInv, LiveIsLast, LastHeader
<1>3. Grows /\ LogStays
  BY AttemptTypes DEF Grows, LogStays
<1>4. \A q \in Proc \ {p} : ProcessInv(q)'
  BY <1>3, OthersKept
<1> QED
  BY <1>1, <1>2, <1>4 DEF SharedInv

-----------------------------------------------------------------------------
(* open. *)

(* The length of a file tells whether the database is created, and reaches *)
(* the end of every log.                                                   *)
LEMMA FileLenLive ==
    ASSUME TypeInv, SharedInv
    PROVE  /\ FileLen \in Nat
           /\ attempts = <<>> <=> FileLen < LOG_START
           /\ FileLen > 0 <=> file[0] # Eof
           /\ \A i \in DOMAIN attempts : attempts[i].header.log_end <= FileLen
<1>1. CASE attempts = <<>>
  <2>1. \A o \in Offset \ {0} : file[o] = Eof
    BY <1>1 DEF SharedInv, EmptyUntilCreated
  <2>2. FileLen \in Nat /\ FileLen <= 1
    BY <2>1, FileLenType, FileLenSmall, ConstantTypes
  <2>3. CASE file[0] = Eof
    BY <1>1, <2>1, <2>2, <2>3, FileLenEmpty, ConstantTypes
  <2>4. CASE file[0] # Eof
    <3>1. FileLen >= 1
      BY <2>4, FileLenCovers, ConstantTypes
    <3> QED BY <1>1, <2>2, <2>4, <3>1, ConstantTypes
  <2> QED BY <2>3, <2>4
<1>2. CASE attempts # <<>>
  <2> DEFINE e == LastHeader.log_end
             n == Len(attempts)
  <2>1. n \in DOMAIN attempts /\ e \in LOG_START .. FileCap
    BY <1>2, AttemptTypes
  <2>2. /\ \A s \in Slot : file[s] # Eof
        /\ HeaderWhole(file, attempts[n].header)
        /\ \A i \in DOMAIN attempts : attempts[i].header.log_end <= e
    BY <1>2, <2>1 DEF SharedInv, LiveIsLast, AttemptsKept
  <2>3. \A o \in LOG_START .. e - 1 : file[o] # Eof
    BY <2>2 DEF HeaderWhole, LastHeader
  <2> HIDE DEF e, n
  <2>4. e \in 0 .. FileCap /\ \A o \in 0 .. e - 1 : file[o] # Eof
    BY <2>1, <2>2, <2>3, ConstantTypes
  <2>5. FileLen >= e /\ FileLen \in Nat
    BY <2>4, FileLenCovers, FileLenType, ConstantTypes
  <2>6. \A i \in DOMAIN attempts : attempts[i].header.log_end <= FileLen
    BY <2>1, <2>2, <2>5, AttemptTypes, ConstantTypes
  <2>7. file[0] # Eof /\ FileLen >= LOG_START
    BY <2>1, <2>2, <2>5, ConstantTypes
  <2> QED BY <1>2, <2>5, <2>6, <2>7, ConstantTypes
<1> QED BY <1>1, <1>2

(* open takes the length of the file. *)
LEMMA StatStep ==
    ASSUME Orderly, TypeInv, TypeInv', SharedInv, NEW p \in Proc, OpenStat(p)
    PROVE  SharedInv'
<1>1. Others(p)
  BY OthersStay DEF StepOf, Open
<1>2. /\ pc[p] = "closed" /\ UNCHANGED <<file, handle, attempts, returned>>
      /\ file_len'[p] = FileLen /\ seen'[p] = Len(attempts)
      /\ pc'[p] = IF FileLen > 0 THEN "load" ELSE "initialize"
  BY DEF OpenStat, TypeInv, TypeOK, Goto, history
<1>3. IF p \in Writers THEN \A q \in Writers \ {p} : pc[q] = "closed" ELSE FileLen > 0
  BY DEF OpenStat, MayOpen
<1>4. handle[p] = NewHandle
  BY <1>2 DEF SharedInv, ProcessInv, ClosedIsNew
<1>5. OneWriter'
  <2>1. OneWriter
    BY DEF SharedInv
  <2> QED BY <1>1, <1>2, <1>3, <2>1, SharedAssumption DEF OneWriter, Others
<1>6. /\ FileLen \in Nat
      /\ attempts = <<>> <=> FileLen < LOG_START
      /\ FileLen > 0 <=> file[0] # Eof
      /\ \A i \in DOMAIN attempts : attempts[i].header.log_end <= FileLen
  BY FileLenLive
<1>7. ClosedIsNew(p)' /\ LengthTaken(p)'
  <2> DEFINE len == FileLen
  <2>1. /\ file_len'[p] = len /\ len \in Nat
        /\ len > 0 <=> file'[0] # Eof
        /\ attempts' = <<>> <=> len < LOG_START
        /\ \A i \in 1 .. seen'[p] : attempts'[i].header.log_end <= len
    BY <1>2, <1>6, AttemptTypes
  <2>2. CASE len > 0 /\ pc'[p] = "load"
    <3> HIDE DEF len
    <3> QED BY <2>1, <2>2 DEF ClosedIsNew, LengthTaken
  <2>3. CASE len = 0 /\ pc'[p] = "initialize"
    <3>1. handle'[p] = NewHandle
      BY <1>2, <1>4
    <3> HIDE DEF len
    <3> QED BY <2>1, <2>3, <3>1, ConstantTypes DEF ClosedIsNew, LengthTaken
  <2> QED BY <1>2, <1>6, <2>2, <2>3
<1>8. ~HasHeader(p)' /\ ~MasterAppended(p)' /\ pc'[p] # "idle"
  BY <1>2 DEF HasHeader, MasterAppended
<1>9. ProcessInv(p)'
  BY <1>7, <1>8
  DEF ProcessInv, HeaderIsAttempt, CleanIsHeaders, WriterIsCurrent, MasterIsLast
<1> QED
  BY <1>1, <1>2, <1>5, <1>9, QuietStep

(* With a slot spoiled that its commit goes over, the header that was live *)
(* before still is.                                                        *)
LEMMA WithoutVictim ==
    ASSUME NEW slots \in [Slot -> Header \cup {NoHeader}], Ordered(slots),
           NEW found \in [Slot -> Header \cup {NoHeader}],
           \A s \in Slot \ {victim_slot(slots)} : found[s] = slots[s],
           found[victim_slot(slots)] = NoHeader
    PROVE  /\ Ordered(found) /\ Valid(found) # {}
           /\ found[select_live(found)] = slots[select_live(slots)]
<1> DEFINE v == victim_slot(slots)
           live == select_live(slots)
<1>1. /\ Valid(slots) # {}
      /\ \A s \in Valid(slots) \ {live} : slots[s].generation < slots[live].generation
  BY DEF Ordered
<1>2. live \in Valid(slots)
  BY <1>1, SelectLive
<1>3. v \in Slot /\ v # live
  BY <1>1, <1>2, VictimSlot
<1>4. \A s \in Slot \ {v} : found[s] = slots[s]
  OBVIOUS
<1>5. found[v] = NoHeader
  OBVIOUS
<1> HIDE DEF v, live
<1>6. live \in Slot /\ slots[live] # NoHeader
  BY <1>2 DEF Valid
<1>7. Valid(found) = {live}
  BY <1>3, <1>4, <1>5, <1>6, ConstantTypes DEF Valid
<1>8. select_live(found) = live
  BY <1>7, SelectLive
<1> QED
  BY <1>3, <1>4, <1>6, <1>7, <1>8 DEF Ordered, live

(* The file's live header was written by an attempt, no older than the     *)
(* last that returned Ok, and with no header half written by the last one. *)
LEMMA LiveIsAttempt ==
    ASSUME TypeInv, SharedInv, attempts # <<>>
    PROVE  /\ IsAttempt(LiveHeader(file), returned)
           /\ LiveHeader(file) \in Header
<1>1. /\ Len(attempts) \in DOMAIN attempts /\ returned \in 0 .. Len(attempts)
      /\ LastHeader \in Header /\ \A i \in DOMAIN attempts : attempts[i].header \in Header
      /\ Len(attempts) \in Nat
  <2>1. returned \in 0 .. Len(attempts)
    BY DEF TypeInv, TypeOK
  <2> QED BY <2>1, AttemptTypes
<1>2. CASE \A p \in Proc : pc[p] # "header_half_written"
  <2>1. LiveHeader(file) = LastHeader
    BY <1>2 DEF SharedInv, LiveIsLast
  <2> QED BY <1>1, <2>1 DEF IsAttempt, LastHeader
<1>3. ASSUME NEW p \in Proc, pc[p] = "header_half_written"
      PROVE  IsAttempt(LiveHeader(file), returned)
  <2> DEFINE slots == handle[p].slots
             found == decode_slots(file)
  <2>1. p \in Writers
    BY <1>3 DEF SharedInv, OneWriter
  <2>2. /\ Ordered(slots) /\ slots[select_live(slots)] = handle[p].header
        /\ IsAttempt(handle[p].header, returned)
        /\ \A s \in Slot \ {victim_slot(slots)} : found[s] = slots[s]
        /\ found[victim_slot(slots)] = NoHeader
    BY <1>3, <2>1
    DEF SharedInv, ProcessInv, WriterIsCurrent, BehindInOneSlot, HasHeader
  <2>3. /\ slots \in [Slot -> Header \cup {NoHeader}]
        /\ found \in [Slot -> Header \cup {NoHeader}]
    BY DecodeSlotsType DEF TypeInv, TypeOK, Handle
  <2>4. found[select_live(found)] = handle[p].header
    <3> HIDE DEF slots, found
    <3> QED BY <2>2, <2>3, WithoutVictim
  <2> QED BY <2>2, <2>4 DEF LiveHeader
<1>4. IsAttempt(LiveHeader(file), returned)
  BY <1>2, <1>3
<1> QED
  BY <1>1, <1>4 DEF IsAttempt

(* open reads the headers. *)
LEMMA LoadHeadersStep ==
    ASSUME TypeInv, TypeInv', SharedInv, NEW p \in Proc, LoadHeaders(p)
    PROVE  SharedInv'
<1> DEFINE found == decode_slots(file)
<1>1. Others(p)
  BY OthersStay DEF StepOf, Open
<1>2. /\ pc[p] = "load" /\ pc'[p] = "load_index"
      /\ UNCHANGED <<file, file_len, attempts, returned, since>>
      /\ handle'[p].header = LiveHeader(file)
      /\ handle'[p].slots = found
      /\ handle'[p].dirty = handle[p].dirty
  BY DEF LoadHeaders, TypeInv, TypeOK, Handle, Goto, openVars, history
<1>3. attempts # <<>>
  <2>1. file_len[p] >= LOG_START /\ file_len[p] \in Nat
    BY <1>2, ConstantTypes DEF LoadHeaders, Accepts, TypeInv, TypeOK
  <2> QED BY <1>2, <2>1, ConstantTypes DEF SharedInv, ProcessInv, LengthTaken
<1>4. p \in Writers \/ ~handle'[p].dirty
  BY <1>2 DEF SharedInv, OneWriter
<1>5. OneWriter'
  BY <1>1, <1>2, <1>4, OneWriterKept
<1>6. HeaderIsAttempt(p)'
  <2>1. since[p] \in 0 .. returned /\ returned \in Nat
    BY DEF TypeInv, TypeOK
  <2>2. PICK j \in DOMAIN attempts : returned <= j /\ attempts[j].header = LiveHeader(file)
    BY <1>3, LiveIsAttempt DEF IsAttempt
  <2>3. j \in Nat
    BY AttemptTypes
  <2> QED BY <1>2, <2>1, <2>2, <2>3 DEF HeaderIsAttempt, IsAttempt
<1>7. WriterIsCurrent(p)'
  <2>1. Ordered(found) /\ IsAttempt(LiveHeader(file), returned)
    BY <1>3, LiveIsAttempt DEF SharedInv, LiveIsLast
  <2>2. victim_slot(found) \in Slot
    BY DecodeSlotsType, VictimSlot DEF TypeInv, TypeOK
  <2>3. BehindInOneSlot(p)'
    BY <1>2, <2>2 DEF BehindInOneSlot
  <2> QED BY <1>2, <2>1, <2>3 DEF WriterIsCurrent, LiveHeader, IsAttempt
<1>8. ProcessInv(p)'
  BY <1>2, <1>6, <1>7
  DEF ProcessInv, ClosedIsNew, LengthTaken, CleanIsHeaders, MasterIsLast, MasterAppended
<1> QED
  BY <1>1, <1>2, <1>5, <1>8, QuietStep

(* open reads the master index, which the header still leads to. *)
LEMMA LoadIndexStep ==
    ASSUME TypeInv, TypeInv', SharedInv, NEW p \in Proc, LoadIndex(p)
    PROVE  SharedInv'
<1> DEFINE h == handle[p].header
<1>1. Others(p)
  BY OthersStay DEF StepOf, Open
<1>2. /\ pc[p] = "load_index" /\ pc'[p] = "idle"
      /\ UNCHANGED <<file, attempts, returned, since>>
      /\ handle'[p].header = h
      /\ handle'[p].slots = handle[p].slots
      /\ handle'[p].dirty = handle[p].dirty
      /\ handle'[p].end = h.log_end
      /\ handle'[p].index = load_index(file, h)
  BY DEF LoadIndex, TypeInv, TypeOK, Handle, Goto, history
<1>3. PICK j \in DOMAIN attempts : since[p] <= j /\ attempts[j].header = h
  BY <1>2 DEF SharedInv, ProcessInv, HeaderIsAttempt, HasHeader, IsAttempt
<1>4. HeaderWhole(file, h) /\ attempts # <<>>
  BY <1>3, AttemptTypes DEF SharedInv, AttemptsKept
<1>5. p \in Writers \/ ~handle'[p].dirty
  BY <1>2 DEF SharedInv, OneWriter
<1>6. OneWriter'
  BY <1>1, <1>2, <1>5, OneWriterKept
<1>7. HeaderIsAttempt(p)'
  BY <1>2, <1>3 DEF HeaderIsAttempt, IsAttempt
<1>8. CleanIsHeaders(p)'
  BY <1>2 DEF CleanIsHeaders
<1>9. ASSUME p \in Writers PROVE WriterIsCurrent(p)'
  <2> DEFINE slots == handle[p].slots
             v == victim_slot(slots)
  <2>1. /\ Ordered(slots) /\ slots[select_live(slots)] = h /\ IsAttempt(h, returned)
        /\ \A s \in Slot \ {v} : decode_slots(file)[s] = slots[s]
        /\ decode_slots(file)[v] = slots[v]
    BY <1>2, <1>9
    DEF SharedInv, ProcessInv, WriterIsCurrent, BehindInOneSlot, HasHeader
  <2>2. decode_slots(file) = slots
    <3>1. /\ decode_slots(file) \in [Slot -> Header \cup {NoHeader}]
          /\ slots \in [Slot -> Header \cup {NoHeader}]
      BY DecodeSlotsType DEF TypeInv, TypeOK, Handle
    <3> HIDE DEF slots, v
    <3> QED BY <2>1, <3>1
  <2>3. LastHeader = h
    <3>1. \A q \in Proc : pc[q] # "header_half_written"
      BY <1>2, <1>9, WriterAlone
    <3>2. LiveHeader(file) = LastHeader
      BY <1>4, <3>1 DEF SharedInv, LiveIsLast
    <3> QED BY <2>1, <2>2, <3>2 DEF LiveHeader
  <2>4. /\ \A o \in LOG_START .. h.log_end - 1 : file[o] # Eof
        /\ IndexWithin(file, load_index(file, h), h.log_end)
        /\ h.log_end <= h.log_end
    <3>1. h.log_end \in Nat
      BY <1>3, AttemptTypes
    <3> QED BY <1>4, <3>1 DEF HeaderWhole
  <2>5. BehindInOneSlot(p)'
    BY <1>2, <2>1 DEF BehindInOneSlot
  <2>6. IsAttempt(h, returned)'
    BY <1>2, <2>1 DEF IsAttempt
  <2>7. LastHeader' = LastHeader
    BY <1>2 DEF LastHeader
  <2> QED
    BY <1>2, <2>1, <2>3, <2>4, <2>5, <2>7 DEF WriterIsCurrent, IsAttempt
<1>10. ProcessInv(p)'
  BY <1>2, <1>7, <1>8, <1>9
  DEF ProcessInv, ClosedIsNew, LengthTaken, WriterIsCurrent, MasterIsLast, MasterAppended
<1> QED
  BY <1>1, <1>2, <1>6, <1>10, QuietStep

(* A process whose handle is gone. *)
LEMMA ClosedProcess ==
    ASSUME TypeInv, NEW p \in Proc, Closes(p)
    PROVE  pc'[p] = "closed" /\ ~handle'[p].dirty /\ ProcessInv(p)'
<1>1. pc'[p] = "closed" /\ handle'[p] = NewHandle
  BY DEF Closes, Goto, TypeInv, TypeOK
<1> QED
  BY <1>1, NewHandleType
  DEF ProcessInv, ClosedIsNew, LengthTaken, HeaderIsAttempt, CleanIsHeaders,
      WriterIsCurrent, MasterIsLast, MasterAppended, HasHeader

(* A handle that open rejects or its process drops. *)
LEMMA CloseStep ==
    ASSUME TypeInv, TypeInv', SharedInv, NEW p \in Proc, LoadRejected(p) \/ Drop(p)
    PROVE  SharedInv'
<1>1. Others(p)
  BY OthersStay DEF StepOf, Open
<1>2. /\ pc[p] \notin {"closed", "header_half_written"} /\ Closes(p)
      /\ UNCHANGED <<file, attempts, returned>>
  BY DEF LoadRejected, Drop, history
<1>3. pc'[p] = "closed" /\ ~handle'[p].dirty /\ ProcessInv(p)'
  BY <1>2, ClosedProcess
<1>4. OneWriter'
  BY <1>1, <1>2, <1>3, OneWriterKept
<1> QED
  BY <1>1, <1>2, <1>3, <1>4, QuietStep

(* A header newer than what the other slot holds is the live one. *)
LEMMA LiveWritten ==
    ASSUME NEW f \in [Offset -> Cell], NEW v \in Slot, NEW h \in Header,
           f[v] = header_encode(h),
           \A s \in Valid(decode_slots(f)) \ {v} :
              decode_slots(f)[s].generation < h.generation
    PROVE  /\ Ordered(decode_slots(f))
           /\ decode_slots(f)[v] = h
           /\ LiveHeader(f) = h
<1> DEFINE sl == decode_slots(f)
<1>1. sl \in [Slot -> Header \cup {NoHeader}]
  BY DecodeSlotsType
<1>2. sl[v] = h
  BY DEF decode_slots, header_decode, header_encode
<1>3. h # NoHeader /\ h.generation \in Nat
  BY DEF Header, NoHeader
<1>4. v \in Valid(sl)
  BY <1>2, <1>3 DEF Valid
<1>5. /\ select_live(sl) \in Valid(sl)
      /\ \A t \in Valid(sl) : sl[t].generation <= sl[select_live(sl)].generation
  BY <1>1, <1>4, SelectLive
<1>6. sl[select_live(sl)].generation \in Nat
  BY <1>1, <1>5 DEF Valid, Header
<1>7. \A s \in Valid(sl) \ {v} : sl[s].generation < h.generation
  OBVIOUS
<1> HIDE DEF sl
<1>8. select_live(sl) = v
  BY <1>2, <1>3, <1>4, <1>5, <1>6, <1>7
<1>9. Ordered(sl)
  BY <1>2, <1>4, <1>7, <1>8 DEF Ordered
<1> QED
  BY <1>2, <1>8, <1>9 DEF LiveHeader, sl

(* A new database in the file, whether or not its process goes on to use   *)
(* it: the header region is its only attempt.                              *)
LEMMA DatabaseCreated ==
    ASSUME TypeInv, TypeInv', attempts = <<>>, \A o \in Offset : file[o] = Eof,
           file' = Written(file, HeaderRegion, 0), attempts' = Created(file')
    PROVE  /\ attempts' # <<>> /\ Len(attempts') = 1
           /\ attempts'[1].header = InitialHeader
           /\ decode_slots(file') = [NewHandle.slots EXCEPT ![0] = InitialHeader]
           /\ LiveHeader(file') = InitialHeader /\ Ordered(decode_slots(file'))
           /\ load_index(file', InitialHeader) = DefaultIndex
           /\ IndexWithin(file', DefaultIndex, LOG_START)
           /\ \A s \in Slot : file'[s] # Eof
           /\ AttemptsKept'
<1>1. /\ file' \in [Offset -> Cell]
      /\ file'[0] = header_encode(InitialHeader) /\ file'[1] = Zero
  <2>1. /\ HeaderRegion \in Seq(Cell) /\ Len(HeaderRegion) = 2
        /\ HeaderRegion[1] = header_encode(InitialHeader) /\ HeaderRegion[2] = Zero
    BY HeaderRegionType DEF HeaderRegion
  <2>2. file \in [Offset -> Cell] /\ file' \in [Offset -> Cell]
    BY DEF TypeInv, TypeOK
  <2>3. 0 \in Offset /\ 1 \in Offset /\ 0 \in Nat
    BY ConstantTypes DEF Offset
  <2>4. \A x \in Offset : x \in 0 .. 0 + Len(HeaderRegion) - 1
                            => Written(file, HeaderRegion, 0)[x] = HeaderRegion[x - 0 + 1]
    BY <2>1, <2>2, <2>3, WrittenType
  <2>5. file'[0] = HeaderRegion[1] /\ file'[1] = HeaderRegion[2]
    <3>1. /\ 0 \in 0 .. 0 + Len(HeaderRegion) - 1 /\ 0 - 0 + 1 = 1
          /\ 1 \in 0 .. 0 + Len(HeaderRegion) - 1 /\ 1 - 0 + 1 = 2
      BY <2>1
    <3> QED BY <2>3, <2>4, <3>1
  <2> QED BY <2>1, <2>2, <2>5
<1>2. /\ decode_slots(file') = [s \in Slot |-> IF s = 0 THEN InitialHeader ELSE NoHeader]
      /\ Valid(decode_slots(file')) = {0}
  <2>1. header_decode(file'[0]) = InitialHeader /\ header_decode(file'[1]) = NoHeader
    BY <1>1 DEF header_decode, header_encode, Zero
  <2>2. InitialHeader # NoHeader
    BY InitialHeaderType DEF Header, NoHeader
  <2>3. decode_slots(file') = [s \in Slot |-> IF s = 0 THEN InitialHeader ELSE NoHeader]
    BY <2>1, ConstantTypes DEF decode_slots
  <2> QED BY <2>2, <2>3, ConstantTypes DEF Valid
<1>3. /\ Ordered(decode_slots(file')) /\ LiveHeader(file') = InitialHeader
  BY <1>1, <1>2, LiveWritten, InitialHeaderType, ConstantTypes
<1>4. decode_slots(file') = [NewHandle.slots EXCEPT ![0] = InitialHeader]
  BY <1>2, ConstantTypes DEF NewHandle
<1>5. /\ load_index(file', InitialHeader) = DefaultIndex
      /\ HeaderWhole(file', InitialHeader)
      /\ IndexWithin(file', DefaultIndex, LOG_START)
      /\ InitialHeader.log_end = LOG_START
  <2>1. \A o \in LOG_START .. LOG_START - 1 : file'[o] # Eof
    BY ConstantTypes
  <2> QED BY <2>1, DefaultIndexWithin DEF InitialHeader, load_index, HeaderWhole
<1>6. /\ attempts' # <<>> /\ Len(attempts') = 1 /\ DOMAIN attempts' = {1}
      /\ attempts'[1].header = InitialHeader
      /\ attempts'[1].reads = Snapshot(file', DefaultIndex)
  BY DEF Created, Attempt
<1>7. AttemptsKept'
  BY <1>5, <1>6, ConstantTypes DEF AttemptsKept, LastHeader
<1>8. \A s \in Slot : file'[s] # Eof
  BY <1>1, ConstantTypes DEF header_encode, Zero, Eof
<1> QED
  BY <1>3, <1>4, <1>5, <1>6, <1>7, <1>8

(* Nobody else is past the first read of an empty file about to be         *)
(* initialized.                                                            *)
LEMMA InitializesAlone ==
    ASSUME TypeInv, SharedInv, NEW p \in Proc, pc[p] = "initialize"
    PROVE  /\ p \in Writers /\ attempts = <<>> /\ handle[p] = NewHandle
           /\ \A o \in Offset : file[o] = Eof
           /\ \A q \in Proc \ {p} : pc[q] = "closed"
<1>1. p \in Writers
  BY DEF SharedInv, OneWriter
<1>2. attempts = <<>> /\ file[0] = Eof /\ handle[p] = NewHandle
  BY DEF SharedInv, ProcessInv, ClosedIsNew
<1>3. \A o \in Offset : file[o] = Eof
  BY <1>2 DEF SharedInv, EmptyUntilCreated
<1>4. ASSUME NEW q \in Proc \ {p} PROVE pc[q] = "closed"
  <2>1. pc[q] \in {"closed", "load", "load_index", "idle"}
    BY <1>1, WriterAlone
  <2>2. pc[q] # "load"
    BY <1>2 DEF SharedInv, ProcessInv, LengthTaken
  <2>3. ~HasHeader(q)
    <3>1. HeaderIsAttempt(q)
      BY DEF SharedInv, ProcessInv
    <3>2. ~\E j \in DOMAIN attempts : TRUE
      BY <1>2
    <3> QED BY <3>1, <3>2 DEF HeaderIsAttempt, IsAttempt
  <2> QED BY <2>1, <2>2, <2>3 DEF HasHeader
<1> QED
  BY <1>1, <1>2, <1>3, <1>4

(* open finds an empty file, which only a writer does, and creates the     *)
(* database.                                                               *)
LEMMA InitializeStep ==
    ASSUME TypeInv, TypeInv', SharedInv, NEW p \in Proc, Initialize(p)
    PROVE  SharedInv'
<1>1. Others(p)
  BY OthersStay DEF StepOf, Open
<1>2. /\ pc[p] = "initialize" /\ pc'[p] = "idle"
      /\ UNCHANGED <<file_len, since>>
      /\ file' = Written(file, HeaderRegion, 0) /\ attempts' = Created(file')
  BY DEF Initialize, TypeInv, TypeOK, Goto, openVars
<1>3. /\ p \in Writers /\ attempts = <<>> /\ handle[p] = NewHandle
      /\ \A o \in Offset : file[o] = Eof
      /\ \A q \in Proc \ {p} : pc[q] = "closed"
  BY <1>2, InitializesAlone
<1>4. returned' = 1 /\ since'[p] = 0
  <2>1. returned = 0 /\ since[p] \in 0 .. returned
    BY <1>3 DEF TypeInv, TypeOK
  <2> QED BY <1>2, <1>3, <2>1 DEF Initialize
<1>5. /\ attempts' # <<>> /\ Len(attempts') = 1
      /\ attempts'[1].header = InitialHeader
      /\ decode_slots(file') = [NewHandle.slots EXCEPT ![0] = InitialHeader]
      /\ LiveHeader(file') = InitialHeader /\ Ordered(decode_slots(file'))
      /\ load_index(file', InitialHeader) = DefaultIndex
      /\ IndexWithin(file', DefaultIndex, LOG_START)
      /\ \A s \in Slot : file'[s] # Eof
      /\ AttemptsKept'
  BY <1>2, <1>3, DatabaseCreated
<1>6. DOMAIN attempts' = {1} /\ LastHeader' = InitialHeader
  <2>1. attempts' \in Seq(AttemptSet)
    BY DEF TypeInv
  <2> QED BY <1>5, <2>1 DEF LastHeader
<1>7. /\ handle'[p].header = InitialHeader /\ handle'[p].slots = decode_slots(file')
      /\ handle'[p].index = DefaultIndex /\ handle'[p].end = LOG_START
      /\ handle'[p].dirty = FALSE
  <2>1. handle'[p] = [NewHandle EXCEPT !.slots[0] = InitialHeader]
    BY <1>3 DEF Initialize, TypeInv, TypeOK
  <2> QED BY <1>5, <2>1 DEF NewHandle
<1>8. OneWriter'
  BY <1>1, <1>2, <1>3, OneWriterKept
<1>9. EmptyUntilCreated' /\ LiveIsLast'
  BY <1>5, <1>6 DEF EmptyUntilCreated, LiveIsLast
<1>10. \A q \in Proc \ {p} : ProcessInv(q)'
  <2>1. Grows /\ LogStays
    BY <1>3, <1>5 DEF Grows, LogStays
  <2>2. file[0] = Eof
    BY <1>3, ConstantTypes
  <2> QED BY <1>1, <1>3, <2>1, <2>2, OthersKept, SharedAssumption
<1>11. HeaderIsAttempt(p)' /\ CleanIsHeaders(p)'
  BY <1>4, <1>5, <1>6, <1>7 DEF HeaderIsAttempt, IsAttempt, CleanIsHeaders
<1>12. WriterIsCurrent(p)'
  <2>1. /\ Ordered(handle'[p].slots)
        /\ handle'[p].slots[select_live(handle'[p].slots)] = handle'[p].header
    BY <1>5, <1>7 DEF LiveHeader
  <2>2. BehindInOneSlot(p)'
    <3>1. victim_slot(handle'[p].slots) \in Slot
      BY <1>7, DecodeSlotsType, VictimSlot DEF TypeInv, TypeOK
    <3> QED BY <1>2, <1>7, <3>1 DEF BehindInOneSlot
  <2>3. /\ LastHeader'.log_end <= handle'[p].end
        /\ \A o \in LOG_START .. handle'[p].end - 1 : file'[o] # Eof
        /\ IndexWithin(file', handle'[p].index, handle'[p].end)
    BY <1>5, <1>6, <1>7, ConstantTypes DEF InitialHeader
  <2>4. IsAttempt(handle[p].header, returned)'
    BY <1>4, <1>5, <1>6, <1>7 DEF IsAttempt
  <2> QED BY <2>1, <2>2, <2>3, <2>4 DEF WriterIsCurrent
<1>13. ProcessInv(p)'
  BY <1>2, <1>11, <1>12
  DEF ProcessInv, ClosedIsNew, LengthTaken, MasterIsLast, MasterAppended
<1> QED
  BY <1>5, <1>8, <1>9, <1>10, <1>13 DEF SharedInv

(* It fails with a part of the header region in the file, or all of it.    *)
LEMMA InitializeErrorStep ==
    ASSUME TypeInv, TypeInv', SharedInv, NEW p \in Proc, InitializeError(p)
    PROVE  SharedInv'
<1>1. Others(p)
  BY OthersStay DEF StepOf, Open
<1>2. pc[p] = "initialize" /\ Closes(p) /\ returned' = returned
  BY DEF InitializeError
<1>3. /\ p \in Writers /\ attempts = <<>>
      /\ \A o \in Offset : file[o] = Eof
      /\ \A q \in Proc \ {p} : pc[q] = "closed"
  BY <1>2, InitializesAlone
<1>4. PICK k \in 0 .. Len(HeaderRegion) :
         /\ file' = Written(file, SubSeq(HeaderRegion, 1, k), 0)
         /\ attempts' = IF k = Len(HeaderRegion) THEN Created(file') ELSE attempts
  BY DEF InitializeError
<1>5. pc'[p] = "closed" /\ ~handle'[p].dirty /\ ProcessInv(p)'
  BY <1>2, ClosedProcess
<1>6. OneWriter'
  BY <1>1, <1>2, <1>3, OneWriterKept
<1>7. HeaderRegion \in Seq(Cell) /\ Len(HeaderRegion) = 2
  BY HeaderRegionType
<1>8. EmptyUntilCreated' /\ AttemptsKept' /\ LiveIsLast'
  <2>1. CASE k = Len(HeaderRegion)
    <3>1. SubSeq(HeaderRegion, 1, k) = HeaderRegion
      BY <1>7, <2>1
    <3>2. file' = Written(file, HeaderRegion, 0) /\ attempts' = Created(file')
      BY <1>4, <2>1, <3>1
    <3>3. /\ attempts' # <<>> /\ Len(attempts') = 1 /\ attempts'[1].header = InitialHeader
          /\ LiveHeader(file') = InitialHeader /\ Ordered(decode_slots(file'))
          /\ \A s \in Slot : file'[s] # Eof
          /\ AttemptsKept'
      BY <1>3, <3>2, DatabaseCreated
    <3> QED BY <3>3 DEF EmptyUntilCreated, LiveIsLast, LastHeader
  <2>2. CASE k # Len(HeaderRegion)
    <3>1. attempts' = <<>> /\ k \in 0 .. 1
      BY <1>3, <1>4, <1>7, <2>2
    <3>2. /\ file \in [Offset -> Cell]
          /\ \A o \in Offset \ {0} : o \notin 0 .. 0 + k - 1
      BY <3>1, ConstantTypes DEF TypeInv, TypeOK, Offset
    <3> HIDE DEF HeaderRegion
    <3>3. \A o \in Offset : o \notin 0 .. 0 + k - 1 => file'[o] = file[o]
      <4> DEFINE z == 0
                 g == Written(file, SubSeq(HeaderRegion, 1, k), z)
      <4>1. z \in Nat /\ k \in 0 .. Len(HeaderRegion) /\ file' = g
        BY <1>4
      <4> HIDE DEF z
      <4>2. \A o \in Offset : o \notin z .. z + k - 1 => g[o] = file[o]
        <5>1. file \in [Offset -> Cell] /\ HeaderRegion \in Seq(Cell)
          BY <1>7, <3>2
        <5> HIDE DEF g
        <5> QED BY <4>1, <5>1, PrefixWritten DEF g
      <4> QED BY <4>1, <4>2 DEF z
    <3>4. EmptyUntilCreated'
      BY <1>3, <3>2, <3>3 DEF EmptyUntilCreated
    <3>5. AttemptsKept' /\ LiveIsLast'
      BY <3>1 DEF AttemptsKept, LiveIsLast
    <3> QED BY <3>4, <3>5
  <2> QED BY <2>1, <2>2
<1>9. \A q \in Proc \ {p} : ProcessInv(q)'
  <2>1. Grows /\ LogStays
    BY <1>3, AttemptTypes, TypeInv' DEF Grows, LogStays, TypeInv
  <2>2. file[0] = Eof
    BY <1>3, ConstantTypes
  <2> QED BY <1>1, <1>3, <2>1, <2>2, OthersKept, SharedAssumption
<1> QED
  BY <1>5, <1>6, <1>8, <1>9 DEF SharedInv

-----------------------------------------------------------------------------
(* append, tombstone and commit. *)

(* What the writer may take for granted, with every other writer closed.   *)
LEMMA WriterFacts ==
    ASSUME TypeInv, SharedInv, NEW p \in Proc,
           pc[p] = "idle" \/ MasterAppended(p),
           pc[p] = "idle" => p \in Writers \/ handle[p].dirty
    PROVE  LET h == handle[p]
           IN /\ p \in Writers /\ attempts # <<>> /\ h \in Handle /\ HasHeader(p)
              /\ \A q \in Writers \ {p} : pc[q] = "closed"
              /\ \A q \in Proc \ {p} : pc[q] # "header_half_written"
              /\ h.index \in MasterIndex
              /\ h.end \in LOG_START .. FileCap /\ h.end \in Nat
              /\ LastHeader.log_end \in Nat /\ LastHeader.log_end <= h.end
              /\ \A o \in LOG_START .. h.end - 1 : file[o] # Eof
              /\ IndexWithin(file, h.index, h.end)
<1>1. p \in Writers /\ pc[p] # "closed"
  BY DEF SharedInv, OneWriter, MasterAppended
<1>2. /\ HasHeader(p) /\ pc[p] # "load_index" /\ handle[p] \in Handle
  BY DEF HasHeader, MasterAppended, TypeInv, TypeOK
<1>3. WriterIsCurrent(p) /\ HeaderIsAttempt(p)
  BY DEF SharedInv, ProcessInv
<1>4. attempts # <<>>
  BY <1>2, <1>3 DEF HeaderIsAttempt, IsAttempt
<1>5. /\ handle[p].index \in MasterIndex
      /\ handle[p].end \in LOG_START .. FileCap /\ handle[p].end \in Nat
  BY <1>2, ConstantTypes DEF Handle
<1>6. LastHeader.log_end \in Nat
  BY <1>4, AttemptTypes, ConstantTypes
<1>7. /\ \A q \in Writers \ {p} : pc[q] = "closed"
      /\ \A q \in Proc \ {p} : pc[q] # "header_half_written"
  BY <1>1, WriterAlone
<1> QED
  BY <1>1, <1>2, <1>3, <1>4, <1>5, <1>6, <1>7 DEF WriterIsCurrent

(* A write behind the log of the one writer, which takes no header: what   *)
(* stays of the file and of the other processes.                           *)
LEMMA WriteBehindLog ==
    ASSUME TypeInv, TypeInv', SharedInv, NEW p \in Writers, pc[p] = "idle", Others(p),
           pc'[p] # "header_half_written",
           UNCHANGED <<attempts, returned>>,
           \A o \in Offset : o < handle[p].end => file'[o] = file[o]
    PROVE  /\ OneWriter' /\ EmptyUntilCreated' /\ AttemptsKept' /\ LiveIsLast'
           /\ \A q \in Proc \ {p} : ProcessInv(q)'
           /\ LogStays /\ decode_slots(file') = decode_slots(file)
           /\ LastHeader' = LastHeader
<1> DEFINE end == handle[p].end
<1>0. p \in Proc
  BY SharedAssumption
<1>1. /\ attempts # <<>> /\ end \in LOG_START .. FileCap /\ end \in Nat
      /\ \A q \in Writers \ {p} : pc[q] = "closed"
      /\ \A q \in Proc \ {p} : pc[q] # "header_half_written"
      /\ LastHeader.log_end \in Nat /\ LastHeader.log_end <= end
  BY <1>0, WriterFacts
<1>2. \A o \in 0 .. end - 1 : o \in Offset /\ file'[o] = file[o]
  <2>1. \A o \in Offset : o < end => file'[o] = file[o]
    OBVIOUS
  <2> HIDE DEF end
  <2> QED BY <1>1, <2>1, ConstantTypes DEF Offset
<1>3. LogStays
  <2> HIDE DEF end
  <2>1. \A o \in LOG_START .. LastHeader.log_end - 1 : o \in 0 .. end - 1
    BY <1>1, ConstantTypes
  <2> QED BY <1>2, <2>1 DEF LogStays
<1>4. /\ \A s \in Slot : file'[s] = file[s]
      /\ decode_slots(file') = decode_slots(file) /\ LiveHeader(file') = LiveHeader(file)
  <2>1. \A s \in Slot : file'[s] = file[s]
    <3> HIDE DEF end
    <3> QED BY <1>1, <1>2, ConstantTypes
  <2> QED BY <2>1, LiveSame
<1>5. LastHeader' = LastHeader
  BY DEF LastHeader
<1>6. OneWriter'
  BY <1>0, OneWriterKept
<1>7. EmptyUntilCreated'
  BY <1>1 DEF EmptyUntilCreated
<1>8. AttemptsKept'
  BY <1>3, <1>5, AttemptKept DEF SharedInv, AttemptsKept
<1>9. LiveIsLast'
  <2>1. \A q \in Proc : pc[q] # "header_half_written"
    BY <1>1
  <2> QED BY <1>1, <1>4, <1>5, <2>1 DEF SharedInv, LiveIsLast
<1>10. \A q \in Proc \ {p} : ProcessInv(q)'
  <2>1. Grows /\ (file[0] # Eof => file'[0] # Eof)
    BY <1>4, AttemptTypes, ConstantTypes DEF Grows
  <2> QED BY <1>0, <1>1, <1>3, <2>1, OthersKept
<1> QED
  BY <1>3, <1>4, <1>5, <1>6, <1>7, <1>8, <1>9, <1>10

(* A record appended by the writer, with an index that the longer log      *)
(* bears out.                                                              *)
LEMMA AppendStep ==
    ASSUME TypeInv, TypeInv', SharedInv, NEW p \in Writers, pc[p] = "idle", Others(p),
           NEW kind \in RecordKind, NEW payload \in Seq(Word), NEW x \in MasterIndex,
           append_raw(p, kind, payload, x),
           IndexWithin(file', x, handle'[p].end),
           \/ pc'[p] = "idle"
           \/ /\ pc'[p] = "write_header"
              /\ LET ptr == handle'[p].end - EncodedLen(x) - RECORD_HEADER_SIZE
                 IN /\ MasterWithin(file', ptr, handle'[p].end)
                    /\ read_record_at(file', ptr).payload = index_encode(x)
    PROVE  SharedInv'
<1> DEFINE end == handle[p].end
<1>0. p \in Proc
  BY SharedAssumption
<1>1. /\ attempts # <<>> /\ end \in LOG_START .. FileCap /\ end \in Nat /\ HasHeader(p)
      /\ LastHeader.log_end \in Nat /\ LastHeader.log_end <= end
      /\ \A o \in LOG_START .. end - 1 : file[o] # Eof
  BY <1>0, WriterFacts
<1>2. /\ UNCHANGED <<since, attempts, returned>>
      /\ handle'[p].header = handle[p].header
      /\ handle'[p].slots = handle[p].slots
      /\ handle'[p].index = x /\ handle'[p].dirty = TRUE
      /\ handle'[p].end = end + 1 + Len(payload)
      /\ Len(payload) \in Nat
      /\ \A o \in Offset : o < end => file'[o] = file[o]
      /\ \A o \in end .. end + Len(payload) :
            file'[o] = record_cells(kind, payload)[o - end + 1]
  <2>1. Appended(p, kind, payload, x)
    BY <1>0, AppendRawShape
  <2> QED BY <2>1 DEF Appended, openVars, history
<1>3. /\ OneWriter' /\ EmptyUntilCreated' /\ AttemptsKept' /\ LiveIsLast'
      /\ \A q \in Proc \ {p} : ProcessInv(q)'
      /\ decode_slots(file') = decode_slots(file) /\ LastHeader' = LastHeader
  BY <1>2, WriteBehindLog
<1>4. \A o \in LOG_START .. handle'[p].end - 1 : file'[o] # Eof
  <2>1. Len(record_cells(kind, payload)) = 1 + Len(payload)
    BY RecordCellsType
  <2>2. \A i \in 1 .. 1 + Len(payload) : record_cells(kind, payload)[i] # Eof
    BY <2>1, RecordCellsNotEof
  <2> HIDE DEF end
  <2>3. \A o \in end .. end + Len(payload) : file'[o] # Eof
    <3>1. \A o \in end .. end + Len(payload) : o - end + 1 \in 1 .. 1 + Len(payload)
      BY <1>1, <1>2
    <3> QED BY <1>2, <2>2, <3>1
  <2>4. ASSUME NEW o \in LOG_START .. end - 1 PROVE file'[o] # Eof
    BY <1>1, <1>2, ConstantTypes DEF Offset
  <2> QED BY <1>1, <1>2, <2>3, <2>4, ConstantTypes
<1>5. HeaderIsAttempt(p)'
  <2>1. HeaderIsAttempt(p)
    BY <1>0 DEF SharedInv, ProcessInv
  <2> QED BY <1>1, <1>2, <2>1 DEF HeaderIsAttempt, IsAttempt
<1>6. WriterIsCurrent(p)'
  <2>1. /\ Ordered(handle[p].slots)
        /\ handle[p].slots[select_live(handle[p].slots)] = handle[p].header
        /\ IsAttempt(handle[p].header, returned) /\ BehindInOneSlot(p)
    BY <1>0, <1>1 DEF SharedInv, ProcessInv, WriterIsCurrent
  <2>2. BehindInOneSlot(p)'
    BY <1>2, <1>3, <2>1 DEF BehindInOneSlot
  <2>3. IsAttempt(handle[p].header, returned)'
    BY <1>2, <2>1 DEF IsAttempt
  <2>4. LastHeader'.log_end <= handle'[p].end
    <3> HIDE DEF end
    <3> QED BY <1>1, <1>2, <1>3
  <2> QED
    BY <1>2, <1>4, <2>1, <2>2, <2>3, <2>4 DEF WriterIsCurrent
<1>7. MasterIsLast(p)'
  BY <1>2 DEF MasterIsLast, MasterAppended
<1>8. ProcessInv(p)'
  BY <1>2, <1>5, <1>6, <1>7 DEF ProcessInv, ClosedIsNew, LengthTaken, CleanIsHeaders
<1> QED
  BY <1>0, <1>3, <1>8 DEF SharedInv

(* A record whose append fails leaves a tail behind the log. *)
LEMMA AppendErrorStep ==
    ASSUME TypeInv, TypeInv', SharedInv, NEW p \in Proc,
           \/ \E d \in Doc : AppendError(p, d)
           \/ \E id \in DocId : TombstoneError(p, id)
           \/ CommitMasterError(p)
    PROVE  SharedInv'
<1> DEFINE h == handle[p]
<1>1. Others(p)
  BY OthersStay DEF StepOf, Commit
<1>2. /\ pc[p] = "idle" /\ UNCHANGED pc /\ p \in Writers
      /\ \E kind \in RecordKind, payload \in Seq(Word) : append_raw_error(p, kind, payload)
  BY ErrorsAppend DEF SharedInv, OneWriter
<1>3. /\ file' \in [Offset -> Cell] /\ file \in [Offset -> Cell]
      /\ \A o \in Offset : o < h.end => file'[o] = file[o]
      /\ UNCHANGED <<handle, since, attempts, returned>>
  BY <1>2, AppendErrorShape DEF openVars, history, TypeInv, TypeOK
<1>4. /\ h.end \in LOG_START .. FileCap /\ h.end \in Nat /\ HasHeader(p)
      /\ LastHeader.log_end <= h.end
      /\ \A o \in LOG_START .. h.end - 1 : file[o] # Eof
      /\ IndexWithin(file, h.index, h.end)
  BY <1>2, WriterFacts
<1>5. /\ OneWriter' /\ EmptyUntilCreated' /\ AttemptsKept' /\ LiveIsLast'
      /\ \A q \in Proc \ {p} : ProcessInv(q)'
      /\ LogStays /\ decode_slots(file') = decode_slots(file) /\ LastHeader' = LastHeader
  BY <1>1, <1>2, <1>3, WriteBehindLog
<1>6. /\ \A o \in LOG_START .. h.end - 1 : file'[o] = file[o] /\ file'[o] # Eof
      /\ IndexWithin(file', h.index, h.end)
  <2> DEFINE e == h.end
             x == h.index
  <2>1. \A o \in Offset : o < e => file'[o] = file[o]
    BY <1>3
  <2>2. /\ e \in LOG_START .. FileCap /\ e \in Int /\ IndexWithin(file, x, e)
        /\ \A o \in LOG_START .. e - 1 : file[o] # Eof
    BY <1>4
  <2> HIDE DEF e, x
  <2>3. \A o \in LOG_START .. e - 1 : file'[o] = file[o]
    BY <2>1, <2>2, ConstantTypes DEF Offset
  <2>4. IndexWithin(file', x, e)
    BY <1>3, <2>2, <2>3, IndexStable
  <2> QED BY <2>2, <2>3, <2>4 DEF e, x
<1>7. /\ HeaderIsAttempt(p) /\ CleanIsHeaders(p) /\ WriterIsCurrent(p)
  BY DEF SharedInv, ProcessInv
<1>8. HeaderIsAttempt(p)'
  BY <1>3, <1>4, <1>7 DEF HeaderIsAttempt, IsAttempt
<1>9. CleanIsHeaders(p)'
  <2>1. PICK j \in DOMAIN attempts : attempts[j].header = h.header
    BY <1>4, <1>7 DEF HeaderIsAttempt, IsAttempt
  <2>2. load_index(file', h.header) = load_index(file, h.header)
    BY <1>5, <2>1, AttemptKept
  <2> QED BY <1>2, <1>3, <1>7, <2>2 DEF CleanIsHeaders
<1>10. WriterIsCurrent(p)'
  <2>1. /\ Ordered(h.slots) /\ h.slots[select_live(h.slots)] = h.header
        /\ IsAttempt(h.header, returned) /\ BehindInOneSlot(p)
    BY <1>2, <1>4, <1>7 DEF WriterIsCurrent
  <2>2. BehindInOneSlot(p)'
    BY <1>2, <1>3, <1>5, <2>1 DEF BehindInOneSlot
  <2>3. IsAttempt(handle[p].header, returned)'
    BY <1>3, <2>1 DEF IsAttempt
  <2> QED
    BY <1>3, <1>4, <1>5, <1>6, <2>1, <2>2, <2>3 DEF WriterIsCurrent
<1>11. ProcessInv(p)'
  BY <1>2, <1>8, <1>9, <1>10
  DEF ProcessInv, ClosedIsNew, LengthTaken, MasterIsLast, MasterAppended
<1> QED
  BY <1>5, <1>11 DEF SharedInv

(* A document, a tombstone and a master index are such records. *)
LEMMA AppendsStep ==
    ASSUME TypeInv, TypeInv', SharedInv, NEW p \in Proc,
           \/ \E d \in Doc : Append_(p, d)
           \/ \E id \in DocId : Tombstone(p, id)
           \/ CommitAppendMaster(p)
    PROVE  SharedInv'
<1> DEFINE x == handle[p].index
           end == handle[p].end
<1>1. Others(p)
  BY OthersStay DEF StepOf, Commit
<1>2. pc[p] = "idle" /\ p \in Writers
  BY DEF Append_, Tombstone, CommitAppendMaster, SharedInv, OneWriter
<1>3. /\ handle[p] \in Handle /\ x \in MasterIndex /\ IndexWithin(file, x, end)
      /\ end \in LOG_START .. FileCap /\ end \in Nat
      /\ file \in [Offset -> Cell] /\ file' \in [Offset -> Cell]
  <2>1. handle[p] \in Handle /\ IndexWithin(file, x, end)
    BY <1>2, WriterFacts
  <2>2. file \in [Offset -> Cell] /\ file' \in [Offset -> Cell]
    BY DEF TypeInv, TypeOK
  <2>3. x \in MasterIndex /\ end \in LOG_START .. FileCap
    BY <2>1 DEF Handle
  <2> QED BY <2>1, <2>2, <2>3, ConstantTypes
<1>4. ASSUME NEW kind \in RecordKind, NEW payload \in Seq(Word), NEW y \in MasterIndex,
             append_raw(p, kind, payload, y)
      PROVE  /\ IndexWithin(file', x, end)
             /\ RecordWithin(file', end, handle'[p].end)
             /\ IndexWithin(file', x, handle'[p].end)
             /\ handle'[p].end \in Nat /\ end <= handle'[p].end
             /\ handle'[p].end = end + 1 + Len(payload) /\ Len(payload) \in Nat
             /\ Len(payload) <= MaxRecordLen /\ handle'[p].end <= FileCap
             /\ \A o \in end .. end + Len(payload) :
                   file'[o] = record_cells(kind, payload)[o - end + 1]
  <2>1. /\ handle'[p].end = end + 1 + Len(payload) /\ handle'[p].end <= FileCap
        /\ Len(payload) \in Nat /\ Len(payload) <= MaxRecordLen
        /\ \A o \in Offset : o < end => file'[o] = file[o]
        /\ \A o \in end .. end + Len(payload) :
              file'[o] = record_cells(kind, payload)[o - end + 1]
    <3>1. Appended(p, kind, payload, y)
      BY <1>4, AppendRawShape
    <3> QED BY <3>1 DEF Appended
  <2> HIDE DEF x, end
  <2>2. ASSUME NEW o \in LOG_START .. end - 1 PROVE file'[o] = file[o]
    <3>1. o \in Offset /\ o < end
      BY <1>3, ConstantTypes DEF Offset
    <3> QED BY <2>1, <3>1
  <2>3. IndexWithin(file', x, end)
    BY <1>3, <2>2, IndexStable
  <2>4. handle'[p].end \in Nat /\ end <= handle'[p].end
    BY <1>3, <2>1
  <2>5. IndexWithin(file', x, handle'[p].end)
    BY <1>3, <2>3, <2>4, IndexWithinLonger
  <2>6. LOG_START <= end /\ end + 1 + Len(payload) <= FileCap
    BY <1>3, <2>1, ConstantTypes
  <2>7. RecordWithin(file', end, end + 1 + Len(payload))
    BY <1>3, <2>1, <2>6, RecordWritten
  <2> QED BY <2>1, <2>3, <2>4, <2>5, <2>7
<1>5. CASE \E d \in Doc : Append_(p, d)
  <2>1. PICK d \in Doc : Append_(p, d)
    BY <1>5
  <2> DEFINE y == InsertNew(x, end)
  <2>2. /\ append_raw(p, "Blob", doc_payload(d), y)
        /\ pc' = pc /\ x.next_doc_id <= MaxDocId
    BY <2>1 DEF Append_
  <2>3. "Blob" \in RecordKind /\ doc_payload(d) \in Seq(Word) /\ y \in MasterIndex
    BY <1>3, <2>2, PayloadTypes, InsertNewType DEF RecordKind
  <2> HIDE DEF x, end
  <2>4. /\ IndexWithin(file', x, end) /\ RecordWithin(file', end, handle'[p].end)
        /\ handle'[p].end \in Nat /\ end <= handle'[p].end
    <3> HIDE DEF y
    <3> QED BY <1>4, <2>2, <2>3
  <2>5. IndexWithin(file', y, handle'[p].end)
    BY <1>3, <2>2, <2>4, InsertNewWithin
  <2> HIDE DEF y
  <2> QED BY <1>1, <1>2, <2>2, <2>3, <2>5, AppendStep
<1>6. CASE \E id \in DocId : Tombstone(p, id)
  <2>1. PICK id \in DocId : Tombstone(p, id)
    BY <1>6
  <2> DEFINE y == [x EXCEPT !.dead = @ \cup {id}]
  <2>2. /\ append_raw(p, "Tombstone", tombstone_payload(id), y)
        /\ pc' = pc /\ id \in Known(x)
    BY <2>1 DEF Tombstone, live_ids
  <2>3. /\ "Tombstone" \in RecordKind /\ tombstone_payload(id) \in Seq(Word)
        /\ y \in MasterIndex
    BY <1>3, PayloadTypes DEF RecordKind, MasterIndex
  <2> HIDE DEF x, end
  <2>4. IndexWithin(file', x, handle'[p].end)
    <3> HIDE DEF y
    <3> QED BY <1>4, <2>2, <2>3
  <2>5. IndexWithin(file', y, handle'[p].end)
    BY <1>3, <2>2, <2>4, BuryWithin
  <2> HIDE DEF y
  <2> QED BY <1>1, <1>2, <2>2, <2>3, <2>5, AppendStep
<1>7. CASE CommitAppendMaster(p)
  <2>1. append_raw(p, "MasterIndex", index_encode(x), x) /\ pc'[p] = "write_header"
    BY <1>7 DEF CommitAppendMaster, Goto, TypeInv, TypeOK
  <2>2. /\ "MasterIndex" \in RecordKind /\ index_encode(x) \in Seq(Word)
        /\ Len(index_encode(x)) = EncodedLen(x) /\ EncodedLen(x) \in Nat
    BY <1>3, PayloadTypes, IndexEncoded, EncodedLenType DEF RecordKind
  <2> HIDE DEF x, end
  <2>3. /\ IndexWithin(file', x, handle'[p].end)
        /\ handle'[p].end = end + 1 + EncodedLen(x)
        /\ EncodedLen(x) <= MaxRecordLen /\ handle'[p].end <= FileCap
        /\ \A o \in end .. end + EncodedLen(x) :
              file'[o] = record_cells("MasterIndex", index_encode(x))[o - end + 1]
    BY <1>3, <1>4, <2>1, <2>2
  <2>4. /\ MasterWithin(file', end, end + 1 + EncodedLen(x))
        /\ read_record_at(file', end).payload = index_encode(x)
    BY <1>3, <2>3, IndexWritten, ConstantTypes
  <2>5. handle'[p].end - EncodedLen(x) - RECORD_HEADER_SIZE = end
    BY <1>3, <2>2, <2>3, ConstantTypes
  <2> QED BY <1>1, <1>2, <1>3, <2>1, <2>2, <2>3, <2>4, <2>5, AppendStep
<1> QED
  BY <1>5, <1>6, <1>7

(* What a change to one header slot leaves alone: the log, and with it all *)
(* that the headers already read lead to.                                  *)
LEMMA SlotWritten ==
    ASSUME TypeInv, TypeInv', SharedInv, NEW v \in Slot, NEW c,
           file' = [file EXCEPT ![v] = c]
    PROVE  /\ \A o \in Offset : LOG_START <= o => file'[o] = file[o]
           /\ file'[v] = c
           /\ \A s \in Slot \ {v} : /\ file'[s] = file[s]
                                    /\ decode_slots(file')[s] = decode_slots(file)[s]
           /\ decode_slots(file') = [decode_slots(file) EXCEPT ![v] = header_decode(c)]
<1>1. file \in [Offset -> Cell] /\ v \in Offset
  BY ConstantTypes DEF TypeInv, TypeOK
<1>2. /\ \A o \in Offset : LOG_START <= o => file'[o] = file[o]
      /\ file'[v] = c /\ \A s \in Slot \ {v} : file'[s] = file[s]
  BY <1>1, ConstantTypes
<1>3. decode_slots(file') = [decode_slots(file) EXCEPT ![v] = header_decode(c)]
  <2>1. \A s \in Slot : header_decode(file'[s]) =
                        IF s = v THEN header_decode(c) ELSE header_decode(file[s])
    BY <1>2
  <2>2. decode_slots(file) = [s \in Slot |-> header_decode(file[s])]
    BY DEF decode_slots
  <2>3. decode_slots(file') = [s \in Slot |-> header_decode(file'[s])]
    BY DEF decode_slots
  <2> QED BY <2>1, <2>2, <2>3
<1> QED
  BY <1>2, <1>3 DEF decode_slots

(* A write to the slot that a commit goes over: it spoils no log, and what *)
(* is said of a process but for the slots stays.                           *)
LEMMA VictimWritten ==
    ASSUME TypeInv, TypeInv', SharedInv, NEW p \in Proc, MasterAppended(p), Others(p),
           NEW c, c # Eof, file' = [file EXCEPT ![victim_slot(handle[p].slots)] = c],
           UNCHANGED <<handle, since, returned>>, Grows
    PROVE  LET h == handle[p]
               v == victim_slot(h.slots)
               ptr == h.end - EncodedLen(h.index) - RECORD_HEADER_SIZE
           IN /\ v \in Slot /\ \A s \in Slot : file'[s] # Eof
              /\ \A s \in Slot \ {v} : decode_slots(file')[s] = h.slots[s]
              /\ decode_slots(file')[v] = header_decode(c)
              /\ \A o \in LOG_START .. h.end - 1 : file'[o] # Eof
              /\ IndexWithin(file', h.index, h.end)
              /\ Snapshot(file', h.index) = Snapshot(file, h.index)
              /\ MasterWithin(file', ptr, h.end)
              /\ read_record_at(file', ptr).payload = index_encode(h.index)
              /\ LogStays /\ OneWriter'
              /\ HeaderIsAttempt(p)' /\ IsAttempt(handle[p].header, returned)'
              /\ \A q \in Proc \ {p} : ProcessInv(q)'
<1> DEFINE h == handle[p]
           v == victim_slot(h.slots)
           ptr == h.end - EncodedLen(h.index) - RECORD_HEADER_SIZE
<1>1. /\ p \in Writers /\ attempts # <<>> /\ h \in Handle /\ HasHeader(p)
      /\ \A q \in Writers \ {p} : pc[q] = "closed"
      /\ h.end \in LOG_START .. FileCap /\ h.end \in Nat
      /\ LastHeader.log_end \in Nat /\ LastHeader.log_end <= h.end
      /\ \A o \in LOG_START .. h.end - 1 : file[o] # Eof
      /\ IndexWithin(file, h.index, h.end)
  BY WriterFacts DEF MasterAppended
<1>2. /\ file \in [Offset -> Cell] /\ file' \in [Offset -> Cell]
      /\ h.slots \in [Slot -> Header \cup {NoHeader}]
  BY <1>1 DEF TypeInv, TypeOK, Handle
<1>3. v \in Slot
  BY <1>2, VictimSlot
<1>4. /\ \A o \in Offset : LOG_START <= o => file'[o] = file[o]
      /\ file'[v] = c
      /\ \A s \in Slot \ {v} : /\ file'[s] = file[s]
                               /\ decode_slots(file')[s] = decode_slots(file)[s]
      /\ decode_slots(file') = [decode_slots(file) EXCEPT ![v] = header_decode(c)]
  <2>1. file' = [file EXCEPT ![v] = c]
    OBVIOUS
  <2> HIDE DEF v
  <2> QED BY <1>3, <2>1, SlotWritten
<1>5. decode_slots(file) \in [Slot -> Header \cup {NoHeader}]
  BY <1>2, DecodeSlotsType
<1>6. /\ Ordered(h.slots) /\ IsAttempt(h.header, returned)
      /\ \A s \in Slot \ {v} : decode_slots(file)[s] = h.slots[s]
      /\ HeaderIsAttempt(p)
  BY <1>1 DEF SharedInv, ProcessInv, WriterIsCurrent, BehindInOneSlot
<1>7. /\ \A s \in Slot \ {v} : decode_slots(file')[s] = h.slots[s]
      /\ decode_slots(file')[v] = header_decode(c)
  <2> HIDE DEF v
  <2> QED BY <1>3, <1>4, <1>5, <1>6
<1>8. \A s \in Slot : file'[s] # Eof
  <2> HIDE DEF v
  <2> QED BY <1>1, <1>4 DEF SharedInv, LiveIsLast
<1>9. /\ \A o \in LOG_START .. h.end - 1 : file'[o] = file[o]
      /\ \A o \in LOG_START .. h.end - 1 : file'[o] # Eof
      /\ h.end \in Int
  <2> HIDE DEF h, v
  <2> QED BY <1>1, <1>4, ConstantTypes DEF Offset
<1>10. IndexWithin(file', h.index, h.end) /\ Snapshot(file', h.index) = Snapshot(file, h.index)
  <2>1. /\ file \in [Offset -> Cell] /\ file' \in [Offset -> Cell] /\ h.end \in Int
        /\ \A o \in LOG_START .. h.end - 1 : file'[o] = file[o]
        /\ IndexWithin(file, h.index, h.end)
    BY <1>1, <1>2, <1>9
  <2> HIDE DEF h
  <2> QED BY <2>1, IndexStable
<1>11. /\ MasterWithin(file', ptr, h.end)
       /\ read_record_at(file', ptr).payload = index_encode(h.index)
  <2>1. /\ MasterWithin(file, ptr, h.end)
        /\ read_record_at(file, ptr).payload = index_encode(h.index)
    BY DEF SharedInv, ProcessInv, MasterIsLast
  <2>2. /\ file \in [Offset -> Cell] /\ file' \in [Offset -> Cell] /\ h.end \in Int
        /\ \A o \in LOG_START .. h.end - 1 : file'[o] = file[o]
    BY <1>2, <1>9
  <2> HIDE DEF ptr, h
  <2>3. /\ MasterWithin(file', ptr, h.end)
        /\ read_record_at(file', ptr) = read_record_at(file, ptr)
    BY <2>1, <2>2, MasterStable
  <2> QED BY <2>1, <2>3
<1>12. LogStays
  <2>1. \A o \in LOG_START .. h.end - 1 : file'[o] = file[o]
    BY <1>9
  <2>2. LastHeader.log_end \in Nat /\ h.end \in Nat /\ LastHeader.log_end <= h.end
    BY <1>1
  <2> HIDE DEF h, LastHeader
  <2> QED BY <2>1, <2>2, ConstantTypes DEF LogStays
<1>13. OneWriter'
  BY <1>1, OneWriterKept DEF MasterAppended
<1>14. DOMAIN attempts \subseteq DOMAIN attempts'
  BY AttemptTypes, TypeInv' DEF Grows, TypeInv
<1>15. HeaderIsAttempt(p)' /\ IsAttempt(handle[p].header, returned)'
  BY <1>1, <1>6, <1>14 DEF HeaderIsAttempt, IsAttempt, Grows
<1>16. \A q \in Proc \ {p} : ProcessInv(q)'
  <2>1. file'[0] # Eof
    BY <1>8, ConstantTypes
  <2> QED BY <1>1, <1>12, <2>1, OthersKept
<1> QED
  BY <1>3, <1>7, <1>8, <1>9, <1>10, <1>11, <1>12, <1>13, <1>15, <1>16

(* The first half of a header write spoils the slot that is not live.      *)
LEMMA HeaderBeginsStep ==
    ASSUME TypeInv, TypeInv', SharedInv, NEW p \in Proc, CommitHeaderBegins(p)
    PROVE  SharedInv'
<1> DEFINE h == handle[p]
           v == victim_slot(h.slots)
           found == decode_slots(file')
           ptr == h.end - EncodedLen(h.index) - RECORD_HEADER_SIZE
<1>1. Others(p)
  BY OthersStay DEF StepOf, Commit
<1>2. /\ pc[p] = "write_header" /\ pc'[p] = "header_half_written" /\ MasterAppended(p)
      /\ file' = [file EXCEPT ![v] = Torn]
      /\ UNCHANGED <<handle, since, attempts, returned>>
  BY DEF CommitHeaderBegins, Goto, TypeInv, TypeOK, MasterAppended, openVars, history
<1>3. Torn # Eof /\ header_decode(Torn) = NoHeader
  BY DEF Torn, Eof, header_decode
<1>4. Grows
  BY <1>2, AttemptTypes DEF Grows
<1>5. /\ v \in Slot /\ \A s \in Slot : file'[s] # Eof
      /\ \A s \in Slot \ {v} : found[s] = h.slots[s]
      /\ found[v] = NoHeader
      /\ \A o \in LOG_START .. h.end - 1 : file'[o] # Eof
      /\ IndexWithin(file', h.index, h.end)
      /\ MasterWithin(file', ptr, h.end)
      /\ read_record_at(file', ptr).payload = index_encode(h.index)
      /\ LogStays /\ OneWriter'
      /\ HeaderIsAttempt(p)' /\ IsAttempt(handle[p].header, returned)'
      /\ \A q \in Proc \ {p} : ProcessInv(q)'
  BY <1>1, <1>2, <1>3, <1>4, VictimWritten
<1>6. /\ p \in Writers /\ attempts # <<>> /\ HasHeader(p) /\ LastHeader.log_end <= h.end
      /\ h \in Handle
  BY <1>2, WriterFacts
<1>7. /\ Ordered(h.slots) /\ h.slots[select_live(h.slots)] = h.header
  BY <1>6 DEF SharedInv, ProcessInv, WriterIsCurrent
<1>8. Ordered(found)
  <2>1. /\ h.slots \in [Slot -> Header \cup {NoHeader}]
        /\ found \in [Slot -> Header \cup {NoHeader}]
    BY <1>6, DecodeSlotsType DEF Handle, TypeInv, TypeOK
  <2> DEFINE slots == h.slots
  <2>2. /\ slots \in [Slot -> Header \cup {NoHeader}] /\ Ordered(slots)
        /\ \A s \in Slot \ {victim_slot(slots)} : found[s] = slots[s]
        /\ found[victim_slot(slots)] = NoHeader
    BY <1>5, <1>7, <2>1
  <2> HIDE DEF slots, found
  <2> QED BY <2>1, <2>2, WithoutVictim
<1>9. LastHeader' = LastHeader
  BY <1>2 DEF LastHeader
<1>10. EmptyUntilCreated' /\ LiveIsLast'
  BY <1>2, <1>5, <1>6, <1>8 DEF EmptyUntilCreated, LiveIsLast
<1>11. AttemptsKept'
  BY <1>2, <1>5, <1>9, AttemptKept DEF SharedInv, AttemptsKept
<1>12. WriterIsCurrent(p)'
  <2>1. BehindInOneSlot(p)'
    BY <1>2, <1>5 DEF BehindInOneSlot
  <2> QED BY <1>2, <1>5, <1>6, <1>7, <1>9, <2>1 DEF WriterIsCurrent
<1>13. MasterIsLast(p)'
  BY <1>2, <1>5 DEF SharedInv, ProcessInv, MasterIsLast
<1>14. ProcessInv(p)'
  BY <1>2, <1>5, <1>12, <1>13 DEF ProcessInv, ClosedIsNew, LengthTaken, CleanIsHeaders
<1> QED
  BY <1>5, <1>10, <1>11, <1>14 DEF SharedInv

(* The header a commit writes leads to what the handle holds.              *)
LEMMA NextLeads ==
    ASSUME TypeInv, SharedInv, NEW p \in Proc, MasterAppended(p), NEW f,
           LET h == handle[p]
           IN read_record_at(f, h.end - EncodedLen(h.index) - RECORD_HEADER_SIZE).payload
                 = index_encode(h.index)
    PROVE  LET next == NextHeader(handle[p])
           IN /\ next \in Header /\ next.log_end = handle[p].end
              /\ next.generation = handle[p].header.generation + 1
              /\ next.master_ptr = handle[p].end - EncodedLen(handle[p].index) - RECORD_HEADER_SIZE
              /\ load_index(f, next) = handle[p].index
<1> DEFINE next == NextHeader(handle[p])
<1>1. next \in Header
  BY NextHeaderType
<1>2. /\ next.log_end = handle[p].end /\ next.master_len = EncodedLen(handle[p].index)
      /\ next.generation = handle[p].header.generation + 1
      /\ next.master_ptr = handle[p].end - EncodedLen(handle[p].index) - RECORD_HEADER_SIZE
  BY DEF NextHeader
<1>3. handle[p].index \in MasterIndex
  BY DEF TypeInv, TypeOK, Handle
<1>4. next.master_len # 0
  BY <1>2, <1>3, EncodedLenType
<1> HIDE DEF next
<1>5. load_index(f, next) = handle[p].index
  BY <1>2, <1>3, <1>4, LoadIndexEncoded
<1> QED
  BY <1>1, <1>2, <1>5 DEF next

(* The second half makes the new header live, and the last of the attempts. *)
LEMMA HeaderEndsStep ==
    ASSUME TypeInv, TypeInv', SharedInv, NEW p \in Proc, CommitHeaderEnds(p)
    PROVE  SharedInv'
<1> DEFINE h == handle[p]
           v == victim_slot(h.slots)
           next == NextHeader(h)
           found == decode_slots(file')
           n == Len(attempts) + 1
<1>1. Others(p)
  BY OthersStay DEF StepOf, Commit
<1>2. /\ pc[p] = "header_half_written" /\ pc'[p] = "sync_header" /\ MasterAppended(p)
      /\ file' = [file EXCEPT ![v] = header_encode(next)]
      /\ attempts' = Append(attempts, Attempt(next, file, h.index))
      /\ UNCHANGED <<handle, since, returned>>
  BY DEF CommitHeaderEnds, Goto, TypeInv, TypeOK, MasterAppended, openVars
<1>3. header_encode(next) # Eof /\ header_decode(header_encode(next)) = next
  BY DEF header_encode, Eof, header_decode
<1>4. /\ attempts' # <<>> /\ Len(attempts') = n /\ DOMAIN attempts' = DOMAIN attempts \cup {n}
      /\ n \notin DOMAIN attempts
      /\ attempts'[n] = Attempt(next, file, h.index)
      /\ \A i \in DOMAIN attempts : attempts'[i] = attempts[i]
      /\ Grows
  <2> DEFINE a == Attempt(next, file, h.index)
  <2>1. attempts' = Append(attempts, a) /\ attempts \in Seq(AttemptSet)
    BY <1>2 DEF TypeInv
  <2> HIDE DEF a
  <2>2. /\ Len(attempts') = n /\ attempts'[n] = a /\ Len(attempts) \in Nat
        /\ DOMAIN attempts = 1 .. Len(attempts) /\ DOMAIN attempts' = 1 .. n
        /\ \A i \in DOMAIN attempts : attempts'[i] = attempts[i]
    BY <2>1
  <2>3. /\ attempts' # <<>> /\ n \notin DOMAIN attempts
        /\ DOMAIN attempts' = DOMAIN attempts \cup {n} /\ Len(attempts) <= Len(attempts')
    BY <2>1, <2>2
  <2> QED BY <2>2, <2>3 DEF Grows, a
<1>5. /\ v \in Slot /\ \A s \in Slot : file'[s] # Eof
      /\ \A s \in Slot \ {v} : found[s] = h.slots[s]
      /\ found[v] = next
      /\ \A o \in LOG_START .. h.end - 1 : file'[o] # Eof
      /\ IndexWithin(file', h.index, h.end)
      /\ Snapshot(file', h.index) = Snapshot(file, h.index)
      /\ LET ptr == h.end - EncodedLen(h.index) - RECORD_HEADER_SIZE
         IN /\ MasterWithin(file', ptr, h.end)
            /\ read_record_at(file', ptr).payload = index_encode(h.index)
      /\ LogStays /\ OneWriter'
      /\ HeaderIsAttempt(p)' /\ IsAttempt(handle[p].header, returned)'
      /\ \A q \in Proc \ {p} : ProcessInv(q)'
  <2> DEFINE c == header_encode(next)
  <2>1. c # Eof /\ file' = [file EXCEPT ![victim_slot(handle[p].slots)] = c]
    BY <1>2, <1>3
  <2>2. header_decode(c) = next
    BY <1>3
  <2>3. MasterAppended(p) /\ Grows /\ UNCHANGED <<handle, since, returned>>
    BY <1>2, <1>4
  <2> HIDE DEF c
  <2>4. /\ v \in Slot /\ \A s \in Slot : file'[s] # Eof
        /\ \A s \in Slot \ {v} : decode_slots(file')[s] = h.slots[s]
        /\ decode_slots(file')[v] = header_decode(c)
        /\ \A o \in LOG_START .. h.end - 1 : file'[o] # Eof
        /\ IndexWithin(file', h.index, h.end)
        /\ Snapshot(file', h.index) = Snapshot(file, h.index)
        /\ MasterWithin(file', h.end - EncodedLen(h.index) - RECORD_HEADER_SIZE, h.end)
        /\ read_record_at(file', h.end - EncodedLen(h.index) - RECORD_HEADER_SIZE).payload
              = index_encode(h.index)
        /\ LogStays /\ OneWriter'
        /\ HeaderIsAttempt(p)' /\ IsAttempt(handle[p].header, returned)'
        /\ \A q \in Proc \ {p} : ProcessInv(q)'
    BY <1>1, <2>1, <2>3, VictimWritten
  <2> QED BY <2>2, <2>4
<1>6. /\ p \in Writers /\ attempts # <<>> /\ h \in Handle /\ HasHeader(p)
      /\ \A q \in Proc \ {p} : pc[q] # "header_half_written"
      /\ LastHeader.log_end \in Nat /\ LastHeader.log_end <= h.end /\ h.end \in Nat
  BY <1>2, WriterFacts
<1>7. /\ Ordered(h.slots) /\ h.slots[select_live(h.slots)] = h.header
  BY <1>6 DEF SharedInv, ProcessInv, WriterIsCurrent
<1>8. /\ next \in Header /\ next.log_end = h.end
      /\ next.generation = h.header.generation + 1
      /\ next.master_ptr = h.end - EncodedLen(h.index) - RECORD_HEADER_SIZE
      /\ load_index(file', next) = h.index
  BY <1>2, <1>5, NextLeads
<1>9. /\ Ordered(found) /\ LiveHeader(file') = next
  <2>1. /\ h.slots \in [Slot -> Header \cup {NoHeader}] /\ h.header \in Header
        /\ found \in [Slot -> Header \cup {NoHeader}]
    BY <1>6, DecodeSlotsType DEF Handle, TypeInv, TypeOK
  <2>2. \A t \in Valid(h.slots) : h.slots[t].generation <= h.header.generation
    BY <1>7, <2>1, SelectLive DEF Ordered
  <2>3. h.header.generation \in Nat
    BY <2>1 DEF Header
  <2>4. ASSUME NEW s \in Valid(found) \ {v}
        PROVE  found[s].generation < next.generation
    <3> HIDE DEF h, v, next, found
    <3>1. s \in Valid(h.slots) /\ found[s] = h.slots[s]
      BY <1>5, <2>4 DEF Valid
    <3>2. h.slots[s].generation \in Nat
      BY <2>1, <3>1 DEF Valid, Header
    <3> QED BY <1>8, <2>2, <2>3, <3>1, <3>2
  <2>5. /\ v \in Slot /\ next \in Header /\ file' \in [Offset -> Cell]
        /\ file'[v] = header_encode(next)
    <3>1. v \in Offset /\ file \in [Offset -> Cell] /\ file' \in [Offset -> Cell]
      BY <1>5, ConstantTypes DEF TypeInv, TypeOK
    <3> HIDE DEF v, next
    <3> QED BY <1>2, <1>5, <1>8, <3>1
  <2> HIDE DEF h, v, next
  <2> QED BY <2>4, <2>5, LiveWritten
<1>10. LastHeader' = next
  BY <1>4 DEF LastHeader, Attempt
<1>11. EmptyUntilCreated' /\ LiveIsLast'
  BY <1>4, <1>5, <1>9, <1>10 DEF EmptyUntilCreated, LiveIsLast
<1>12. AttemptsKept'
  <2>1. ASSUME NEW i \in DOMAIN attempts
        PROVE  LET g == attempts'[i].header
               IN /\ HeaderWhole(file', g)
                  /\ Snapshot(file', load_index(file', g)) = attempts'[i].reads
                  /\ g.log_end <= LastHeader'.log_end
    <3>1. /\ HeaderWhole(file', attempts[i].header)
          /\ Snapshot(file', load_index(file', attempts[i].header)) = attempts[i].reads
      BY <1>5, AttemptKept
    <3>2. attempts[i].header.log_end <= LastHeader.log_end /\ attempts[i].header.log_end \in Nat
      BY AttemptTypes DEF SharedInv, AttemptsKept
    <3>3. attempts[i].header.log_end <= next.log_end
      <4> HIDE DEF next, LastHeader
      <4> QED BY <1>6, <1>8, <3>2
    <3> QED BY <1>4, <1>10, <3>1, <3>3
  <2>2. LET g == attempts'[n].header
        IN /\ HeaderWhole(file', g)
           /\ Snapshot(file', load_index(file', g)) = attempts'[n].reads
           /\ g.log_end <= LastHeader'.log_end
    <3>1. attempts'[n].header = next /\ attempts'[n].reads = Snapshot(file, h.index)
      BY <1>4 DEF Attempt
    <3>2. HeaderWhole(file', next)
      BY <1>5, <1>8 DEF HeaderWhole
    <3>3. next.log_end <= next.log_end
      BY <1>6, <1>8
    <3> HIDE DEF next
    <3> QED BY <1>5, <1>8, <1>10, <3>1, <3>2, <3>3
  <2> QED BY <1>4, <2>1, <2>2 DEF AttemptsKept
<1>13. WriterIsCurrent(p)'
  <2>1. BehindInOneSlot(p)'
    BY <1>2, <1>5, <1>10 DEF BehindInOneSlot
  <2>2. LastHeader'.log_end <= h.end
    BY <1>6, <1>8, <1>10
  <2> QED BY <1>2, <1>5, <1>7, <2>1, <2>2 DEF WriterIsCurrent
<1>14. MasterIsLast(p)'
  BY <1>2, <1>5 DEF SharedInv, ProcessInv, MasterIsLast
<1>15. ProcessInv(p)'
  BY <1>2, <1>5, <1>13, <1>14 DEF ProcessInv, ClosedIsNew, LengthTaken, CleanIsHeaders
<1> QED
  BY <1>5, <1>11, <1>12, <1>15 DEF SharedInv

(* The last sync succeeds: the handle has caught up with the file.         *)
LEMMA CommitReturnsStep ==
    ASSUME TypeInv, TypeInv', SharedInv, NEW p \in Proc, CommitReturns(p)
    PROVE  SharedInv'
<1> DEFINE h == handle[p]
           v == victim_slot(h.slots)
           next == NextHeader(h)
           found == decode_slots(file)
<1>1. Others(p)
  BY OthersStay DEF StepOf, Commit
<1>2. /\ pc[p] = "sync_header" /\ pc'[p] = "idle" /\ MasterAppended(p)
      /\ UNCHANGED <<file, since, attempts>> /\ returned' = Len(attempts)
  BY DEF CommitReturns, Goto, TypeInv, TypeOK, MasterAppended, openVars
<1>3. /\ p \in Writers /\ attempts # <<>> /\ h \in Handle /\ HasHeader(p)
      /\ \A q \in Writers \ {p} : pc[q] = "closed"
      /\ \A q \in Proc \ {p} : pc[q] # "header_half_written"
      /\ LastHeader.log_end <= h.end
      /\ \A o \in LOG_START .. h.end - 1 : file[o] # Eof
      /\ IndexWithin(file, h.index, h.end)
  BY <1>2, WriterFacts
<1>4. /\ \A s \in Slot \ {v} : found[s] = h.slots[s]
      /\ found[v] = LastHeader /\ LastHeader = next
      /\ v \in Slot
  BY <1>2, <1>3, VictimSlot
  DEF SharedInv, ProcessInv, WriterIsCurrent, BehindInOneSlot, Handle
<1>5. load_index(file, next) = h.index
  BY <1>2, NextLeads DEF SharedInv, ProcessInv, MasterIsLast
<1>6. /\ handle'[p].header = next /\ handle'[p].slots = [h.slots EXCEPT ![v] = next]
      /\ handle'[p].dirty = FALSE /\ handle'[p].end = h.end /\ handle'[p].index = h.index
  BY <1>3, <1>4 DEF CommitReturns, TypeInv, TypeOK, Handle
<1>7. handle'[p].slots = found
  <2>1. /\ h.slots \in [Slot -> Header \cup {NoHeader}]
        /\ found \in [Slot -> Header \cup {NoHeader}]
    BY <1>3, DecodeSlotsType DEF Handle, TypeInv, TypeOK
  <2> HIDE DEF v, next, found, LastHeader
  <2> QED BY <1>4, <1>6, <2>1
<1>8. Ordered(found) /\ found[select_live(found)] = next
  <2>1. \A q \in Proc : pc[q] # "header_half_written"
    BY <1>2, <1>3
  <2> QED BY <1>3, <1>4, <2>1 DEF SharedInv, LiveIsLast, LiveHeader
<1>9. attempts[Len(attempts)].header = next /\ Len(attempts) \in DOMAIN attempts
  BY <1>3, <1>4, AttemptTypes DEF LastHeader
<1>10. HeaderIsAttempt(p)'
  <2>1. since[p] \in 0 .. returned /\ returned \in 0 .. Len(attempts) /\ Len(attempts) \in Nat
    BY AttemptTypes DEF TypeInv, TypeOK
  <2>2. since[p] <= Len(attempts)
    BY <2>1
  <2> QED BY <1>2, <1>6, <1>9, <2>2 DEF HeaderIsAttempt, IsAttempt
<1>11. CleanIsHeaders(p)'
  BY <1>2, <1>5, <1>6 DEF CleanIsHeaders
<1>12. WriterIsCurrent(p)'
  <2>1. BehindInOneSlot(p)'
    <3>1. victim_slot(found) \in Slot
      BY DecodeSlotsType, VictimSlot DEF TypeInv, TypeOK
    <3> QED BY <1>2, <1>7, <3>1 DEF BehindInOneSlot
  <2>2. IsAttempt(handle[p].header, returned)'
    <3>1. Len(attempts) <= Len(attempts)
      BY AttemptTypes
    <3> QED BY <1>2, <1>6, <1>9, <3>1 DEF IsAttempt
  <2>3. LastHeader' = LastHeader
    BY <1>2 DEF LastHeader
  <2> QED
    BY <1>2, <1>3, <1>6, <1>7, <1>8, <2>1, <2>2, <2>3 DEF WriterIsCurrent
<1>13. ProcessInv(p)'
  BY <1>2, <1>10, <1>11, <1>12
  DEF ProcessInv, ClosedIsNew, LengthTaken, MasterIsLast, MasterAppended
<1>14. OneWriter'
  BY <1>1, <1>2, <1>3, OneWriterKept
<1> QED
  BY <1>1, <1>2, <1>3, <1>13, <1>14, QuietStep

(* It fails, or an earlier step of the commit does: the handle stays, one  *)
(* slot behind the file if the header was written.                         *)
LEMMA CommitErrorStep ==
    ASSUME TypeInv, TypeInv', SharedInv, NEW p \in Proc, CommitError(p)
    PROVE  SharedInv'
<1>1. Others(p)
  BY OthersStay DEF StepOf, Commit
<1>2. /\ pc[p] \in {"write_header", "sync_header"} /\ pc'[p] = "idle" /\ MasterAppended(p)
      /\ UNCHANGED <<file, handle, since, attempts, returned>>
  BY DEF CommitError, Goto, TypeInv, TypeOK, MasterAppended, openVars, history
<1>3. /\ p \in Writers /\ HasHeader(p) /\ handle[p] \in Handle
  BY <1>2, WriterFacts
<1>4. /\ HeaderIsAttempt(p) /\ WriterIsCurrent(p) /\ handle[p].dirty
  BY <1>2 DEF SharedInv, ProcessInv, MasterIsLast
<1>5. HeaderIsAttempt(p)'
  BY <1>2, <1>3, <1>4 DEF HeaderIsAttempt, IsAttempt
<1>6. BehindInOneSlot(p)'
  <2>1. BehindInOneSlot(p)
    BY <1>3, <1>4 DEF WriterIsCurrent
  <2>2. NextHeader(handle[p]).generation = handle[p].header.generation + 1
    BY DEF NextHeader
  <2> QED BY <1>2, <2>1, <2>2 DEF BehindInOneSlot, LastHeader
<1>7. WriterIsCurrent(p)'
  BY <1>2, <1>3, <1>4, <1>6 DEF WriterIsCurrent, IsAttempt, LastHeader
<1>8. ProcessInv(p)'
  BY <1>2, <1>4, <1>5, <1>7
  DEF ProcessInv, ClosedIsNew, LengthTaken, CleanIsHeaders, MasterIsLast, MasterAppended
<1>9. OneWriter'
  BY <1>1, <1>2, <1>3, OneWriterKept
<1> QED
  BY <1>1, <1>2, <1>8, <1>9, QuietStep

-----------------------------------------------------------------------------
(* The inductive invariant of processes that coordinate: no write of any   *)
(* process reaches a byte that a header ever written leads to, though the  *)
(* commit that wrote it may have failed (engine.rs append_raw writes at    *)
(* end, commit over the slot that is not the handle's live one).           *)
THEOREM SharedInvariant == ASSUME Orderly PROVE Spec => []SharedInv
<1>1. Init => SharedInv
  <2> SUFFICES ASSUME Init PROVE SharedInv
    OBVIOUS
  <2>1. ~NewHandle.dirty
    BY NewHandleType
  <2>2. DOMAIN attempts = {}
    BY DEF Init
  <2> QED
    BY <2>1, <2>2, SharedAssumption
    DEF Init, SharedInv, OneWriter, EmptyUntilCreated, AttemptsKept, LiveIsLast, ProcessInv,
        ClosedIsNew, LengthTaken, HeaderIsAttempt, CleanIsHeaders, WriterIsCurrent,
        MasterIsLast, HasHeader, MasterAppended
<1>2. TypeInv /\ TypeInv' /\ SharedInv /\ [Next]_vars => SharedInv'
  <2> SUFFICES ASSUME TypeInv, TypeInv', SharedInv, [Next]_vars PROVE SharedInv'
    OBVIOUS
  <2>1. CASE UNCHANGED vars
    BY <2>1
    DEF vars, openVars, history, SharedInv, OneWriter, EmptyUntilCreated, AttemptsKept,
        LiveIsLast, LastHeader, ProcessInv, ClosedIsNew, LengthTaken, HeaderIsAttempt,
        CleanIsHeaders, WriterIsCurrent, BehindInOneSlot, MasterIsLast, HasHeader,
        MasterAppended, IsAttempt, NextHeader
  <2>2. ASSUME NEW p \in Proc, Open(p) PROVE SharedInv'
    BY <2>2, StatStep, InitializeStep, InitializeErrorStep, LoadHeadersStep, LoadIndexStep,
       CloseStep DEF Open
  <2>3. ASSUME NEW p \in Proc, Commit(p) \/ Drop(p) PROVE SharedInv'
    BY <2>3, AppendsStep, AppendErrorStep, HeaderBeginsStep, HeaderEndsStep,
       CommitReturnsStep, CommitErrorStep, CloseStep DEF Commit
  <2>4. ASSUME NEW p \in Proc,
               \/ \E d \in Doc : Append_(p, d) \/ AppendError(p, d)
               \/ \E id \in DocId : Tombstone(p, id) \/ TombstoneError(p, id)
        PROVE  SharedInv'
    BY <2>4, AppendsStep, AppendErrorStep
  <2> QED BY <2>1, <2>2, <2>3, <2>4 DEF Next
<1> QED
  BY <1>1, <1>2, TypeInvariant, PTL DEF Spec

-----------------------------------------------------------------------------
(* What processes that coordinate may rely on. *)

(* At every moment, a header half written or left by a commit that failed  *)
(* included, the file opens to an attempt no older than the last commit    *)
(* that returned Ok, and to all that attempt was to save (engine.rs open   *)
(* and commit).                                                            *)
THEOREM CommitsSurvive == ASSUME Orderly PROVE Spec => []CommittedSurvives
<1>1. TypeInv /\ SharedInv => CommittedSurvives
  <2> SUFFICES ASSUME TypeInv, SharedInv, attempts # <<>> PROVE CommittedSurvives
    BY DEF CommittedSurvives
  <2> DEFINE h == LiveHeader(file)
  <2>1. /\ \A s \in Slot : file[s] # Eof
        /\ Valid(decode_slots(file)) # {}
    BY DEF SharedInv, LiveIsLast, Ordered
  <2>2. IsAttempt(h, returned)
    BY LiveIsAttempt
  <2>3. PICK j \in DOMAIN attempts : attempts[j].header = h
    BY <2>2 DEF IsAttempt
  <2>4. HeaderWhole(file, h) /\ h.log_end \in LOG_START .. FileCap
    BY <2>3, AttemptTypes DEF SharedInv, AttemptsKept
  <2>5. h.log_end - 1 \in Offset /\ file[h.log_end - 1] # Eof
    <3>1. CASE h.log_end = LOG_START
      BY <2>1, <3>1, ConstantTypes DEF Offset
    <3>2. CASE h.log_end # LOG_START
      BY <2>4, <3>2, ConstantTypes DEF HeaderWhole, Offset
    <3> QED BY <3>1, <3>2
  <2>6. Loadable(file)
    BY <2>1, <2>4, <2>5, ConstantTypes DEF Loadable, HeaderWhole, MasterWithin
  <2>7. \A i \in DOMAIN attempts : attempts[i].header = h =>
           Snapshot(file, load_index(file, h)) = attempts[i].reads
    BY DEF SharedInv, AttemptsKept
  <2> QED BY <2>2, <2>6, <2>7 DEF CommittedSurvives
<1> QED
  BY <1>1, TypeInvariant, SharedInvariant, PTL

(* What a handle that writes nothing reads stays what the attempt whose    *)
(* header it opened was to save, for as long as it is open, even when that *)
(* attempt failed and a retry of the same generation follows (engine.rs    *)
(* read_record): readers need no lock.                                     *)
THEOREM StableSnapshots == ASSUME Orderly PROVE Spec => []SnapshotsAreStable
<1>1. TypeInv /\ SharedInv => SnapshotsAreStable
  <2> SUFFICES ASSUME TypeInv, SharedInv, NEW p \in Proc, pc[p] = "idle", ~handle[p].dirty
               PROVE  /\ IsAttempt(handle[p].header, 1)
                      /\ \A i \in DOMAIN attempts : attempts[i].header = handle[p].header =>
                            Snapshot(file, handle[p].index) = attempts[i].reads
    BY DEF SnapshotsAreStable
  <2>1. handle[p].index = load_index(file, handle[p].header)
    BY DEF SharedInv, ProcessInv, CleanIsHeaders
  <2>2. PICK j \in DOMAIN attempts : attempts[j].header = handle[p].header
    BY DEF SharedInv, ProcessInv, HeaderIsAttempt, HasHeader, IsAttempt
  <2>3. 1 <= j
    BY AttemptTypes
  <2> QED BY <2>1, <2>2, <2>3 DEF SharedInv, AttemptsKept, IsAttempt
<1> QED
  BY <1>1, TypeInvariant, SharedInvariant, PTL

(* A handle's header is of an attempt no older than the last commit that   *)
(* returned Ok before its open began, though its reads of the header slots *)
(* overlap a commit or follow one that failed (engine.rs load).            *)
THEOREM FreshOpens == ASSUME Orderly PROVE Spec => []OpensAreFresh
<1>1. SharedInv => OpensAreFresh
  BY DEF SharedInv, OpensAreFresh, ProcessInv, HeaderIsAttempt, HasHeader
<1> QED
  BY <1>1, SharedInvariant, PTL

(* An open that fails was overtaken: a header was written between its      *)
(* first read, of the file's length, and its last, by a commit that        *)
(* returned Ok or one that failed (engine.rs load, the check of log_end    *)
(* against the length).                                                    *)
THEOREM FailuresAreOvertaken == ASSUME Orderly PROVE Spec => FailsOnlyIfOvertaken
<1>1. TypeInv /\ SharedInv /\ [Next]_vars =>
         [attempts # <<>> =>
            \A p \in Proc :
               pc[p] \in {"load", "load_index"} /\ pc'[p] = "closed"
                  => seen[p] < Len(attempts)]_vars
  <2> SUFFICES ASSUME TypeInv, SharedInv, Next, attempts # <<>>, NEW p \in Proc,
                      pc[p] \in {"load", "load_index"}, pc'[p] = "closed"
               PROVE  seen[p] < Len(attempts)
    OBVIOUS
  <2>1. PICK q \in Proc : StepOf(q)
    BY DEF Next, StepOf
  <2>2. q = p
    <3>1. Others(q)
      BY <2>1, OthersStay
    <3> QED BY <3>1 DEF Others
  <2>3. ~Accepts(p)
    BY <2>1, <2>2
    DEF StepOf, Open, OpenStat, Initialize, InitializeError, LoadHeaders, LoadIndex,
        LoadRejected, Commit, CommitAppendMaster, CommitMasterError, CommitHeaderBegins,
        CommitHeaderEnds, CommitReturns, CommitError, Drop, Append_, AppendError, Tombstone,
        TombstoneError, Goto, TypeInv, TypeOK
  <2>4. seen[p] \in 0 .. Len(attempts) /\ Len(attempts) \in Nat
    BY AttemptTypes DEF TypeInv, TypeOK
  <2>5. CASE pc[p] = "load"
    <3>1. /\ file_len[p] >= LOG_START /\ file_len[p] \in Nat
          /\ \A i \in 1 .. seen[p] : attempts[i].header.log_end <= file_len[p]
      <4>1. file_len[p] \in Nat
        BY ConstantTypes DEF TypeInv, TypeOK
      <4> QED BY <2>5, <4>1, ConstantTypes DEF SharedInv, ProcessInv, LengthTaken
    <3>2. ~LogInFile(LiveHeader(file), file_len[p])
      BY <2>3, <2>5, <3>1 DEF Accepts, SharedInv, LiveIsLast, Ordered
    <3>3. PICK j \in DOMAIN attempts : attempts[j].header = LiveHeader(file)
      BY LiveIsAttempt DEF IsAttempt
    <3>4. j \in 1 .. Len(attempts) /\ attempts[j].header.log_end \in Nat
      BY AttemptTypes
    <3>5. j \notin 1 .. seen[p]
      BY <3>1, <3>2, <3>3 DEF LogInFile
    <3> QED BY <2>4, <3>4, <3>5
  <2>6. CASE pc[p] = "load_index"
    <3>1. PICK j \in DOMAIN attempts : attempts[j].header = handle[p].header
      BY <2>6 DEF SharedInv, ProcessInv, HeaderIsAttempt, HasHeader, IsAttempt
    <3>2. HeaderWhole(file, handle[p].header)
      BY <3>1 DEF SharedInv, AttemptsKept
    <3> QED BY <2>3, <2>6, <3>2 DEF Accepts, HeaderWhole, MasterWithin
  <2> QED BY <2>5, <2>6
<1> QED
  BY <1>1, TypeInvariant, SharedInvariant, PTL DEF Spec, FailsOnlyIfOvertaken
=============================================================================
