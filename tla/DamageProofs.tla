---------------------------- MODULE DamageProofs ----------------------------
(***************************************************************************)
(* DamageInv is an invariant of the handle on a medium that damages what   *)
(* it holds, and so get returns the document that was inserted, or an      *)
(* error, whatever became of the file.                                     *)
(***************************************************************************)
EXTENDS ClientProofs

-----------------------------------------------------------------------------
(* What a file leads to. *)

(* A frame is still there, or damaged, if its cell is. *)
LEMMA DocsLeadOn ==
    ASSUME NEW f, NEW g, NEW x, NEW ins, NEW e \in Int, NEW e2 \in Int, e <= e2,
           DocsLead(f, x, ins, e),
           \A o \in LOG_START .. e - 1 : g[o] = f[o] \/ g[o] \in {Zero, Torn}
    PROVE  DocsLead(g, x, ins, e2)
<1> SUFFICES ASSUME NEW id \in Known(x)
             PROVE  /\ x.offsets[id] \in LOG_START .. e2 - 1
                    /\ ins[id] \in Doc
                    /\ Frames(g, x.offsets[id], doc_payload(ins[id]))
  BY DEF DocsLead
<1>1. /\ x.offsets[id] \in LOG_START .. e - 1 /\ ins[id] \in Doc
      /\ Frames(f, x.offsets[id], doc_payload(ins[id]))
  BY DEF DocsLead
<1>2. x.offsets[id] \in LOG_START .. e2 - 1
  BY <1>1, ConstantTypes
<1>3. Frames(g, x.offsets[id], doc_payload(ins[id]))
  BY <1>1 DEF Frames
<1> QED
  BY <1>1, <1>2, <1>3

(* So is a master index and what it leads to. *)
LEMMA MasterLeadsOn ==
    ASSUME NEW f, NEW g, NEW p, NEW ins, NEW e \in Int, p \in LOG_START .. e - 1,
           MasterLeads(f, p, ins, e),
           \A o \in LOG_START .. e - 1 : g[o] = f[o] \/ g[o] \in {Zero, Torn}
    PROVE  MasterLeads(g, p, ins, e)
<1>1. CASE g[p] \in {Zero, Torn}
  BY <1>1 DEF MasterLeads
<1>2. CASE g[p] = f[p] /\ g[p] \notin {Zero, Torn}
  <2>1. /\ f[p].tag = "frame" /\ IsEncodedIndex(f[p].crc)
        /\ DocsLead(f, f[p].crc[1].index, ins, e)
    BY <1>2 DEF MasterLeads
  <2>2. DocsLead(g, f[p].crc[1].index, ins, e)
    BY <2>1, DocsLeadOn
  <2> QED
    BY <1>2, <2>1, <2>2 DEF MasterLeads
<1> QED
  BY <1>1, <1>2

(* An index that knows no document leads to none. *)
LEMMA DefaultLeads ==
    ASSUME NEW f, NEW ins, NEW e
    PROVE  DocsLead(f, DefaultIndex, ins, e)
  BY DEF DocsLead, DefaultIndex, Known

(* The logs of the headers that a slot may still hold are as they were, or *)
(* damaged.                                                                *)
LogsSpared ==
    \A s \in Slot : \A c \in disk'[s] : c.tag = "header" =>
        /\ c \in disk[s]
        /\ \A o \in LOG_START .. c.header.log_end - 1 :
              /\ file'[o] = file[o] \/ file'[o] \in {Zero, Torn}
              /\ o \notin unsynced => o \notin unsynced'

(* Then those headers lead where they did. *)
LEMMA HeadersLeadOn ==
    ASSUME FileTypeOK, HeadersLead, LogsSpared, UNCHANGED saved
    PROVE  HeadersLead'
<1> SUFFICES ASSUME NEW s \in Slot, NEW c \in disk'[s], c.tag = "header"
             PROVE  LET h == c.header
                    IN /\ h.master_ptr < h.log_end
                       /\ \A o \in LOG_START .. h.log_end - 1 : o \notin unsynced'
                       /\ h.master_len # 0 =>
                             /\ LOG_START <= h.master_ptr
                             /\ MasterLeads(file', h.master_ptr, saved'[h.master_ptr],
                                            h.log_end)
  BY DEF HeadersLead
<1> DEFINE h == c.header
<1>1. /\ c \in disk[s]
      /\ \A o \in LOG_START .. h.log_end - 1 :
            /\ file'[o] = file[o] \/ file'[o] \in {Zero, Torn}
            /\ o \notin unsynced => o \notin unsynced'
  BY DEF LogsSpared
<1>2. h \in Header
  BY <1>1, CandidateType
<1>3. /\ h.master_ptr < h.log_end
      /\ \A o \in LOG_START .. h.log_end - 1 : o \notin unsynced
      /\ h.master_len # 0 =>
            /\ LOG_START <= h.master_ptr
            /\ MasterLeads(file, h.master_ptr, saved[h.master_ptr], h.log_end)
  BY <1>1 DEF HeadersLead
<1>4. h.master_ptr \in Int /\ h.log_end \in Int
  BY <1>2, ConstantTypes DEF Header
<1> HIDE DEF h
<1>5. ASSUME h.master_len # 0
      PROVE  MasterLeads(file', h.master_ptr, saved[h.master_ptr], h.log_end)
  <2>1. h.master_ptr \in LOG_START .. h.log_end - 1
    BY <1>3, <1>4, <1>5, ConstantTypes
  <2> QED
    BY <1>1, <1>3, <1>4, <1>5, <2>1, MasterLeadsOn
<1> QED
  BY <1>1, <1>3, <1>5 DEF h

-----------------------------------------------------------------------------
(* The file, by kind of step. *)

(* A step after which a slot may hold no header that it could not hold     *)
(* before keeps the slots in order.                                        *)
LEMMA SlotsStand ==
    ASSUME SlotsOrdered, \A s \in Slot : \A c \in disk'[s] : c.tag = "header" => c \in disk[s]
    PROVE  SlotsOrdered' /\ \A e : HeadersWithin(e) => HeadersWithin(e)'
<1>1. SlotsOrdered'
  BY ConstantTypes DEF SlotsOrdered
<1>2. \A e : HeadersWithin(e) => HeadersWithin(e)'
  BY DEF HeadersWithin
<1> QED
  BY <1>1, <1>2

(* A sync, or one that failed and left its pages dirty. *)
LEMMA SyncStands ==
    ASSUME FileTypeOK, FileTypeOK', FileStands, ~SyncErrorDropsWrites,
           UNCHANGED fileVars \/ sync_data \/ SyncError
    PROVE  /\ FileStands' /\ LogsSpared /\ file' = file
           /\ \A e : HeadersWithin(e) => HeadersWithin(e)'
<1>1. /\ file' = file /\ unsynced' \subseteq unsynced
      /\ \A o \in Offset : disk'[o] \subseteq disk[o]
  BY DEF sync_data, SyncError, FileTypeOK, FileStands, SyncedIsCached, fileVars
<1>2. \A s \in Slot : disk'[s] \subseteq disk[s]
  BY <1>1, ConstantTypes
<1>3. SyncedIsCached'
  BY DEF SyncedIsCached, sync_data, SyncError, FileTypeOK, FileStands, fileVars
<1>4. SlotsOrdered' /\ \A e : HeadersWithin(e) => HeadersWithin(e)'
  BY <1>2, SlotsStand DEF FileStands
<1>5. CacheIsLongest'
  BY <1>1, <1>2 DEF CacheIsLongest, FileStands
<1>6. NewIsEmpty'
  BY <1>1, <1>2, <1>3, ConstantTypes DEF NewIsEmpty, FileStands, SyncedIsCached
<1>7. LogsSpared
  BY <1>1, <1>2 DEF LogsSpared
<1> QED
  BY <1>1, <1>3, <1>4, <1>5, <1>6, <1>7 DEF FileStands

(* A power cut leaves one of the cells that each offset could hold. *)
LEMMA PowerCutStands ==
    ASSUME FileTypeOK, FileTypeOK', FileStands, HeadersLead, PowerCut
    PROVE  FileStands' /\ LogsSpared
<1>1. PICK img \in Images(disk) :
        /\ file' = img
        /\ disk' = [o \in Offset |-> {img[o]}]
        /\ unsynced' = {}
  BY DEF PowerCut
<1>2. IsImage(img, disk)
  BY ImageShape
<1>3. \A o \in Offset : img[o] \in disk[o] /\ disk'[o] = {img[o]}
  BY <1>1, <1>2 DEF IsImage
<1>4. SyncedIsCached'
  BY <1>1, <1>3 DEF SyncedIsCached
<1>5. LogsSpared
  <2> SUFFICES ASSUME NEW s \in Slot, NEW c \in disk'[s], c.tag = "header"
               PROVE  /\ c \in disk[s]
                      /\ \A o \in LOG_START .. c.header.log_end - 1 : file'[o] = file[o]
    BY <1>1 DEF LogsSpared
  <2>1. c \in disk[s]
    BY <1>3, ConstantTypes
  <2>2. /\ c.header.log_end \in LOG_START .. FileCap
        /\ \A o \in LOG_START .. c.header.log_end - 1 : o \notin unsynced
    BY <2>1, CandidateType DEF HeadersLead
  <2>3. ASSUME NEW o \in LOG_START .. c.header.log_end - 1
        PROVE  file'[o] = file[o]
    <3>1. o \in Offset /\ o \notin unsynced
      BY <2>2, ConstantTypes DEF Offset
    <3> QED
      BY <1>1, <1>3, <3>1 DEF FileStands, SyncedIsCached
  <2> QED
    BY <2>1, <2>3
<1>6. SlotsOrdered'
  BY <1>5, SlotsStand DEF LogsSpared, FileStands
<1>7. CacheIsLongest'
  <2> SUFFICES ASSUME NEW s \in Slot, NEW c \in disk'[s], c.tag = "header"
               PROVE  file'[s].tag = "header" /\ c.header.log_end <= file'[s].header.log_end
    BY DEF CacheIsLongest
  <2>1. c = file'[s] /\ c \in disk[s]
    BY <1>1, <1>3, ConstantTypes
  <2>2. c.header.log_end \in LOG_START .. FileCap
    BY <2>1, CandidateType
  <2> QED
    BY <2>1, <2>2, ConstantTypes
<1>8. NewIsEmpty'
  BY <1>1, <1>2, <1>3, ConstantTypes DEF NewIsEmpty, IsImage
<1> QED
  BY <1>4, <1>5, <1>6, <1>7, <1>8 DEF FileStands

(* Damage of one cell, for good: it leaves no other choice on the medium. *)
LEMMA DamageStands ==
    ASSUME FileTypeOK, FileTypeOK', FileStands, HeadersLead, Damage
    PROVE  /\ FileStands' /\ LogsSpared
           /\ \A e : HeadersWithin(e) => HeadersWithin(e)'
           /\ \A o \in Offset : file'[o] = file[o] \/ file'[o] \in {Zero, Torn}
<1>1. PICK p \in Offset, x \in {Zero, Torn} :
         /\ file[p] # Eof
         /\ file' = [file EXCEPT ![p] = x]
         /\ disk' = [disk EXCEPT ![p] = {x}]
         /\ unsynced' = unsynced \ {p}
  BY DEF Damage
<1>2. x.tag # "header" /\ x # Eof
  BY DEF Zero, Torn, Eof
<1>3. \A o \in Offset : /\ o # p => file'[o] = file[o] /\ disk'[o] = disk[o]
                        /\ o = p => file'[o] = x /\ disk'[o] = {x}
  BY <1>1 DEF FileTypeOK
<1>4. SyncedIsCached'
  BY <1>1, <1>3 DEF SyncedIsCached, FileStands
<1>5. \A s \in Slot : \A c \in disk'[s] : c.tag = "header" => s # p /\ c \in disk[s]
  BY <1>2, <1>3, ConstantTypes
<1>6. SlotsOrdered' /\ \A e : HeadersWithin(e) => HeadersWithin(e)'
  BY <1>5, SlotsStand DEF FileStands
<1>7. CacheIsLongest'
  BY <1>3, <1>5, ConstantTypes DEF CacheIsLongest, FileStands
<1>8. NewIsEmpty'
  <2> SUFFICES ASSUME file'[0] = Eof
               PROVE  disk'[0] = {Eof} /\ disk'[1] = {Eof}
    BY DEF NewIsEmpty
  <2>1. 0 \in Offset /\ 1 \in Offset /\ p # 0
    BY <1>2, <1>3, ConstantTypes
  <2>2. disk[0] = {Eof} /\ disk[1] = {Eof} /\ file[1] = Eof
    BY <1>3, <2>1 DEF FileStands, NewIsEmpty, SyncedIsCached
  <2> QED
    BY <1>1, <1>3, <2>1, <2>2
<1>9. LogsSpared
  <2> SUFFICES ASSUME NEW s \in Slot, NEW c \in disk'[s], c.tag = "header",
                      NEW o \in LOG_START .. c.header.log_end - 1
               PROVE  /\ file'[o] = file[o] \/ file'[o] \in {Zero, Torn}
                      /\ o \notin unsynced => o \notin unsynced'
    BY <1>5 DEF LogsSpared
  <2>1. c.header.log_end \in LOG_START .. FileCap
    BY <1>5, CandidateType
  <2>2. o \in Offset
    BY <2>1, ConstantTypes DEF Offset
  <2> QED
    BY <1>1, <1>3, <2>2
<1> QED
  BY <1>1, <1>3, <1>4, <1>6, <1>7, <1>8, <1>9 DEF FileStands

(* A write, whole or cut short, that starts where every header's log has   *)
(* ended.                                                                  *)
LEMMA AppendStands ==
    ASSUME TypeOK, FileTypeOK', FileStands, HeadersWithin(end),
           NEW cells \in Seq(Cell), NEW k \in 0 .. Len(cells),
           WritePrefix(cells, k, end)
    PROVE  /\ FileStands' /\ LogsSpared
           /\ \A s \in Slot : disk'[s] = disk[s] /\ file'[s] = file[s]
           /\ \A o \in LOG_START .. end - 1 : file'[o] = file[o]
           /\ \A o \in Offset : o \in end .. end + k - 1 =>
                 file'[o] = cells[o - end + 1]
<1>1. /\ FileTypeOK /\ end \in LOG_START .. FileCap /\ end \in Nat
  BY ConstantTypes DEF TypeOK
<1>2. \A x \in Offset :
        /\ x \notin end .. end + k - 1 =>
             /\ file'[x] = file[x] /\ disk'[x] = disk[x]
             /\ x \in unsynced' <=> x \in unsynced
        /\ x \in end .. end + k - 1 =>
             /\ file'[x] = cells[x - end + 1]
             /\ disk'[x] = disk[x] \cup {cells[x - end + 1], Damaged(x)}
             /\ x \in unsynced'
  BY <1>1, WriteEffect
<1>3. \A x \in 0 .. end - 1 :
        /\ x \in Offset /\ file'[x] = file[x] /\ disk'[x] = disk[x]
        /\ x \in unsynced' <=> x \in unsynced
  <2> SUFFICES ASSUME NEW x \in 0 .. end - 1
               PROVE  x \in Offset /\ x \notin end .. end + k - 1
    BY <1>2
  <2> QED
    BY <1>1, ConstantTypes DEF Offset
<1>4. \A s \in Slot : disk'[s] = disk[s] /\ file'[s] = file[s]
  <2>1. \A s \in Slot : s \in 0 .. end - 1
    BY <1>1, ConstantTypes
  <2> QED
    BY <1>3, <2>1
<1>5. SyncedIsCached'
  BY <1>2 DEF SyncedIsCached, FileStands
<1>6. SlotsOrdered' /\ CacheIsLongest' /\ NewIsEmpty'
  BY <1>4, ConstantTypes DEF SlotsOrdered, CacheIsLongest, NewIsEmpty, FileStands
<1>7. LogsSpared
  <2> SUFFICES ASSUME NEW s \in Slot, NEW c \in disk[s], c.tag = "header",
                      NEW o \in LOG_START .. c.header.log_end - 1
               PROVE  o \in 0 .. end - 1
    BY <1>3, <1>4 DEF LogsSpared
  <2>1. c.header.log_end \in LOG_START .. FileCap /\ c.header.log_end <= end
    BY <1>1, CandidateType DEF HeadersWithin
  <2> QED
    BY <1>1, <2>1, ConstantTypes
<1>8. \A o \in LOG_START .. end - 1 : file'[o] = file[o]
  BY <1>1, <1>3, ConstantTypes
<1> QED
  BY <1>2, <1>4, <1>5, <1>6, <1>7, <1>8 DEF FileStands

(* Laying down the header region, or a part of it, in an empty file. *)
LEMMA CreateStands ==
    ASSUME FileTypeOK, FileTypeOK', FileStands, file[0] = Eof,
           NEW k \in 0 .. 2, WritePrefix(HeaderRegion, k, 0)
    PROVE  /\ FileStands'
           /\ \A s \in Slot : \A c \in disk'[s] :
                 c.tag = "header" => c.header = InitialHeader
<1>1. /\ disk[0] = {Eof} /\ disk[1] = {Eof} /\ file[1] = Eof
      /\ 0 \in Offset /\ 1 \in Offset
  BY ConstantTypes DEF FileStands, NewIsEmpty, SyncedIsCached
<1>2. \A s \in Slot : disk[s] = {Eof} /\ file[s] = Eof
  BY <1>1, ConstantTypes
<1>3. FileInv
  <2>1. HeadersSupported
    BY <1>2 DEF HeadersSupported, Eof
  <2>2. CacheIsNewest
    BY <1>2 DEF CacheIsNewest, HeadersWithin, Eof
  <2> QED
    BY <2>1, <2>2 DEF FileInv, FileStands
<1>4. /\ FileInv'
      /\ \A s \in Slot : \A c \in disk'[s] :
            c.tag = "header" => s = 0 /\ c.header = InitialHeader
  BY <1>3, CreateKeepsFile
<1>5. CacheIsLongest'
  <2>1. CASE k = 0
    <3>1. \A s \in Slot : disk'[s] = disk[s]
      BY <2>1, ConstantTypes DEF WritePrefix
    <3> QED
      BY <1>2, <3>1 DEF CacheIsLongest, Eof
  <2>2. CASE k # 0
    <3>1. file'[0] = HeaderRegion[0 - 0 + 1]
      BY <1>1, <2>2 DEF WritePrefix
    <3>2. file'[0] = header_encode(InitialHeader)
      BY <3>1 DEF HeaderRegion
    <3>3. file'[0].tag = "header" /\ file'[0].header = InitialHeader
      BY <3>2 DEF header_encode
    <3>4. InitialHeader.log_end <= InitialHeader.log_end
      BY ConstantTypes DEF InitialHeader
    <3> QED
      BY <1>4, <3>3, <3>4 DEF CacheIsLongest
  <2> QED
    BY <2>1, <2>2
<1> QED
  BY <1>4, <1>5 DEF FileInv, FileStands

-----------------------------------------------------------------------------
(* The handle, by kind of step. *)

(* An open handle does not go over the slot of its own header. *)
LEMMA VictimIsOther ==
    ASSUME TypeOK, HandleStands, IsOpen
    PROVE  /\ victim_slot(slots) \in Slot /\ victim_slot(slots) # live_slot
           /\ live_slot \in Slot
           /\ \A s \in Slot : s = victim_slot(slots) \/ s = live_slot
<1>1. /\ slots \in [Slot -> Header \cup {NoHeader}]
      /\ live_slot \in Slot /\ header \in Header
  BY DEF TypeOK
<1>2. /\ slots[live_slot] = header
      /\ \A s \in Valid(slots) \ {live_slot} :
            slots[s].generation < slots[live_slot].generation
  BY DEF HandleStands
<1>3. live_slot \in Valid(slots)
  BY <1>1, <1>2 DEF Valid, Header, NoHeader
<1>4. victim_slot(slots) \in Slot /\ victim_slot(slots) # live_slot
  BY <1>1, <1>2, <1>3, VictimSlot
<1> QED
  BY <1>1, <1>4, ConstantTypes

(* A handle whose header and offsets a step leaves as they were, with its  *)
(* log damaged at most and no header beyond it, stands where it stood.     *)
LEMMA HandleStandsOn ==
    ASSUME TypeOK, TypeOK', HandleStands, IsOpen, IsOpen',
           UNCHANGED <<header, slots, live_slot, inserted>>,
           index'.offsets = index.offsets, end <= end',
           \A s \in Slot : \A c \in disk'[s] : c.tag = "header" => c.header.log_end <= end,
           file'[live_slot] = file[live_slot] \/ file'[live_slot] \in {Zero, Torn},
           \A o \in LOG_START .. end - 1 : file'[o] = file[o] \/ file'[o] \in {Zero, Torn}
    PROVE  HandleStands' /\ HandleUnused'
<1>1. /\ FileTypeOK' /\ end \in Int /\ end' \in Int
      /\ file[live_slot] \in {header_encode(header), Zero, Torn}
      /\ DocsLead(file, index, inserted, end)
  BY ConstantTypes DEF TypeOK, HandleStands
<1>2. HeadersWithin(end)'
  <2> SUFFICES ASSUME NEW s \in Slot, NEW c \in disk'[s], c.tag = "header"
               PROVE  c.header.log_end <= end'
    BY DEF HeadersWithin
  <2>1. c.header.log_end \in Int /\ c.header.log_end <= end
    <3>1. c \in Cell
      BY <1>1, ConstantTypes DEF FileTypeOK
    <3>2. c.header \in Header
      BY <3>1, HeaderDecodeType DEF header_decode
    <3> QED
      BY <3>2, ConstantTypes DEF Header
  <2> QED
    BY <1>1, <2>1
<1>3. DocsLead(file', index', inserted', end')
  <2>1. DocsLead(file', index, inserted, end')
    BY <1>1, DocsLeadOn
  <2> QED
    BY <2>1 DEF DocsLead, Known
<1>4. file'[live_slot'] \in {header_encode(header'), Zero, Torn}
  BY <1>1
<1> QED
  BY <1>2, <1>3, <1>4 DEF HandleStands, HandleUnused

(* A handle that goes away leaves nothing behind. *)
LEMMA NoHandleStands ==
    ASSUME pc' = "closed", index' = DefaultIndex,
           header' = InitialHeader, slots' = [s \in Slot |-> NoHeader], end' = LOG_START
    PROVE  HandleUnused' /\ HandleCreating' /\ HandleStands' /\ MasterStands'
  BY DEF HandleUnused, HandleCreating, HandleStands, MasterStands, IsOpen

-----------------------------------------------------------------------------
(* The inductive step. *)

(* Laying down the header region preserves the invariant. *)
LEMMA CreateDamageStep ==
    ASSUME TypeOK, TypeOK', DamageInv, OpenCreate \/ OpenCreateError, UNCHANGED history
    PROVE  DamageInv'
<1>1. /\ FileTypeOK /\ FileTypeOK' /\ FileStands /\ pc = "closed" /\ file[0] = Eof
      /\ pc' \in {"init", "closed"} /\ UNCHANGED handleVars
      /\ UNCHANGED <<inserted, saved, acked>>
  BY DEF TypeOK, DamageInv, OpenCreate, OpenCreateError, history
<1>2. HeaderRegion \in Seq(Cell) /\ Len(HeaderRegion) = 2
      /\ HeaderRegion[1] = header_encode(InitialHeader) /\ HeaderRegion[2] = Zero
  BY HeaderRegionType DEF HeaderRegion
<1>3. PICK k \in 0 .. 2 : WritePrefix(HeaderRegion, k, 0) /\ (OpenCreate => k = 2)
  <2>1. CASE OpenCreate
    BY <1>2, <2>1 DEF OpenCreate, write_all_at
  <2>2. CASE ~OpenCreate
    BY <1>2, <2>2 DEF OpenCreateError, WriteFault, WriteError
  <2> QED BY <2>1, <2>2
<1>4. /\ FileStands'
      /\ \A s \in Slot : \A c \in disk'[s] : c.tag = "header" => c.header = InitialHeader
  BY <1>1, <1>3, CreateStands
<1>5. HeadersLead'
  <2>1. /\ InitialHeader.master_len = 0 /\ InitialHeader.master_ptr < InitialHeader.log_end
        /\ LOG_START .. InitialHeader.log_end - 1 = {}
    BY ConstantTypes DEF InitialHeader
  <2> QED
    BY <1>4, <2>1 DEF HeadersLead
<1>6. ~IsOpen /\ ~IsOpen'
  BY <1>1 DEF IsOpen
<1>7. HandleUnused' /\ HandleStands' /\ MasterStands'
  BY <1>1, <1>6 DEF DamageInv, HandleUnused, HandleStands, MasterStands, handleVars
<1>8. HandleCreating'
  <2> SUFFICES ASSUME pc' = "init"
               PROVE  file'[0] = header_encode(InitialHeader) /\ file'[1] = Zero
    BY DEF HandleCreating
  <2>1. k = 2
    BY <1>1, <1>3 DEF OpenCreateError
  <2>2. file'[0] = HeaderRegion[0 - 0 + 1] /\ file'[1] = HeaderRegion[1 - 0 + 1]
    BY <1>3, <2>1, ConstantTypes DEF WritePrefix
  <2> QED
    BY <1>2, <2>2
<1>9. HistoryTypeOK'
  BY <1>1 DEF DamageInv, HistoryTypeOK
<1> QED
  BY <1>4, <1>5, <1>7, <1>8, <1>9 DEF DamageInv

(* The sync of initialize and its error preserve the invariant. *)
LEMMA InitializeDamageStep ==
    ASSUME TypeOK, TypeOK', DamageInv, ~SyncErrorDropsWrites,
           InitializeSync \/ InitializeSyncError, UNCHANGED history
    PROVE  DamageInv'
<1>1. /\ FileTypeOK /\ FileTypeOK' /\ FileStands /\ pc = "init"
      /\ sync_data \/ SyncError
      /\ UNCHANGED <<index, inserted, saved, acked>>
  BY DEF TypeOK, DamageInv, InitializeSync, InitializeSyncError, handleVars, history
<1>2. /\ FileStands' /\ LogsSpared /\ file' = file
  BY <1>1, SyncStands
<1>3. HeadersLead' /\ HistoryTypeOK'
  BY <1>1, <1>2, HeadersLeadOn DEF DamageInv, HistoryTypeOK
<1>4. /\ header = InitialHeader /\ slots = [s \in Slot |-> NoHeader] /\ end = LOG_START
      /\ index = DefaultIndex
      /\ file[0] = header_encode(InitialHeader) /\ file[1] = Zero
  BY <1>1 DEF DamageInv, HandleUnused, HandleCreating, HandleStands, IsOpen
<1>5. CASE InitializeSyncError
  <2>1. pc' = "closed" /\ UNCHANGED handleVars
    BY <1>5 DEF InitializeSyncError
  <2> QED
    BY <1>2, <1>3, <1>4, <2>1, NoHandleStands DEF DamageInv, handleVars
<1>6. CASE InitializeSync
  <2>1. /\ pc' = "idle" /\ header' = InitialHeader /\ end' = LOG_START /\ live_slot' = 0
        /\ slots' = [slots EXCEPT ![0] = header]
    BY <1>4, <1>6 DEF InitializeSync
  <2>2. HeadersWithin(end)'
    <3> SUFFICES ASSUME NEW s \in Slot, NEW c \in disk'[s], c.tag = "header"
                 PROVE  c.header.log_end <= LOG_START
      BY <2>1 DEF HeadersWithin
    <3>1. file[s].tag = "header" /\ c.header.log_end <= file[s].header.log_end
      BY <1>2 DEF FileStands, CacheIsLongest
    <3>2. file[s] = header_encode(InitialHeader)
      BY <1>4, <3>1, ConstantTypes DEF Zero
    <3> QED
      BY <3>1, <3>2 DEF header_encode, InitialHeader
  <2>3. HandleStands'
    <3>1. file'[live_slot'] = header_encode(header')
      BY <1>2, <1>4, <2>1
    <3>2. slots'[live_slot'] = header'
      BY <1>4, <2>1, ConstantTypes
    <3>3. Valid(slots') \ {live_slot'} = {}
      BY <1>4, <2>1, ConstantTypes DEF Valid
    <3>4. DocsLead(file', index', inserted', end')
      BY <1>1, <1>4, DefaultLeads
    <3> QED BY <2>1, <2>2, <3>1, <3>2, <3>3, <3>4 DEF HandleStands, IsOpen
  <2>4. HandleUnused' /\ HandleCreating' /\ MasterStands'
    BY <2>1 DEF HandleUnused, HandleCreating, MasterStands, IsOpen
  <2> QED BY <1>2, <1>3, <2>3, <2>4 DEF DamageInv
<1> QED
  BY <1>5, <1>6

(* load preserves the invariant: the header it takes, whichever survived,  *)
(* leads to what was saved with it, and no other one lies beyond it.       *)
LEMMA LoadDamageStep ==
    ASSUME TypeOK, TypeOK', DamageInv, ~SyncErrorDropsWrites,
           OpenLoad, inserted' = saved[header'.master_ptr], UNCHANGED <<saved, acked>>
    PROVE  DamageInv'
<1> DEFINE s == select_live(decode_slots(file))
           h == LiveHeader(file)
<1>1. /\ FileTypeOK /\ FileTypeOK' /\ FileStands /\ file \in [Offset -> Cell]
      /\ Loadable(file) /\ UNCHANGED fileVars
      /\ pc' = "idle" /\ header' = h /\ live_slot' = s /\ end' = h.log_end
      /\ slots' = decode_slots(file) /\ file' = file
      /\ index' = load_index(file, h)
  BY DEF TypeOK, FileTypeOK, DamageInv, OpenLoad, LoadHandle, fileVars
<1>2. FileStands' /\ LogsSpared /\ \A e : HeadersWithin(e) => HeadersWithin(e)'
  BY <1>1, SyncStands
<1>3. /\ s \in Slot /\ h \in Header
      /\ file[s].tag = "header" /\ file[s].header = h
      /\ file[s] = header_encode(h)
      /\ \A t \in Slot : file[t].tag = "header" => file[t].header.generation <= h.generation
      /\ h.master_len = 0 \/ HasMaster(file, h.master_ptr)
  BY <1>1, LiveCell DEF Loadable
<1>4. \A x \in Slot : file[x] \in disk[x]
  BY <1>1, ConstantTypes DEF FileStands, SyncedIsCached
<1>5. slots'[live_slot'] = header'
  BY <1>1 DEF LiveHeader
<1> HIDE DEF s, h
<1>6. HeadersWithin(h.log_end)
  <2> SUFFICES ASSUME NEW t \in Slot, NEW c \in disk[t], c.tag = "header"
               PROVE  c.header.log_end <= h.log_end
    BY DEF HeadersWithin
  <2>1. file[t].tag = "header" /\ c.header.log_end <= file[t].header.log_end
    BY <1>1 DEF FileStands, CacheIsLongest
  <2>2. /\ c.header.log_end \in Int /\ h.log_end \in Int /\ file[t].header.log_end \in Int
        /\ file[t].header.generation \in Int /\ h.generation \in Int
    BY <1>1, <1>3, <1>4, <2>1, CandidateType, ConstantTypes DEF Header
  <2>3. CASE t = s
    BY <1>3, <2>1, <2>3
  <2>4. CASE t # s
    <3>1. file[t].header.generation <= h.generation
      BY <1>3, <2>1
    <3>2. \/ file[t].header.generation < h.generation
             /\ file[t].header.log_end <= h.log_end
          \/ h.generation < file[t].header.generation
      BY <1>1, <1>3, <1>4, <2>1, <2>4, ConstantTypes DEF FileStands, SlotsOrdered
    <3> QED
      BY <2>1, <2>2, <3>1, <3>2
  <2> QED BY <2>3, <2>4
<1>7. ASSUME NEW t \in Valid(slots') \ {live_slot'}
      PROVE  slots'[t].generation < header'.generation
  <2>1. t \in Slot /\ decode_slots(file)[t] # NoHeader /\ t # s
    BY <1>1, <1>7 DEF Valid
  <2>2. file[t].tag = "header" /\ decode_slots(file)[t] = file[t].header
    BY <2>1 DEF decode_slots, header_decode
  <2>3. file[t].header.generation <= h.generation
    BY <1>3, <2>1, <2>2
  <2>4. file[t].header.generation \in Nat /\ h.generation \in Nat
    BY <1>1, <1>3, <1>4, <2>1, <2>2, CandidateType DEF Header
  <2>5. \/ file[t].header.generation < h.generation
        \/ h.generation < file[t].header.generation
    BY <1>1, <1>3, <1>4, <2>1, <2>2, ConstantTypes DEF FileStands, SlotsOrdered
  <2> QED
    BY <1>1, <2>2, <2>3, <2>4, <2>5
<1>8. /\ h.master_ptr < h.log_end
      /\ h.master_len # 0 => MasterLeads(file, h.master_ptr, saved[h.master_ptr], h.log_end)
  BY <1>3, <1>4 DEF DamageInv, HeadersLead
<1>9. DocsLead(file, load_index(file, h), saved[h.master_ptr], h.log_end)
  <2>1. CASE h.master_len = 0
    BY <2>1, DefaultLeads DEF load_index
  <2>2. CASE h.master_len # 0
    <3>1. HasMaster(file, h.master_ptr)
      BY <1>3, <2>2
    <3>2. h.master_ptr \in Offset /\ file[h.master_ptr].tag = "frame"
      BY <1>1, <3>1, MasterShape
    <3>3. file[h.master_ptr] \notin {Zero, Torn}
      BY <3>2 DEF Zero, Torn
    <3>4. DocsLead(file, file[h.master_ptr].crc[1].index, saved[h.master_ptr], h.log_end)
      BY <1>8, <2>2, <3>3 DEF MasterLeads
    <3>5. read_record_at(file, h.master_ptr).payload = decode_frame(file[h.master_ptr]).crc
      BY <1>1, <3>1, RecordShape DEF HasMaster
    <3>6. load_index(file, h) = file[h.master_ptr].crc[1].index
      BY <2>2, <3>2, <3>5 DEF load_index, decode_frame
    <3> QED
      BY <3>4, <3>6
  <2> QED BY <2>1, <2>2
<1>10. HandleStands'
  <2>1. HeadersWithin(end)'
    BY <1>1, <1>2, <1>6 DEF HeadersWithin
  <2>2. file'[live_slot'] = header_encode(header')
    BY <1>1, <1>3
  <2>3. DocsLead(file', index', inserted', end')
    BY <1>1, <1>9
  <2>4. IsOpen'
    BY <1>1, OpenStates
  <2> QED
    BY <1>5, <1>7, <2>1, <2>2, <2>3, <2>4 DEF HandleStands
<1>11. HistoryTypeOK'
  <2>1. h.master_ptr \in Offset
    BY <1>3, <1>8, ConstantTypes DEF Header, Offset
  <2> QED
    BY <1>1, <2>1 DEF DamageInv, HistoryTypeOK
<1>12. HeadersLead'
  BY <1>1, <1>2, HeadersLeadOn DEF DamageInv
<1>13. HandleUnused' /\ HandleCreating' /\ MasterStands'
  BY <1>1 DEF HandleUnused, HandleCreating, MasterStands, IsOpen
<1> QED
  BY <1>2, <1>10, <1>11, <1>12, <1>13 DEF DamageInv

(* What an append from a standing handle leaves alone, and what it adds.   *)
LEMMA RecordStands ==
    ASSUME TypeOK, FileTypeOK', DamageInv, IsOpen,
           NEW kind \in RecordKind, NEW payload \in Seq(Word),
           append_raw(kind, payload) \/ append_raw_error(kind, payload)
    PROVE  /\ FileStands' /\ LogsSpared
           /\ \A s \in Slot : disk'[s] = disk[s] /\ file'[s] = file[s]
           /\ \A o \in LOG_START .. end - 1 : file'[o] = file[o]
           /\ \A s \in Slot : \A c \in disk'[s] :
                 c.tag = "header" => c.header.log_end <= end
           /\ append_raw(kind, payload) =>
                 /\ file'[end] = encode_frame(kind, payload)
                 /\ end \in LOG_START .. end' - 1
           /\ end <= end'
<1> DEFINE cells == record_cells(kind, payload)
<1>1. /\ cells \in Seq(Cell) /\ Len(cells) = 1 + Len(payload) /\ Len(payload) \in Nat
      /\ cells[1] = encode_frame(kind, payload)
  BY RecordCellsType DEF record_cells
<1>2. /\ end \in LOG_START .. FileCap /\ end \in Nat /\ FileStands /\ HeadersWithin(end)
  BY ConstantTypes DEF TypeOK, DamageInv, HandleStands
<1> HIDE DEF cells
<1>3. PICK k \in 0 .. Len(cells) :
        /\ WritePrefix(cells, k, end)
        /\ append_raw(kind, payload) => k = Len(cells)
  <2>1. CASE append_raw(kind, payload)
    BY <1>1, <2>1 DEF append_raw, WriteRecord, write_all_at, cells
  <2>2. CASE ~append_raw(kind, payload)
    BY <1>1, <2>2 DEF append_raw_error, WriteFault, WriteError, cells
  <2> QED BY <2>1, <2>2
<1>4. /\ FileStands' /\ LogsSpared
      /\ \A s \in Slot : disk'[s] = disk[s] /\ file'[s] = file[s]
      /\ \A o \in LOG_START .. end - 1 : file'[o] = file[o]
      /\ \A o \in Offset : o \in end .. end + k - 1 => file'[o] = cells[o - end + 1]
  BY <1>1, <1>2, <1>3, AppendStands
<1>5. \A s \in Slot : \A c \in disk'[s] : c.tag = "header" => c.header.log_end <= end
  BY <1>2, <1>4 DEF HeadersWithin
<1>6. ASSUME append_raw(kind, payload)
      PROVE  file'[end] = encode_frame(kind, payload) /\ end \in LOG_START .. end' - 1
  <2>1. end' = end + 1 + Len(payload) /\ end + Len(cells) <= FileCap
    BY <1>6, ConstantTypes DEF append_raw, WriteRecord, write_all_at, Fits, cells
  <2>2. end \in Offset /\ end \in end .. end + k - 1 /\ end - end + 1 = 1
    BY <1>1, <1>2, <1>3, <1>6, <2>1, ConstantTypes DEF Offset
  <2> QED
    BY <1>1, <1>2, <1>4, <2>1, <2>2, ConstantTypes
<1>7. end <= end'
  <2>1. CASE append_raw(kind, payload)
    BY <1>1, <1>2, <2>1, ConstantTypes DEF append_raw
  <2>2. CASE append_raw_error(kind, payload)
    BY <1>2, <2>2 DEF append_raw_error
  <2> QED BY <2>1, <2>2
<1> QED
  BY <1>4, <1>5, <1>6, <1>7

(* insert preserves the invariant: the new id leads to the new document. *)
LEMMA InsertDamageStep ==
    ASSUME TypeOK, TypeOK', DamageInv, NEW value \in Doc, insert(value)
    PROVE  DamageInv'
<1>1. /\ FileTypeOK /\ FileTypeOK' /\ pc = "idle" /\ pc' = "idle"
      /\ index \in MasterIndex /\ index.next_doc_id \in DocId
      /\ append_raw("Blob", doc_payload(value))
      /\ index' = InsertNew(index, end)
      /\ inserted' = [inserted EXCEPT ![index.next_doc_id] = value]
      /\ UNCHANGED <<header, slots, live_slot, saved, acked>>
      /\ inserted \in [DocId -> Doc \cup {Nothing}]
  <2>1. index \in MasterIndex /\ index.next_doc_id <= MaxDocId
    BY DEF TypeOK, insert, Append_
  <2>2. index.next_doc_id \in DocId
    BY <2>1, ConstantTypes DEF MasterIndex, DocId
  <2> QED
    BY <2>1, <2>2 DEF TypeOK, DamageInv, HistoryTypeOK, insert, Append_
<1>2. IsOpen /\ IsOpen' /\ "Blob" \in RecordKind /\ doc_payload(value) \in Seq(Word)
  BY <1>1, OpenStates, PayloadTypes DEF RecordKind
<1>3. /\ FileStands' /\ LogsSpared
      /\ \A s \in Slot : disk'[s] = disk[s] /\ file'[s] = file[s]
      /\ \A o \in LOG_START .. end - 1 : file'[o] = file[o]
      /\ \A s \in Slot : \A c \in disk'[s] : c.tag = "header" => c.header.log_end <= end
      /\ file'[end] = encode_frame("Blob", doc_payload(value))
      /\ end \in LOG_START .. end' - 1
      /\ end <= end'
  BY <1>1, <1>2, RecordStands
<1>4. HeadersLead'
  BY <1>1, <1>3, HeadersLeadOn DEF DamageInv
<1> DEFINE n == index.next_doc_id
<1>5. /\ end \in Int /\ end' \in Int
      /\ DocsLead(file, index, inserted, end)
      /\ file[live_slot] \in {header_encode(header), Zero, Torn}
      /\ slots[live_slot] = header
      /\ \A s \in Valid(slots) \ {live_slot} : slots[s].generation < header.generation
      /\ live_slot \in Slot
  BY <1>2, ConstantTypes DEF TypeOK, DamageInv, HandleStands
<1>6. DocsLead(file', index, inserted, end')
  BY <1>3, <1>5, DocsLeadOn
<1>7. DocsLead(file', index', inserted', end')
  <2>1. /\ index'.offsets = [index.offsets EXCEPT ![n] = end]
        /\ index.offsets \in [DocId -> Nat]
    BY <1>1 DEF InsertNew, MasterIndex
  <2> SUFFICES ASSUME NEW id \in Known(index')
               PROVE  /\ index'.offsets[id] \in LOG_START .. end' - 1
                      /\ inserted'[id] \in Doc
                      /\ Frames(file', index'.offsets[id], doc_payload(inserted'[id]))
    BY DEF DocsLead
  <2>2. id \in DocId
    BY DEF Known
  <2>3. CASE id = n
    <3>1. index'.offsets[id] = end /\ inserted'[id] = value
      BY <1>1, <2>1, <2>2, <2>3
    <3>2. Frames(file', end, doc_payload(value))
      BY <1>3 DEF Frames, encode_frame
    <3> QED
      BY <1>3, <3>1, <3>2
  <2>4. CASE id # n
    <3>1. index'.offsets[id] = index.offsets[id] /\ inserted'[id] = inserted[id]
      BY <1>1, <2>1, <2>2, <2>4
    <3>2. id \in Known(index)
      BY <2>2, <3>1 DEF Known
    <3> QED
      BY <1>6, <3>1, <3>2 DEF DocsLead
  <2> QED BY <2>3, <2>4
<1>8. HandleStands'
  <2>1. HeadersWithin(end)'
    <3> SUFFICES ASSUME NEW s \in Slot, NEW c \in disk'[s], c.tag = "header"
                 PROVE  c.header.log_end <= end'
      BY DEF HeadersWithin
    <3>1. c \in disk[s] /\ c.header.log_end <= end
      BY <1>3
    <3>2. c.header.log_end \in Int
      BY <1>1, <3>1, CandidateType, ConstantTypes
    <3>3. end <= end'
      BY <1>3
    <3> QED
      BY <1>5, <3>1, <3>2, <3>3
  <2>2. /\ file'[live_slot'] \in {header_encode(header'), Zero, Torn}
        /\ slots'[live_slot'] = header'
        /\ \A s \in Valid(slots') \ {live_slot'} : slots'[s].generation < header'.generation
    BY <1>1, <1>3, <1>5
  <2> QED
    BY <1>2, <1>7, <2>1, <2>2 DEF HandleStands
<1>9. HistoryTypeOK'
  BY <1>1 DEF DamageInv, HistoryTypeOK
<1>10. HandleUnused' /\ HandleCreating' /\ MasterStands'
  BY <1>1, <1>2 DEF HandleUnused, HandleCreating, MasterStands
<1> QED
  BY <1>3, <1>4, <1>8, <1>9, <1>10 DEF DamageInv

(* So do delete and the master index of a commit, and every write of the   *)
(* log that fails.                                                         *)
LEMMA RecordDamageStep ==
    ASSUME TypeOK, TypeOK', DamageInv, UNCHANGED history,
           \/ CommitAppendMaster \/ CommitMasterError
           \/ \E id \in DocId : Tombstone(id) \/ TombstoneError(id)
           \/ \E d \in Doc : AppendError("Blob", d)
    PROVE  DamageInv'
<1>1. PICK kind \in RecordKind, payload \in Seq(Word) :
         /\ append_raw(kind, payload) \/ append_raw_error(kind, payload)
         /\ UNCHANGED <<header, slots, live_slot>> /\ index'.offsets = index.offsets
         /\ \/ pc \in {"idle", "append_master"} /\ pc' = "idle"
            \/ /\ pc = "append_master" /\ pc' = "sync_master" /\ master_ptr' = end
               /\ append_raw(kind, payload) /\ index' = index
               /\ kind = "MasterIndex" /\ payload = index_encode(index)
  <2>1. /\ "Tombstone" \in RecordKind /\ "MasterIndex" \in RecordKind
        /\ "Blob" \in RecordKind /\ index \in MasterIndex
    BY DEF RecordKind, TypeOK
  <2>2. CASE CommitAppendMaster
    BY <2>1, <2>2, PayloadTypes DEF CommitAppendMaster
  <2>3. CASE CommitMasterError
    BY <2>1, <2>3, PayloadTypes DEF CommitMasterError
  <2>4. ASSUME NEW id \in DocId, Tombstone(id) \/ TombstoneError(id)
        PROVE  /\ \/ append_raw("Tombstone", tombstone_payload(id))
                  \/ append_raw_error("Tombstone", tombstone_payload(id))
               /\ UNCHANGED <<header, slots, live_slot>> /\ index'.offsets = index.offsets
               /\ pc = "idle" /\ pc' = "idle"
    <3>1. CASE Tombstone(id)
      <4>1. index' = [index EXCEPT !.dead = @ \cup {id}]
        BY <3>1 DEF Tombstone, Bury
      <4>2. index'.offsets = index.offsets
        BY <2>1, <4>1 DEF MasterIndex
      <4> QED
        BY <3>1, <4>2 DEF Tombstone, Bury
    <3>2. CASE TombstoneError(id)
      BY <3>2 DEF TombstoneError
    <3> QED BY <2>4, <3>1, <3>2
  <2>5. ASSUME NEW d \in Doc, AppendError("Blob", d)
        PROVE  /\ append_raw_error("Blob", doc_payload(d))
               /\ UNCHANGED <<header, slots, live_slot>> /\ index'.offsets = index.offsets
               /\ pc = "idle" /\ pc' = "idle"
    BY <2>5 DEF AppendError
  <2> QED
    BY <2>1, <2>2, <2>3, <2>4, <2>5, PayloadTypes
<1>2. /\ FileTypeOK /\ FileTypeOK' /\ HandleStands /\ live_slot \in Slot
      /\ UNCHANGED <<inserted, saved, acked>>
  BY DEF TypeOK, DamageInv, history
<1>3. IsOpen /\ IsOpen' /\ pc' # "init"
  BY <1>1, OpenStates
<1>4. /\ FileStands' /\ LogsSpared
      /\ \A s \in Slot : disk'[s] = disk[s] /\ file'[s] = file[s]
      /\ \A o \in LOG_START .. end - 1 : file'[o] = file[o]
      /\ \A s \in Slot : \A c \in disk'[s] : c.tag = "header" => c.header.log_end <= end
      /\ append_raw(kind, payload) =>
            /\ file'[end] = encode_frame(kind, payload)
            /\ end \in LOG_START .. end' - 1
      /\ end <= end'
  BY <1>1, <1>2, <1>3, RecordStands
<1>5. HeadersLead' /\ HistoryTypeOK'
  BY <1>2, <1>4, HeadersLeadOn DEF DamageInv, HistoryTypeOK
<1>6. HandleStands' /\ HandleUnused'
  <2>1. file'[live_slot] = file[live_slot]
    BY <1>2, <1>4
  <2> QED
    BY <1>1, <1>2, <1>3, <1>4, <2>1, HandleStandsOn
<1>7. MasterStands'
  BY <1>1, <1>4 DEF MasterStands, HeadersWithin
<1> QED
  BY <1>3, <1>4, <1>5, <1>6, <1>7 DEF DamageInv, HandleCreating

(* commit's syncs before its header is written, a failed sync, and the     *)
(* errors that write nothing preserve the invariant.                       *)
LEMMA SyncDamageStep ==
    ASSUME TypeOK, TypeOK', DamageInv, ~SyncErrorDropsWrites, UNCHANGED history,
           \/ CommitSyncRecords \/ CommitSyncMaster \/ CommitSyncError
           \/ CommitMasterTooLarge \/ CommitHeaderError
    PROVE  DamageInv'
<1>1. /\ FileTypeOK /\ FileTypeOK' /\ FileStands /\ HandleStands /\ IsOpen /\ IsOpen'
      /\ pc \notin {"closed", "init"} /\ pc' \notin {"init", "sync_header"}
      /\ UNCHANGED <<header, slots, live_slot, index, end, inserted, saved, acked>>
  BY OpenStates
  DEF TypeOK, DamageInv, CommitSyncRecords, CommitSyncMaster, CommitSyncError,
      CommitMasterTooLarge, CommitHeaderError, CommitReturns, handleVars, history
<1>2. /\ UNCHANGED fileVars \/ sync_data \/ SyncError
      /\ pc' \in {"sync_master", "write_header"} =>
            pc = "sync_master" /\ master_ptr' = master_ptr /\ unsynced' = {}
  <2>1. CASE \/ CommitSyncRecords \/ CommitSyncMaster \/ CommitSyncError
             \/ CommitMasterTooLarge
    BY <2>1 DEF CommitSyncRecords, CommitSyncMaster, CommitSyncError, CommitReturns,
                CommitMasterTooLarge, handleVars, sync_data
  <2>2. CASE CommitHeaderError
    <3> DEFINE N == header_encode(NextHeader)
               v == victim_slot(slots)
    <3>1. WriteError(<<N>>, v) /\ pc' = "idle"
      BY <2>2 DEF CommitHeaderError, WriteFault, CommitReturns
    <3>2. WritePrefix(<<N>>, 0, v)
      BY <3>1 DEF WriteError
    <3>3. v .. v + 0 - 1 = {}
      BY <1>1, VictimIsOther, ConstantTypes
    <3>4. UNCHANGED fileVars
      BY <1>1, <3>2, <3>3 DEF WritePrefix, fileVars, FileTypeOK
    <3> QED
      BY <3>1, <3>4
  <2> QED BY <2>1, <2>2
<1>3. /\ FileStands' /\ LogsSpared /\ file' = file
      /\ \A e : HeadersWithin(e) => HeadersWithin(e)'
  BY <1>1, <1>2, SyncStands
<1>4. HeadersLead' /\ HistoryTypeOK'
  BY <1>1, <1>3, HeadersLeadOn DEF DamageInv, HistoryTypeOK
<1>5. HandleStands' /\ HandleUnused'
  <2>1. HeadersWithin(end)
    BY <1>1 DEF HandleStands
  <2>2. \A s \in Slot : \A c \in disk'[s] : c.tag = "header" => c.header.log_end <= end
    BY <1>3, <2>1 DEF HeadersWithin
  <2>3. end <= end' /\ index'.offsets = index.offsets
    BY <1>1, ConstantTypes DEF TypeOK
  <2> QED
    BY <1>1, <1>3, <2>2, <2>3, HandleStandsOn
<1>6. MasterStands'
  <2>1. ASSUME pc' \in {"sync_master", "write_header"}
        PROVE  HeadersWithin(master_ptr)'
    BY <1>2, <1>3, <2>1 DEF DamageInv, MasterStands, HeadersWithin
  <2> QED
    BY <1>1, <1>2, <1>3, <2>1 DEF DamageInv, MasterStands
<1> QED
  BY <1>1, <1>3, <1>4, <1>5, <1>6 DEF DamageInv, HandleCreating

(* Writing the header preserves the invariant: it is the longest one, and  *)
(* leads to what the handle inserted.                                      *)
LEMMA WriteHeaderDamageStep ==
    ASSUME TypeOK, TypeOK', DamageInv, CommitWriteHeader,
           saved' = [saved EXCEPT ![master_ptr] = inserted],
           UNCHANGED <<inserted, acked>>
    PROVE  DamageInv'
<1> DEFINE v == victim_slot(slots)
           N == header_encode(NextHeader)
<1>1. /\ FileTypeOK /\ FileTypeOK' /\ FileStands /\ HandleStands
      /\ pc = "write_header" /\ pc' = "sync_header" /\ UNCHANGED handleVars
      /\ write_all_at(<<N>>, v)
      /\ header \in Header /\ index \in MasterIndex
      /\ end \in LOG_START .. FileCap /\ end \in Int
  BY ConstantTypes DEF TypeOK, DamageInv, CommitWriteHeader
<1>2. /\ IsOpen /\ IsOpen' /\ v \in Slot /\ v # live_slot /\ live_slot \in Slot
      /\ \A s \in Slot : s = v \/ s = live_slot
      /\ Slot \subseteq Offset
  BY <1>1, OpenStates, VictimIsOther, ConstantTypes
<1>3. /\ NextHeader \in Header /\ <<N>> \in Seq(Cell)
      /\ NextHeader.generation = header.generation + 1
      /\ NextHeader.log_end = end /\ NextHeader.master_ptr = master_ptr
      /\ N.tag = "header" /\ N.header = NextHeader
  BY NextHeaderType DEF NextHeader, header_encode
<1>4. /\ unsynced = {} /\ \A o \in Offset : disk[o] = {file[o]}
      /\ master_ptr \in LOG_START .. end - 1
      /\ file[master_ptr] = encode_frame("MasterIndex", index_encode(index))
      /\ HeadersWithin(master_ptr)
  BY <1>1 DEF DamageInv, MasterStands, FileStands, SyncedIsCached
<1>5. /\ HeadersWithin(end) /\ DocsLead(file, index, inserted, end)
      /\ file[live_slot] \in {header_encode(header), Zero, Torn}
      /\ slots[live_slot] = header
      /\ \A s \in Valid(slots) \ {live_slot} : slots[s].generation < header.generation
  BY <1>1, <1>2 DEF HandleStands
<1>6. \A x \in Offset :
        /\ x # v => /\ file'[x] = file[x] /\ disk'[x] = disk[x]
                    /\ x \notin unsynced'
        /\ x = v => /\ file'[x] = N /\ disk'[x] = disk[x] \cup {N, Damaged(x)}
                    /\ x \in unsynced'
  <2>1. WritePrefix(<<N>>, 1, v) /\ v \in Nat /\ 1 \in 0 .. Len(<<N>>)
    BY <1>1, <1>2, ConstantTypes DEF write_all_at
  <2>2. \A x \in Offset :
          /\ x \notin v .. v + 1 - 1 =>
               /\ file'[x] = file[x] /\ disk'[x] = disk[x]
               /\ x \in unsynced' <=> x \in unsynced
          /\ x \in v .. v + 1 - 1 =>
               /\ file'[x] = <<N>>[x - v + 1]
               /\ disk'[x] = disk[x] \cup {<<N>>[x - v + 1], Damaged(x)}
               /\ x \in unsynced'
    BY <1>1, <1>3, <2>1, WriteEffect
  <2>3. \A x \in Offset : x \in v .. v + 1 - 1 <=> x = v
    BY <2>1 DEF Offset
  <2>4. <<N>>[v - v + 1] = N
    BY <2>1
  <2> QED
    BY <1>4, <2>2, <2>3, <2>4
<1>7. Damaged(v).tag # "header"
  BY DEF Damaged, Zero, Torn
<1>8. \A e \in LOG_START .. FileCap : \A o \in LOG_START .. e - 1 :
         file'[o] = file[o] /\ o \notin unsynced'
  <2> SUFFICES ASSUME NEW e \in LOG_START .. FileCap, NEW o \in LOG_START .. e - 1
               PROVE  o \in Offset /\ o # v
    BY <1>6
  <2> QED
    BY <1>2, ConstantTypes DEF Offset
<1>8a. /\ \A x \in Slot : x # v => disk'[x] = disk[x]
      /\ disk'[v] = disk[v] \cup {N, Damaged(v)}
  <2>1. \A x \in Slot : x \in Offset
    BY <1>2
  <2>2. \A x \in Offset :
          /\ x # v => disk'[x] = disk[x]
          /\ x = v => disk'[x] = disk[x] \cup {N, Damaged(x)}
    BY <1>6
  <2> HIDE DEF v, N
  <2>3. v \in Slot
    BY <1>2
  <2> QED
    BY <2>1, <2>2, <2>3
<1> HIDE DEF v, N
<1>9. \A s \in Slot : \A c \in disk'[s] : c.tag = "header" =>
         c \in disk[s] \/ (s = v /\ c = N)
  <2> SUFFICES ASSUME NEW s \in Slot, NEW c \in disk'[s], c.tag = "header"
               PROVE  c \in disk[s] \/ (s = v /\ c = N)
    OBVIOUS
  <2>1. CASE s # v
    BY <1>8a, <2>1
  <2>2. CASE s = v
    <3>1. c \in disk[v] \cup {N, Damaged(v)}
      BY <1>8a, <2>2
    <3> QED
      BY <1>7, <2>2, <3>1
  <2> QED BY <2>1, <2>2
<1>10. \A s \in Slot : \A c \in disk'[s] : c.tag = "header" => c.header.log_end <= end
  BY <1>1, <1>3, <1>5, <1>9 DEF HeadersWithin
<1>11. HandleStands' /\ HandleUnused'
  <2>1. end <= end' /\ index'.offsets = index.offsets
    BY <1>1 DEF handleVars
  <2>2. file'[live_slot] = file[live_slot]
    BY <1>2, <1>6
  <2>3. \A o \in LOG_START .. end - 1 : file'[o] = file[o]
    BY <1>1, <1>8
  <2> QED
    BY <1>1, <1>2, <1>10, <2>1, <2>2, <2>3, HandleStandsOn DEF handleVars
<1>12. SyncedIsCached'
  BY <1>4, <1>6 DEF SyncedIsCached
<1>13. SlotsOrdered'
  <2>1. ASSUME NEW c \in disk'[v], NEW d \in disk'[live_slot],
               c.tag = "header", d.tag = "header"
        PROVE  \/ /\ c.header.generation < d.header.generation
                  /\ c.header.log_end <= d.header.log_end
               \/ /\ d.header.generation < c.header.generation
                  /\ d.header.log_end <= c.header.log_end
    <3>1. d \in disk[live_slot] /\ d = file[live_slot]
      BY <1>2, <1>4, <1>6, <2>1
    <3>2. CASE c = N
      <4>1. d.header = header
        BY <1>5, <2>1, <3>1 DEF header_encode, Zero, Torn
      <4>2. d.header.log_end <= end
        BY <1>2, <1>5, <2>1, <3>1 DEF HeadersWithin
      <4>3. header.generation < NextHeader.generation
        BY <1>1, <1>3 DEF Header
      <4> QED
        BY <1>3, <3>2, <4>1, <4>2, <4>3
    <3>3. CASE c \in disk[v]
      BY <1>1, <1>2, <2>1, <3>1, <3>3, ConstantTypes DEF FileStands, SlotsOrdered
    <3> QED
      BY <1>2, <1>9, <2>1, <3>2, <3>3
  <2> QED
    BY <1>2, <2>1, ConstantTypes DEF SlotsOrdered
<1>14. CacheIsLongest'
  <2> SUFFICES ASSUME NEW s \in Slot, NEW c \in disk'[s], c.tag = "header"
               PROVE  file'[s].tag = "header" /\ c.header.log_end <= file'[s].header.log_end
    BY DEF CacheIsLongest
  <2>1. CASE s = v
    BY <1>2, <1>3, <1>6, <1>10, <2>1
  <2>2. CASE s # v
    <3>1. c \in disk[s] /\ file'[s] = file[s]
      BY <1>2, <1>6, <2>2
    <3> QED
      BY <1>1, <3>1 DEF FileStands, CacheIsLongest
  <2> QED BY <2>1, <2>2
<1>15. NewIsEmpty'
  <2>1. N # Eof
    BY <1>3 DEF Eof
  <2>2. file[live_slot] # Eof
    BY <1>5 DEF header_encode, Zero, Torn, Eof
  <2>3. \A s \in Slot : file'[s] # Eof
    BY <1>2, <1>6, <2>1, <2>2
  <2> QED
    BY <2>3, ConstantTypes DEF NewIsEmpty
<1>16. /\ HistoryTypeOK' /\ saved'[master_ptr] = inserted
       /\ \A o \in Offset : o # master_ptr => saved'[o] = saved[o]
  <2>1. master_ptr \in Offset
    BY <1>1, <1>4, ConstantTypes DEF Offset
  <2> QED
    BY <2>1 DEF DamageInv, HistoryTypeOK
<1>17. HeadersLead'
  <2> SUFFICES ASSUME NEW s \in Slot, NEW c \in disk'[s], c.tag = "header"
               PROVE  LET h == c.header
                      IN /\ h.master_ptr < h.log_end
                         /\ \A o \in LOG_START .. h.log_end - 1 : o \notin unsynced'
                         /\ h.master_len # 0 =>
                               /\ LOG_START <= h.master_ptr
                               /\ MasterLeads(file', h.master_ptr, saved'[h.master_ptr],
                                              h.log_end)
    BY DEF HeadersLead
  <2>1. CASE c = N
    <3>1. /\ file'[master_ptr].tag = "frame"
          /\ file'[master_ptr].crc = index_encode(index)
      BY <1>1, <1>4, <1>8 DEF encode_frame
    <3>2. IsEncodedIndex(index_encode(index)) /\ index_encode(index)[1].index = index
      BY <1>1, IndexEncoded
    <3>3. DocsLead(file', index, inserted, end)
      <4>1. \A o \in LOG_START .. end - 1 : file'[o] = file[o]
        BY <1>1, <1>8
      <4>2. end <= end
        BY <1>1
      <4> QED
        BY <1>1, <1>5, <4>1, <4>2, DocsLeadOn
    <3>4. MasterLeads(file', master_ptr, inserted, end)
      BY <3>1, <3>2, <3>3 DEF MasterLeads
    <3>5. master_ptr < end /\ LOG_START <= master_ptr
      BY <1>1, <1>4, ConstantTypes
    <3> QED
      BY <1>1, <1>3, <1>8, <1>16, <2>1, <3>4, <3>5
  <2>2. CASE c \in disk[s]
    <3> DEFINE h == c.header
    <3>1. h \in Header /\ h.log_end \in LOG_START .. FileCap /\ h.log_end <= master_ptr
      BY <1>1, <1>4, <2>2, CandidateType DEF HeadersWithin
    <3>2. /\ h.master_ptr < h.log_end
          /\ h.master_len # 0 =>
                /\ LOG_START <= h.master_ptr
                /\ MasterLeads(file, h.master_ptr, saved[h.master_ptr], h.log_end)
      BY <2>2 DEF DamageInv, HeadersLead
    <3> HIDE DEF h
    <3>3. h.master_ptr \in Offset /\ h.master_ptr # master_ptr /\ h.master_ptr \in Int
          /\ h.log_end \in Int
      BY <1>4, <3>1, <3>2, ConstantTypes DEF Header, Offset
    <3>4. saved'[h.master_ptr] = saved[h.master_ptr]
      BY <1>16, <3>3
    <3>5. \A o \in LOG_START .. h.log_end - 1 : file'[o] = file[o] /\ o \notin unsynced'
      BY <1>8, <3>1
    <3>6. ASSUME h.master_len # 0
          PROVE  MasterLeads(file', h.master_ptr, saved[h.master_ptr], h.log_end)
      <4>1. h.master_ptr \in LOG_START .. h.log_end - 1
        BY <3>2, <3>3, <3>6, ConstantTypes
      <4> QED
        BY <3>2, <3>3, <3>5, <3>6, <4>1, MasterLeadsOn
    <3> QED
      BY <3>2, <3>4, <3>5, <3>6 DEF h
  <2> QED
    BY <1>9, <2>1, <2>2
<1>18. MasterStands'
  <2>1. file'[v] = N /\ victim_slot(slots)' = v /\ header_encode(NextHeader)' = N
    BY <1>1, <1>2, <1>6 DEF v, N, handleVars, NextHeader
  <2> QED
    BY <1>1, <2>1 DEF MasterStands
<1>19. HandleCreating'
  BY <1>1 DEF HandleCreating
<1> QED
  BY <1>11, <1>12, <1>13, <1>14, <1>15, <1>16, <1>17, <1>18, <1>19
  DEF DamageInv, FileStands

(* A commit that returns Ok preserves the invariant. *)
LEMMA SyncHeaderDamageStep ==
    ASSUME TypeOK, TypeOK', DamageInv, ~SyncErrorDropsWrites, CommitSyncHeader,
           acked' = acked \cup Known(index), UNCHANGED <<inserted, saved>>
    PROVE  DamageInv'
<1> DEFINE v == victim_slot(slots)
<1>1. /\ FileTypeOK /\ FileTypeOK' /\ FileStands /\ HandleStands
      /\ pc = "sync_header" /\ pc' = "idle" /\ sync_data
      /\ end' = end /\ index' = index /\ header' = NextHeader /\ live_slot' = v
      /\ slots' = [slots EXCEPT ![v] = NextHeader]
      /\ slots \in [Slot -> Header \cup {NoHeader}] /\ header \in Header
      /\ NextHeader.generation = header.generation + 1
  BY DEF TypeOK, DamageInv, CommitSyncHeader, InstallHeader, CommitReturns, NextHeader
<1>2. /\ FileStands' /\ LogsSpared /\ file' = file
      /\ \A e : HeadersWithin(e) => HeadersWithin(e)'
  BY <1>1, SyncStands
<1>3. /\ IsOpen /\ IsOpen' /\ v \in Slot /\ v # live_slot /\ live_slot \in Slot
      /\ \A s \in Slot : s = v \/ s = live_slot
  BY <1>1, OpenStates, VictimIsOther
<1>4. /\ slots[live_slot] = header /\ HeadersWithin(end)
      /\ DocsLead(file, index, inserted, end)
  BY <1>3 DEF DamageInv, HandleStands
<1>5. file'[live_slot'] = header_encode(header') /\ slots'[live_slot'] = header'
  BY <1>1, <1>2, <1>3 DEF DamageInv, MasterStands
<1>6. ASSUME NEW t \in Valid(slots') \ {live_slot'}
      PROVE  slots'[t].generation < header'.generation
  <2>1. t = live_slot
    BY <1>1, <1>3, <1>6 DEF Valid
  <2>2. slots'[t] = header
    BY <1>1, <1>3, <1>4, <2>1
  <2> QED
    BY <1>1, <2>2 DEF Header
<1>7. HandleStands'
  <2>1. HeadersWithin(end)'
    BY <1>1, <1>2, <1>4 DEF HeadersWithin
  <2>2. DocsLead(file', index', inserted', end')
    BY <1>1, <1>2, <1>4
  <2> QED
    BY <1>3, <1>5, <1>6, <2>1, <2>2 DEF HandleStands
<1>8. HeadersLead'
  BY <1>1, <1>2, HeadersLeadOn DEF DamageInv
<1>9. HistoryTypeOK'
  BY DEF DamageInv, HistoryTypeOK, Known
<1>10. HandleUnused' /\ HandleCreating' /\ MasterStands'
  BY <1>1, <1>3 DEF HandleUnused, HandleCreating, MasterStands
<1> QED
  BY <1>2, <1>7, <1>8, <1>9, <1>10 DEF DamageInv

(* Losing the handle or the power preserves the invariant. *)
LEMMA CloseDamageStep ==
    ASSUME TypeOK, TypeOK', DamageInv, ~SyncErrorDropsWrites, Closes
    PROVE  DamageInv'
<1>1. /\ FileTypeOK /\ FileTypeOK' /\ FileStands /\ HeadersLead
      /\ UNCHANGED fileVars \/ PowerCut
      /\ pc' = "closed" /\ index' = DefaultIndex
      /\ header' = InitialHeader /\ slots' = [s \in Slot |-> NoHeader] /\ end' = LOG_START
      /\ inserted' = [id \in DocId |-> Nothing] /\ UNCHANGED <<saved, acked>>
  BY DEF TypeOK, DamageInv, Closes, Drop, PowerLoss, NoHandle
<1>2. FileStands' /\ LogsSpared
  BY <1>1, SyncStands, PowerCutStands
<1>3. HeadersLead'
  BY <1>1, <1>2, HeadersLeadOn
<1>4. HistoryTypeOK'
  BY <1>1 DEF DamageInv, HistoryTypeOK
<1> QED
  BY <1>1, <1>2, <1>3, <1>4, NoHandleStands DEF DamageInv

(* So does damage of a cell: what it leaves of a log leads nowhere else.   *)
LEMMA DamageDamageStep ==
    ASSUME TypeOK, TypeOK', DamageInv, Damage
    PROVE  DamageInv'
<1>1. /\ FileTypeOK /\ FileTypeOK' /\ FileStands /\ HeadersLead
      /\ pc \in {"closed", "idle"} /\ pc' = pc
      /\ UNCHANGED <<header, slots, live_slot, index, end, inserted, saved, acked>>
  BY DEF TypeOK, DamageInv, Damage, handleVars
<1>2. /\ FileStands' /\ LogsSpared
      /\ \A e : HeadersWithin(e) => HeadersWithin(e)'
      /\ \A o \in Offset : file'[o] = file[o] \/ file'[o] \in {Zero, Torn}
  BY <1>1, DamageStands
<1>3. HeadersLead' /\ HistoryTypeOK'
  BY <1>1, <1>2, HeadersLeadOn DEF DamageInv, HistoryTypeOK
<1>4. MasterStands' /\ HandleCreating'
  BY <1>1 DEF MasterStands, HandleCreating
<1>5. CASE pc = "closed"
  <2>1. ~IsOpen /\ ~IsOpen'
    BY <1>1, <1>5, OpenStates
  <2>2. HandleStands' /\ HandleUnused'
    BY <1>1, <2>1 DEF DamageInv, HandleStands, HandleUnused
  <2> QED
    BY <1>2, <1>3, <1>4, <2>2 DEF DamageInv
<1>6. CASE pc = "idle"
  <2>1. IsOpen /\ IsOpen'
    BY <1>1, <1>6, OpenStates
  <2>2. HandleStands /\ HeadersWithin(end)
    BY <2>1 DEF DamageInv, HandleStands
  <2>3. \A s \in Slot : \A c \in disk'[s] : c.tag = "header" => c.header.log_end <= end
    BY <1>2, <2>2 DEF HeadersWithin
  <2>4. /\ live_slot \in Offset /\ end \in LOG_START .. FileCap /\ end <= end'
        /\ index'.offsets = index.offsets
    BY <1>1, ConstantTypes DEF TypeOK
  <2>5. \A o \in LOG_START .. end - 1 : o \in Offset
    BY <2>4, ConstantTypes DEF Offset
  <2>6. HandleStands' /\ HandleUnused'
    BY <1>1, <1>2, <2>1, <2>2, <2>3, <2>4, <2>5, HandleStandsOn
  <2> QED
    BY <1>2, <1>3, <1>4, <2>6 DEF DamageInv
<1> QED
  BY <1>1, <1>5, <1>6

(* Nothing happens. *)
LEMMA StutterDamageStep ==
    ASSUME DamageInv, UNCHANGED vars, UNCHANGED history
    PROVE  DamageInv'
  BY DEF vars, fileVars, handleVars, history, DamageInv, HistoryTypeOK, FileStands,
         SyncedIsCached, SlotsOrdered, CacheIsLongest, NewIsEmpty, HeadersLead, HandleUnused,
         HandleCreating, HandleStands, MasterStands, HeadersWithin, IsOpen, NextHeader

(* Every step preserves the invariant. *)
LEMMA StepDamage ==
    ASSUME TypeOK, TypeOK', DamageInv, ~SyncErrorDropsWrites, ClientNext
    PROVE  DamageInv'
<1>1. CASE open
  BY <1>1, StutterDamageStep, CreateDamageStep, InitializeDamageStep, LoadDamageStep
  DEF open, OpenRejected
<1>2. CASE commit
  <2>1. CASE \/ CommitWriteHeader /\ saved' = [saved EXCEPT ![master_ptr] = inserted]
                /\ UNCHANGED <<inserted, acked, damages>>
             \/ CommitSyncHeader /\ acked' = acked \cup Known(index)
                /\ UNCHANGED <<inserted, saved, damages>>
    BY <2>1, WriteHeaderDamageStep, SyncHeaderDamageStep
  <2>2. CASE /\ \/ CommitClean \/ CommitSyncRecords \/ CommitAppendMaster
                \/ CommitSyncMaster \/ CommitMasterTooLarge \/ CommitMasterError
                \/ CommitHeaderError \/ CommitSyncError
             /\ UNCHANGED history
    BY <2>2, StutterDamageStep, RecordDamageStep, SyncDamageStep DEF CommitClean
  <2> QED
    BY <1>2, <2>1, <2>2 DEF commit
<1>3. CASE Closes \/ Damage
  BY <1>3, CloseDamageStep, DamageDamageStep
<1>4. CASE \E value \in Doc \cup Refused : insert(value) \/ insert_refused(value)
  <2>1. PICK value \in Doc \cup Refused : insert(value) \/ insert_refused(value)
    BY <1>4
  <2>2. CASE insert(value)
    BY <2>2, InsertDamageStep DEF insert, encodable
  <2>3. CASE insert_refused(value)
    BY <2>3, StutterDamageStep DEF insert_refused
  <2> QED BY <2>1, <2>2, <2>3
<1>5. CASE \E d \in Doc : (AppendError("Blob", d) \/ AppendTooLarge(d)) /\ UNCHANGED history
  BY <1>5, StutterDamageStep, RecordDamageStep DEF AppendTooLarge
<1>6. CASE \E id \in DocId : delete(id)
  BY <1>6, StutterDamageStep, RecordDamageStep DEF delete, TombstoneMissing
<1> QED
  BY <1>1, <1>2, <1>3, <1>4, <1>5, <1>6 DEF ClientNext

-----------------------------------------------------------------------------
(* The theorems. *)

(* Unless the kernel drops the pages of a failed sync, what can still be   *)
(* decoded of a file, however damaged, is what a handle wrote there for    *)
(* the documents it was given (record.rs verify_payload, engine.rs load).  *)
THEOREM DamageInvariant ==
    ASSUME ~SyncErrorDropsWrites
    PROVE  ClientSpec => []DamageInv
<1>1. ClientInit => DamageInv
  <2> SUFFICES ASSUME ClientInit
               PROVE  DamageInv
    OBVIOUS
  <2>1. /\ \A o \in Offset : disk[o] = {Eof} /\ file[o] = Eof
        /\ unsynced = {} /\ pc = "closed" /\ index = DefaultIndex
        /\ header = InitialHeader /\ slots = [s \in Slot |-> NoHeader] /\ end = LOG_START
    BY DEF ClientInit, Init, FileInit
  <2>2. \A s \in Slot : disk[s] = {Eof} /\ file[s] = Eof /\ Eof.tag # "header"
    BY <2>1, ConstantTypes DEF Eof
  <2>3. FileStands
    BY <2>1, <2>2, ConstantTypes
    DEF FileStands, SyncedIsCached, SlotsOrdered, CacheIsLongest, NewIsEmpty
  <2>4. HeadersLead
    BY <2>2 DEF HeadersLead
  <2>5. HandleUnused /\ HandleCreating /\ HandleStands /\ MasterStands
    BY <2>1 DEF HandleUnused, HandleCreating, HandleStands, MasterStands, IsOpen
  <2>6. HistoryTypeOK
    BY DEF ClientInit, HistoryTypeOK
  <2> QED
    BY <2>3, <2>4, <2>5, <2>6 DEF DamageInv
<1>2. TypeOK /\ TypeOK' /\ DamageInv /\ [ClientNext]_<<vars, history>> => DamageInv'
  BY StepDamage, StutterDamageStep
<1> QED
  BY <1>1, <1>2, ClientTypeCorrect, PTL DEF ClientSpec

(* However the medium damages the file, and whatever else fails, get       *)
(* returns the document inserted under the id, or an error (engine.rs      *)
(* read_record, codec.rs from_bson_bytes).                                 *)
THEOREM NoOtherDocument ==
    ASSUME ~SyncErrorDropsWrites
    PROVE  ClientSpec => []NeverAnotherDocument
<1>1. TypeOK /\ DamageInv => NeverAnotherDocument
  <2> SUFFICES ASSUME TypeOK, DamageInv, pc = "idle", NEW id \in DocId, get(id) \in Doc
               PROVE  get(id) = inserted[id]
    BY DEF NeverAnotherDocument
  <2> DEFINE o == index.offsets[id]
             r == read_record_at(file, o)
  <2>1. file \in [Offset -> Cell] /\ DocsLead(file, index, inserted, end)
    BY OpenStates DEF TypeOK, FileTypeOK, DamageInv, HandleStands
  <2>2. /\ id \notin index.dead /\ id \in Known(index)
        /\ r # Unreadable /\ r \notin {Deleted, NotFound}
        /\ get(id) = from_bson_bytes(r.payload)
    BY ResultAssumption DEF get, read_record
  <2>3. inserted[id] \in Doc /\ Frames(file, o, doc_payload(inserted[id]))
    BY <2>1, <2>2 DEF DocsLead
  <2>4. r.payload = decode_frame(file[o]).crc
    BY <2>1, <2>2, RecordShape
  <2>5. file[o].tag = "frame" /\ file[o].crc = doc_payload(inserted[id])
    <3>1. file[o] # Torn
      <4>1. decode_frame(file[o]) # Unreadable
        BY <2>2 DEF read_record_at
      <4>2. decode_frame(Torn) = Unreadable
        BY DEF decode_frame, Torn
      <4> QED
        BY <4>1, <4>2
    <3>2. ASSUME file[o] = Zero
          PROVE  FALSE
      <4>1. r.payload = <<>>
        BY <2>4, <3>2 DEF decode_frame, Zero
      <4>2. PICK d \in Doc : <<>> = doc_payload(d)
        BY <2>2, <4>1, ResultAssumption DEF from_bson_bytes
      <4>3. DocLen[d] \in Nat /\ DocLen[d] > 0
        BY FormatAssumption, ClientAssumption
      <4>4. 1 \in 1 .. DocLen[d] /\ 1 \notin DOMAIN doc_payload(d)
        BY <4>2, <4>3
      <4> QED
        BY <4>4 DEF doc_payload
    <3> QED
      BY <2>3, <3>1, <3>2 DEF Frames
  <2>6. r.payload = doc_payload(inserted[id])
    BY <2>4, <2>5 DEF decode_frame
  <2> QED
    BY <2>2, <2>3, <2>6, DocDecoded
<1> QED
  BY <1>1, ClientTypeCorrect, DamageInvariant, PTL
=============================================================================
