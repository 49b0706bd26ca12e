------------------------ MODULE SharedFileInvariant ------------------------
(***************************************************************************)
(* The inductive invariant behind readers that take no lock: why the       *)
(* header a process has read leads to the same documents for as long as    *)
(* that process stays open.                                                *)
(***************************************************************************)
EXTENDS SharedFile, LogInvariant

(* Where a process has read a header. *)
HasHeader(p) == pc[p] \notin {"closed", "initialize", "load"}

(* Where its master index is in the log and the handle does not know of a  *)
(* header that names it.                                                   *)
MasterAppended(p) == pc[p] \in {"write_header", "header_half_written", "sync_header"}

(* Slots that name a live header, ahead of the other one. *)
Ordered(slots) ==
    LET live == select_live(slots)
    IN /\ Valid(slots) # {}
       /\ \A s \in Valid(slots) \ {live} : slots[s].generation < slots[live].generation

LastHeader == attempts[Len(attempts)].header

-----------------------------------------------------------------------------
(* The file and the processes together. *)

(* No two write handles are open, and no other handle ever writes. *)
OneWriter ==
    /\ \A p, q \in Writers : pc[p] # "closed" /\ pc[q] # "closed" => p = q
    /\ \A p \in Proc \ Writers :
          /\ pc[p] \in {"closed", "load", "load_index", "idle"}
          /\ ~handle[p].dirty

(* Before its creation the file holds at most the first slot. *)
EmptyUntilCreated == attempts = <<>> => \A o \in Offset \ {0} : file[o] = Eof

(* Every header ever written leads to what it was to save, also when it is *)
(* no longer in the file; the last one has the longest log.                *)
AttemptsKept ==
    \A i \in DOMAIN attempts :
        LET h == attempts[i].header
        IN /\ HeaderWhole(file, h)
           /\ Snapshot(file, load_index(file, h)) = attempts[i].reads
           /\ h.log_end <= LastHeader.log_end

(* The last header written is the live one, but while its commit is being  *)
(* retried and the header that takes its slot is half written.             *)
LiveIsLast ==
    attempts # <<>> =>
        /\ \A s \in Slot : file[s] # Eof
        /\ Ordered(decode_slots(file))
        /\ (\A p \in Proc : pc[p] # "header_half_written") => LiveHeader(file) = LastHeader

-----------------------------------------------------------------------------
(* One process. *)

(* A handle that is not open has every field at its first value; only an   *)
(* empty file is about to be initialized.                                  *)
ClosedIsNew(p) ==
    /\ pc[p] \in {"closed", "initialize"} => handle[p] = NewHandle
    /\ pc[p] = "initialize" => attempts = <<>> /\ file[0] = Eof

(* A process about to read the headers finds them inside the file, and in  *)
(* the length it took the log of every header written before.              *)
LengthTaken(p) ==
    pc[p] = "load" =>
        /\ file[0] # Eof
        /\ attempts = <<>> <=> file_len[p] < LOG_START
        /\ \A i \in 1 .. seen[p] : attempts[i].header.log_end <= file_len[p]

(* The header a process has read was written by an attempt no older than   *)
(* the last that returned Ok before it opened.                             *)
HeaderIsAttempt(p) == HasHeader(p) => IsAttempt(handle[p].header, since[p])

(* A handle with nothing to commit holds what its header leads to. *)
CleanIsHeaders(p) ==
    pc[p] = "idle" /\ ~handle[p].dirty =>
        handle[p].index = load_index(file, handle[p].header)

(* The one write handle falls behind the file only in the slot that its    *)
(* commits go over: there the file may hold the header of a commit that    *)
(* failed, or one half written.                                            *)
BehindInOneSlot(p) ==
    LET h == handle[p]
        found == decode_slots(file)
        victim == victim_slot(h.slots)
    IN /\ \A s \in Slot \ {victim} : found[s] = h.slots[s]
       /\ CASE pc[p] = "load_index" -> found[victim] = h.slots[victim]
            [] pc[p] = "header_half_written" -> found[victim] = NoHeader
            [] pc[p] = "sync_header" ->
                  found[victim] = LastHeader /\ LastHeader = NextHeader(h)
            [] OTHER ->
                  \/ found[victim] = h.slots[victim]
                  \/ /\ found[victim] = LastHeader
                     /\ LastHeader.generation = h.header.generation + 1

(* Its own header is the newest it knows of, no older than the last commit *)
(* that returned Ok, and its log goes on behind every header written.      *)
WriterIsCurrent(p) ==
    LET h == handle[p]
    IN p \in Writers /\ HasHeader(p) =>
          /\ Ordered(h.slots)
          /\ h.slots[select_live(h.slots)] = h.header
          /\ IsAttempt(h.header, returned)
          /\ BehindInOneSlot(p)
          /\ pc[p] # "load_index" =>
                /\ LastHeader.log_end <= h.end
                /\ \A o \in LOG_START .. h.end - 1 : file[o] # Eof
                /\ IndexWithin(file, h.index, h.end)

(* The master index a commit has appended is the handle's, the last record *)
(* of its log.                                                             *)
MasterIsLast(p) ==
    LET h == handle[p]
        ptr == h.end - EncodedLen(h.index) - RECORD_HEADER_SIZE
    IN MasterAppended(p) =>
          /\ h.dirty
          /\ MasterWithin(file, ptr, h.end)
          /\ read_record_at(file, ptr).payload = index_encode(h.index)

ProcessInv(p) ==
    /\ ClosedIsNew(p)
    /\ LengthTaken(p)
    /\ HeaderIsAttempt(p)
    /\ CleanIsHeaders(p)
    /\ WriterIsCurrent(p)
    /\ MasterIsLast(p)

(* The inductive invariant of processes that coordinate: no write reaches  *)
(* a byte that a header ever written leads to, and a retried commit writes *)
(* over no header but the one its own failed attempt left (engine.rs open, *)
(* append_raw and commit).                                                 *)
SharedInv ==
    /\ OneWriter
    /\ EmptyUntilCreated
    /\ AttemptsKept
    /\ LiveIsLast
    /\ \A p \in Proc : ProcessInv(p)
=============================================================================
