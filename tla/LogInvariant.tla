---------------------------- MODULE LogInvariant ----------------------------
(***************************************************************************)
(* What it means that a log is whole: the predicates that the invariants   *)
(* of the engine and of several processes on one file are stated with.     *)
(***************************************************************************)
EXTENDS CndbFormat

(* A record that can be read starts at p and ends before e. *)
RecordWithin(f, p, e) ==
    /\ p \in LOG_START .. e - 1
    /\ read_record_at(f, p) # Unreadable
    /\ p + decode_frame(f[p]).len < e

(* A master index starts at p and ends before e. *)
MasterWithin(f, p, e) == HasMaster(f, p) /\ RecordWithin(f, p, e)

(* The ids an index knows are those below the next one, each for a record  *)
(* of its own that can be read and ends before e.                          *)
IndexWithin(f, x, e) ==
    /\ x.dead \subseteq Known(x)
    /\ Known(x) = 1 .. x.next_doc_id - 1
    /\ \A a, b \in Known(x) : x.offsets[a] = x.offsets[b] => a = b
    /\ \A id \in Known(x) : RecordWithin(f, x.offsets[id], e)

(* A header leads to a master index and to documents that all lie within   *)
(* the log it describes.                                                   *)
HeaderWhole(f, h) ==
    /\ \A o \in LOG_START .. h.log_end - 1 : f[o] # Eof
    /\ h.master_len = 0 \/ MasterWithin(f, h.master_ptr, h.log_end)
    /\ IndexWithin(f, load_index(f, h), h.log_end)

(* verify's walk of the log below e succeeds and comes by every document   *)
(* of the index x.                                                         *)
Walks(f, x, e) ==
    /\ VerifyError \notin verify(f, e)
    /\ {x.offsets[id] : id \in Known(x)} \subseteq verify(f, e)

(* It does so for a header, and comes by the master index as well. *)
HeaderWalks(f, h) ==
    /\ Walks(f, load_index(f, h), h.log_end)
    /\ h.master_len # 0 => h.master_ptr \in verify(f, h.log_end)
=============================================================================
