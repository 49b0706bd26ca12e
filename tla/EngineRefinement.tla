-------------------------- MODULE EngineRefinement --------------------------
(***************************************************************************)
(* The storage engine implements DurableStore.  The abstract state is read *)
(* off the file, the medium and the handle; it needs no history.           *)
(***************************************************************************)
EXTENDS StorageEngine

CONSTANTS NoDatabase, Rejected

(* The states of a database that open accepts. *)
Database ==
    [docs : [DocId -> [kind : RecordKind, payload : Seq(Word)]
                         \cup {Unreadable, Deleted, NotFound}],
     next : Nat]

ASSUME RefinementAssumption ==
    NoDatabase # Rejected /\ NoDatabase \notin Database /\ Rejected \notin Database

(* What an append of a caller's document stores. *)
Document == {[kind |-> k, payload |-> doc_payload(d)] : k \in AppendKinds, d \in Doc}

(* What open makes of a file. *)
Recovered(f) ==
    IF f[0] = Eof THEN NoDatabase
    ELSE IF Loadable(f) THEN Snapshot(f, load_index(f, LiveHeader(f)))
    ELSE Rejected

LogEnds(medium) ==
    {LOG_START} \cup {c.header.log_end :
        c \in {c \in UNION {medium[s] : s \in Slot} : c.tag = "header"}}

(* What open may find after a power cut.  It reads nothing at or after the *)
(* log_end of the header it picks, so what the medium holds beyond the     *)
(* last of them makes no difference.                                       *)
Outcomes(medium) ==
    LET ends == LogEnds(medium)
        reach == CHOOSE n \in ends : \A m \in ends : m <= n
        kept == [o \in Offset |-> IF o < reach THEN medium[o] ELSE {Eof}]
    IN {Recovered(img) : img \in Images(kept)}

Abstract(open, f, medium, x, h) ==
    LET found == Recovered(f)
    IN [up |-> open,
        view |-> IF open THEN Snapshot(f, x) ELSE found,
        live |-> IF open THEN Snapshot(f, load_index(f, h)) ELSE found,
        base |-> found,
        outcomes |-> Outcomes(medium)]

(* abs holds the abstract state of every state, so that it is computed     *)
(* once; it adds no information and restricts no step.                     *)
VARIABLE abs

RefinementInit ==
    /\ Init
    /\ abs = Abstract(FALSE, file, disk, index, header)

RefinementNext ==
    /\ Next
    /\ abs' = Abstract(pc' \notin {"closed", "init"},
                       file', disk', index', header')

RefinementSpec == RefinementInit /\ [][RefinementNext]_<<vars, abs>>

Store == INSTANCE DurableStore WITH
            Id <- DocId, Absent <- NotFound,
            Content <- Document,
            up <- abs.up, view <- abs.view, live <- abs.live,
            base <- abs.base, outcomes <- abs.outcomes

(* Every behaviour of the engine, crashes and failed calls included, is a  *)
(* behaviour of DurableStore: reads return what was inserted, a commit     *)
(* that returns Ok is all that a power cut can leave, and no cut leaves a  *)
(* part of a commit (api.rs Cndb, engine.rs commit and load).              *)
ImplementsDurableStore == Store!Spec
=============================================================================
