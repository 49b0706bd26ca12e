---------------------------- MODULE DurableStore ----------------------------
(***************************************************************************)
(* What an open Cndb handle promises its caller (src/api.rs), with no file *)
(* and no log: a set of documents, of which a commit makes all or nothing  *)
(* durable.                                                                *)
(*                                                                         *)
(* A database state is a record of the documents by id and the next id, or *)
(* one of NoDatabase (an empty file) and Rejected (a file open refuses).   *)
(*                                                                         *)
(* Two weaknesses of the promise are deliberate, because the code has      *)
(* them.  A power cut while a database is being created may leave it       *)
(* Rejected.  And a commit that fails leaves it open whether its documents *)
(* are durable; retrying it may even fall back to the state before.        *)
(***************************************************************************)
EXTENDS Naturals

CONSTANTS Id,          \* document ids, an initial segment of the positive numbers
          Content,     \* what a document may be
          Absent, Deleted, NoDatabase, Rejected

VARIABLES up,       \* a handle is open
          view,     \* what the open handle reads
          live,     \* what the handle found when opened, or last committed
          base,     \* what open would find now
          outcomes  \* what open may find after a power cut

vars == <<up, view, live, base, outcomes>>

Empty == [docs |-> [id \in Id |-> Absent], next |-> 1]

Init ==
    /\ up = FALSE
    /\ view = NoDatabase /\ live = NoDatabase /\ base = NoDatabase
    /\ outcomes = {NoDatabase}

Closed == ~up' /\ view' = base' /\ live' = base'

Durable == outcomes' = {base'}

(* Nobody has a handle yet: the file is being laid down, or that failed. *)
Create ==
    /\ ~up /\ base = NoDatabase
    /\ base' \in {NoDatabase, Rejected, Empty}
    /\ outcomes' \subseteq {NoDatabase, Rejected, Empty}
    /\ Closed

Open ==
    /\ ~up /\ base \notin {NoDatabase, Rejected}
    /\ up'
    /\ view' = base /\ live' = base /\ UNCHANGED base
    /\ UNCHANGED outcomes \/ Durable

Put ==
    /\ up /\ up' /\ view.next \in Id
    /\ \E c \in Content :
          view' = [docs |-> [view.docs EXCEPT ![view.next] = c],
                   next |-> view.next + 1]
    /\ UNCHANGED <<live, base, outcomes>>

Delete ==
    /\ up /\ up'
    /\ \E id \in Id :
          /\ view.docs[id] \notin {Absent, Deleted}
          /\ view' = [view EXCEPT !.docs[id] = Deleted]
    /\ UNCHANGED <<live, base, outcomes>>

(* A commit under way: from some moment on a handle opened later finds     *)
(* what this one reads, and a power cut leaves that, what the handle last  *)
(* committed, or what an earlier attempt left.                             *)
CommitAttempt ==
    /\ up /\ up'
    /\ base' = view
    /\ view \in outcomes' /\ live \in outcomes'
    /\ outcomes' \subseteq outcomes \cup {view, live}
    /\ UNCHANGED <<view, live>>

(* What open would find becomes durable. *)
Settle ==
    /\ Durable
    /\ UNCHANGED <<up, view, live, base>>

(* commit returns Ok: what the handle reads is all a power cut can leave. *)
CommitOk ==
    /\ up /\ up'
    /\ base' = view /\ Durable
    /\ live' = view
    /\ UNCHANGED view

(* The handle is dropped, or its process killed. *)
Stop ==
    /\ up
    /\ UNCHANGED <<base, outcomes>>
    /\ Closed

PowerLoss ==
    /\ base' \in outcomes
    /\ Durable
    /\ Closed

Next ==
    \/ Create \/ Open \/ Put \/ Delete \/ CommitAttempt \/ Settle
    \/ CommitOk \/ Stop \/ PowerLoss

Spec == Init /\ [][Next]_vars
=============================================================================
