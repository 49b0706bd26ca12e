-------------------------- MODULE MCStorageEngine ---------------------------
(* StorageEngine on small instances. *)
EXTENDS EngineInvariant

CONSTANTS d1, d2

\* d1 is an empty payload, d2 one of one cell; any other document is too
\* large for a record.
MCDocLen == [d \in Doc |-> CASE d = d1 -> 0 [] d = d2 -> 1
                             [] OTHER -> MaxRecordLen + 1]
=============================================================================
