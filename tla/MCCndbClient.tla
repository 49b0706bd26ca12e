---------------------------- MODULE MCCndbClient ----------------------------
(* CndbClient on small instances. *)
EXTENDS ClientInvariant

CONSTANTS d1, d2

\* d1 and d2 are one cell long; any other document is too large.
MCDocLen == [d \in Doc |-> IF d \in {d1, d2} THEN 1 ELSE MaxRecordLen + 1]
=============================================================================
