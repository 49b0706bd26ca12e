---------------------------- MODULE MCSharedFile ----------------------------
(* SharedFile on small instances. *)
EXTENDS SharedFileInvariant

CONSTANT d1

\* Documents of two lengths.
MCDocLen == [d \in Doc |-> IF d = d1 THEN 1 ELSE 2]
=============================================================================
