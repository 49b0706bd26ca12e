------------------------------ MODULE CndbFile ------------------------------
(***************************************************************************)
(* One file as the engine's positioned I/O sees it: a page cache over a    *)
(* medium that only a successful sync makes agree with the cache.          *)
(*                                                                         *)
(* file is what reads return.  disk[o] is the set of contents the medium   *)
(* may hold at o: after a sync exactly the cached cell, after unsynced     *)
(* writes also each cell written since, a torn one, and a hole where the   *)
(* file was extended.  A power cut picks one content for every offset, so  *)
(* any subset of the unsynced writes may survive, in any order.            *)
(***************************************************************************)
EXTENDS CndbFormat

CONSTANT SyncErrorDropsWrites \* a failed sync leaves its pages marked clean

ASSUME SyncAssumption == SyncErrorDropsWrites \in BOOLEAN

VARIABLES file,     \* the page cache: [Offset -> Cell]
          disk,     \* what the medium may hold: [Offset -> SUBSET Cell]
          unsynced  \* offsets of the dirty pages

fileVars == <<file, disk, unsynced>>

FileTypeOK ==
    /\ file \in [Offset -> Cell]
    /\ disk \in [Offset -> SUBSET Cell]
    /\ unsynced \subseteq Offset

FileInit ==
    /\ file = [o \in Offset |-> Eof]
    /\ disk = [o \in Offset |-> {Eof}]
    /\ unsynced = {}

Fits(cells, o) == o + Len(cells) <= FileCap

(* What a cell may hold when a write of it is cut short: new space that    *)
(* was not filled is a hole, an old cell is left half overwritten.         *)
Damaged(x) == IF file[x] = Eof THEN Zero ELSE Torn

(* The first k cells of a write at offset o reach the page cache. *)
WritePrefix(cells, k, o) ==
    LET span == o .. o + k - 1
    IN /\ file' = [x \in Offset |->
                     IF x \in span THEN cells[x - o + 1] ELSE file[x]]
       /\ disk' = [x \in Offset |->
                     IF x \in span
                     THEN disk[x] \cup {cells[x - o + 1], Damaged(x)}
                     ELSE disk[x]]
       /\ unsynced' = unsynced \cup span

write_all_at(cells, o) ==
    /\ Fits(cells, o)
    /\ WritePrefix(cells, Len(cells), o)

(* A write error (device full, I/O error) after a proper prefix. *)
WriteError(cells, o) ==
    \E k \in 0 .. Len(cells) - 1 :
        /\ o + k <= FileCap
        /\ WritePrefix(cells, k, o)

(* sync_data and sync_all: every dirty page, and the length, is durable. *)
sync_data ==
    /\ disk' = [o \in Offset |-> IF o \in unsynced THEN {file[o]} ELSE disk[o]]
    /\ unsynced' = {}
    /\ UNCHANGED file

(* A sync that reports an error has written any part of the dirty pages.   *)
(* Some kernels then mark the pages clean, so that a later sync succeeds   *)
(* without writing them.                                                   *)
SyncError ==
    /\ unsynced' = IF SyncErrorDropsWrites THEN {} ELSE unsynced
    /\ UNCHANGED <<file, disk>>

(* The files a power cut may leave when the medium may hold medium[o] at  *)
(* o: one of those contents per offset, with nothing but end-of-file after *)
(* the end of the file.                                                    *)
IsImage(img, medium) ==
    /\ \A o \in Offset : img[o] \in medium[o]
    /\ \A o \in Offset \ {0} : img[o - 1] = Eof => img[o] = Eof

Images(medium) ==
    LET pick[n \in 0 .. FileCap] ==
          IF n = 0 THEN {<<>>}
          ELSE UNION {{Append(p, c) : c \in {c \in medium[n - 1] :
                          n > 1 => (p[n - 1] = Eof => c = Eof)}} :
                      p \in pick[n - 1]}
    IN {img \in {[o \in Offset |-> p[o + 1]] : p \in pick[FileCap]} :
          IsImage(img, medium)}

PowerCut ==
    \E img \in Images(disk) :
        /\ file' = img
        /\ disk' = [o \in Offset |-> {img[o]}]
        /\ unsynced' = {}
=============================================================================
