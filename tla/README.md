# A formal model of cndb

TLA+ specifications of the cndb storage engine, checked with TLC on small
instances. Their safety properties, and that the engine implements an abstract
store, are proved with TLAPS for all parameter values. Paths are those of the
repository, below `src/`.

## The system

cndb is an embedded document store: one append-only `.cndb` file, one handle,
no server, no background thread and no lock on the file. At this commit the code
is the storage engine and a thin handle over it; the graph, extraction and query engines and
compaction exist only in `docs/ARCHITECTURE.md`.

| Component | State | Operations | Correct when |
|---|---|---|---|
| Header slots (`storage/header.rs`) | two 64-byte slots, each a generation with `master_ptr`, `master_len`, `log_end` | `decode`, `select_live`, `victim_slot` | a torn slot is rejected; the newest valid one is found; a commit never overwrites what it may have to fall back to |
| Record framing (`storage/record.rs`) | none | `encode_frame`, `decode_frame`, `verify_payload` | a record that is not whole is never returned |
| Master index (`storage/index.rs`) | offsets by id, dead ids, next id | `allocate_id`, `insert`, `encode`, `decode`, counts | ids are dense, offsets distinct, only known ids dead |
| Storage engine (`storage/engine.rs`) | the file, `header`, `slots`, `live_slot`, `index`, `end`, `dirty` | `open` (`initialize` or `load`), `append`, `tombstone`, `read_record`, `commit`, `verify` | a commit is all or nothing and durable once it returns Ok, whatever crashes or fails |
| Positioned I/O (`storage/pos_io.rs`) and the file below it | page cache and medium (the operating system's) | `write_all_at`, `read_exact_at`, sync | - |
| Public handle (`api.rs`) | one engine | `open`, `insert`, `get`, `delete`, `commit`, `verify`, `len` | it behaves as a transactional map from ids to documents |
| Document codec (`document/codec.rs`) | none | BSON to and from JSON | what it cannot store it refuses before anything is written; only a whole encoding decodes |
| Several processes on one file (`storage/engine.rs`, no lock) | one handle each | the engine's | a commit survives what the others do; a reader keeps the snapshot it opened |
| Errors (`error.rs`) | none | - | `get` tells a deleted document from an unknown and an unreadable one |

**Interaction.** `Cndb` forwards each call to its `StorageEngine`. The engine
appends framed records at `end`, keeps the index in memory, and makes it durable
in `commit`: sync the records; append the index as a record; sync; write a
header with the next generation over the older slot (the commit point); sync.
`load` reads both slots, takes the newest valid one, and reads the index it
points at.

**What is hard.** The file has two layers, and only a sync makes them agree.
Power may fail or the process be killed between any two system calls; any call
may fail, after part of its work; the handle stays usable after a failed
`commit`, with an in-memory copy of the headers that may be behind the file;
and the tail of a failed or lost transaction is later overwritten by records of
other lengths. Nothing keeps a second process from opening the file, and `open`
reads its length, headers and index at three different times. And media may
damage what they hold. `PROJECT.json` lists these hazards with their lines.

## The modules

| Module | What it is |
|---|---|
| `CndbFormat` | The file format as operators on file contents: index, headers, frames, `select_live`, `victim_slot`, `read_record_at`, `read_record`, `load`'s acceptance test, `verify`. |
| `CndbFile` | The file: page cache, medium, writes of any prefix, syncs, power cuts. External apart from `write_all_at`. |
| `StorageEngine` | The engine as a state machine over `CndbFile`, and its properties. |
| `LogInvariant` | What it means that a log is whole: predicates on file contents that the invariants share. |
| `EngineInvariant` | The engine's inductive invariants `RecoveryInv`, `CommitInv` and `VerifyInv`. |
| `DurableStore` | Abstract specification: what a `Cndb` handle promises, with no file. |
| `EngineRefinement` | The mapping from engine states to `DurableStore` states. |
| `CndbClient` | The `Cndb` handle and the codec over the engine, with a history of what callers inserted and were told, and media that damage cells. |
| `ClientInvariant` | The inductive invariants of the handle and its history: `ClientInv` while nothing is damaged, `DamageInv` in any case. |
| `SharedFile` | Several processes with handles on one file, calls that fail among them, without crashes of the machine. |
| `SharedFileInvariant` | Its inductive invariant `SharedInv`. |
| `MCStorageEngine`, `MCEngineRefinement`, `MCCndbClient`, `MCSharedFile` | Instances for TLC. |
| `FormatProofs` | Lemmas on the operators of `CndbFormat` and `LogInvariant`. |
| `RecoveryProofs` | The engine's type invariant; `RecoveryInv`, and that a crash is recoverable. |
| `CommitProofs` | `CommitInv`, and what a returned commit is worth: durability, no rollback, header loss, the index. |
| `VerifyProofs` | `VerifyInv`, and what `verify` computes. |
| `RefinementProofs` | That the engine implements `DurableStore`, and what a power cut may leave. |
| `ClientProofs` | `ClientInv`, and what a caller reads of a file nothing damaged; that `verify` finds damage. |
| `DamageProofs` | `DamageInv`, and what a caller may still read of a damaged file. |
| `SharedFileProofs` | `SharedInv`, and what readers beside a writer get. |

Each builds on the one before: `CndbFormat` <- `CndbFile` <- `StorageEngine` <-
`EngineInvariant` / `EngineRefinement` (which instantiates `DurableStore`) /
`CndbClient`, and `ClientInvariant` on the last and `EngineInvariant`.
`SharedFile` builds on `CndbFormat` alone. The proof modules form a chain
`FormatProofs` <- `RecoveryProofs` <- `CommitProofs` <- `VerifyProofs`, on which
`RefinementProofs` and `ClientProofs` <- `DamageProofs` build; `SharedFileProofs`
needs only the first.

### Data

A file is a function from offsets to **cells**, the units a crash leaves whole
or torn: a header slot, a record frame, or a block of `CellBytes` payload bytes.
A checksum is the payload it was computed from, so CRC32 is assumed free of
collisions. A cell is a header, a frame, a word of a payload, `Zero` (a hole),
`Torn`, or `Eof`. `decode_frame` accepts `Zero` as an empty Node record, because
nine zero bytes are one. Documents are opaque and differ in identity and
length. The index is a total function on ids, with `NoOffset` for absence; the
length of its encoding is computed from its bincode layout.

### The file

`file` is what reads see. `disk[o]` is the *set* of contents the medium may hold
at `o`: a write adds the new cell and a damaged one, a sync leaves exactly the
cached cell. A power cut chooses one content per offset, independently, so any
subset of unsynced writes survives in any order, some of them torn. A failed
sync has written any part of the dirty pages; `SyncErrorDropsWrites` says
whether the kernel then forgets that they were dirty.

### The engine

`pc` is where the handle is. Between two system calls of `initialize` and
`commit` there is a `pc` of its own, because the process may be killed or the
power fail there; the other calls are one action, since all they do after their
writes is update the handle.

| Code | Actions |
|---|---|
| `open`, file empty: `initialize` | `OpenCreate`, `OpenCreateError`, `InitializeSync`, `InitializeSyncError` |
| `open`, otherwise: `load` | `OpenLoad`, `OpenRejected` |
| `append` | `Append_`, `AppendError`, `AppendTooLarge` |
| `tombstone` | `Tombstone`, `TombstoneError`, `TombstoneMissing` |
| `commit` returns early | `CommitClean` |
| `commit` step 1 | `CommitSyncRecords` |
| `commit` step 2 | `CommitAppendMaster`, `CommitMasterTooLarge`, `CommitMasterError`, `CommitSyncMaster` |
| `commit` step 3 | `CommitWriteHeader`, `CommitHeaderError`, `CommitSyncHeader` |
| any sync of `commit` fails | `CommitSyncError` |
| handle dropped, process killed | `Drop` |
| power cut | `PowerLoss` |

A kill between `append_raw`'s two writes is an `AppendError` that wrote the frame
alone, followed by `Drop`. `read_record` and `verify` change nothing and are
operators. An error while `load` reads has the outcome of `OpenRejected`.

### The abstract store

`DurableStore` has five variables: whether a handle is open, what it reads, what
it found when opened or last committed, what `open` would find now, and the set
of what `open` may find after a power cut. `CommitOk` makes that set a
singleton, the handle's view; `CommitAttempt` lets it hold the old state and the
new one and nothing between. Two weaknesses are stated because the code has
them: a power cut during creation may leave a file `open` refuses, and retrying
a failed commit may fall back to the state before it.

### The handle

Every action of `CndbClient` is one or more actions of `StorageEngine`, named
after the call of `api.rs` it belongs to, together with what it adds to the
history: `inserted` (what the open handle stored under each id, or found there),
`saved` (the same at each commit, noted when its header is written and found
again by where its master index lies: two attempts at one commit share a
generation, and a power cut may bring back either),
and `acked` (ids a commit returned Ok for).
`get`, `len`, `is_empty` and `ids` are operators. The codec appears as what it
does to the handle: a value that is not an object, or that the bson crate cannot
encode, makes `insert` return before anything is written, and bytes that are not
a whole encoding do not decode. `Damage` turns one cell into zeros or into bytes
nobody wrote, between two calls or while the file is closed.

### Several processes

`SharedFile` is about one page cache that all processes see. A sync that succeeds
makes no difference to them. One that fails does: `commit` returns Err when
everybody can already read its header, so syncs are steps that may fail. The
reads of `open` and the write of a header slot are split too:

| Code | Actions |
|---|---|
| `open`: `metadata().len()` | `OpenStat` |
| `initialize` | `Initialize`, `InitializeError` |
| `load`: the header region, and the tests on it | `LoadHeaders`, `LoadRejected` |
| `load`: the master index | `LoadIndex`, `LoadRejected` |
| `append`, `tombstone` | `Append_`, `AppendError`, `Tombstone`, `TombstoneError` |
| `commit`: the master index is appended | `CommitAppendMaster`, `CommitMasterError` |
| `commit`: its sync succeeds and the header is written | `CommitHeaderBegins`, `CommitHeaderEnds` |
| `commit`: the last sync succeeds | `CommitReturns` |
| `commit`: the second sync, the header write or the last sync fails | `CommitError` |
| handle dropped, process killed between two system calls | `Drop` |

The first sync of `commit` has no action: its failure changes nothing, and its
success nothing that anybody sees. A slot reads as `Torn` between
`CommitHeaderBegins` and `CommitHeaderEnds`. A record is written, and the index
read, in one step: the one happens behind every header in the file, the other
below the header that was read, which is itself what `SnapshotsAreStable` checks.
`live_slot` is used by the code only in a `debug_assert` and is left out.
`Orderly` says what callers do outside cndb: one write handle is open at a time,
and readers do not open a file that its writer has not created.

Since the retry of a failed commit reuses its generation, a generation does not
name a state here. The history has one entry per **attempt**: `attempts` is the
headers ever written, each with the documents that the handle meant to save, and
`returned` counts the attempts up to the last one that returned Ok. The
properties speak of these: the file opens to the last attempt that returned Ok or
to a later one, never to a mixture of two.

## The runs

Bounds are the constants named in each `.cfg`.

| Run | Asks | Instance |
|---|---|---|
| `crashes` | Is every crash recoverable, no durable generation given up, and an Ok commit on the medium? `AlwaysRecoverable`, `RecoveryInv`, `CommitInv`, `VerifyInv`, `HeaderLossIsSurvived`, `NeverRolledBack`, `CommitIsDurable` | two documents (empty, one cell), 10 cells, 1 id, 1 I/O error, 2 losses; 617,682 states, 2 min |
| `commit_cycles` | Do the index, the log and the live bytes stay right over many calls? `TypeOK` (the type invariant), `CleanMeansSaved`, `VerifyPasses`, `IndexConsistent`, `LiveBytesUntouched` | 12 cells, 2 ids, one document too large to store, 1 I/O error, index outgrows a record; 108,676 states |
| `retries` | Does a retried commit get through? `RetriedCommitSucceeds` (liveness) | 20 cells, 3 I/O errors; 5,036 states |
| `refinement` | Does the engine implement `DurableStore`? `ImplementsDurableStore` | as `crashes` with 1 loss; 109,060 states |
| `handle` | Does a `Cndb` handle read back what was inserted, and keep acknowledged ids apart? `ReadsWhatWasInserted`, `AckedIdsAreUnique`, `ClientInv` | 10 cells, 2 ids, two documents and one too large, a refused value, 1 I/O error; 283,113 states |
| `damage` | Is damage of the medium always noticed? `NeverAnotherDocument`, `VerifyFindsDamage`, `DamageInv` | 10 cells, 1 id, two documents of one length, 2 damaged cells, 1 loss; 529,144 states |
| `readers` | Do readers and writers that take turns share a file safely? `TypeOK`, `CommittedSurvives`, `SnapshotsAreStable`, `OpensAreFresh`, `SharedInv`, `FailsOnlyIfOvertaken`, `ReaderGetsIn` (liveness) | 2 writers, 1 reader, 12 cells, 1 id, documents of two lengths, 1 I/O error; 369,852 states, 2 min |
| `creation_race` | `CommittedSurvives` with a new path and no coordination: violated | 1 writer, 1 reader |
| `zeroed_record` | `VerifiedMeansIntact`: violated | cells of 9 bytes, 2 damaged cells |
| `retry_overwrites_live` | `LiveHeaderSurvives`: violated | 1 I/O error |
| `torn_creation` | `TornHeaderIsRecoverable`: violated | 1 power cut |
| `failed_sync_lost` | `CommitIsDurable`, where failed syncs drop pages: violated | 1 I/O error |

**Why the bounds are enough.** Ten cells hold the two slots, a document, a
tombstone and two master indexes, so both slots come to hold headers, a commit
goes over a valid slot, a failed commit is retried, and the tail of an abandoned
attempt is overwritten by a record of another length. Two losses let a killed process
leave unsynced writes that a later power cut takes apart. Twelve cells and two
ids fit three commits in a row, so that the slot of a real commit is reused, and
a master index of two cells where records may have one. A record kind makes no difference to the engine except
for the master index, so `AppendKinds` is the one kind `Cndb::insert` uses. Two damaged cells
reach both headers, or a frame and its payload, or the same record of two
generations. Twelve cells let `readers` commit twice after the creation, over the slot that a reader
may be reading, or fail at the last sync and retry with one more record, while a
reader has opened the failed attempt; or go on after a writer has abandoned a
transaction of another length. The device being full is not counted as a fault:
it happens whenever a write does not fit.

`handle` has no power cuts (`crashes` and `refinement` have them); documents are
lost there by a kill after the records were synced.

**Deadlock** is checked in every run. A closed handle can always be opened or
rejected, and an idle one can always be told to commit.

**Fairness.** Two runs assume any. `readers` assumes weak fairness of the steps
of `open` in the processes that only read: a reader that opens again after an
`open` failed, and whose calls run to their end. The writers owe nothing: one may
stop for ever halfway through a header, and the reader gets in by the other slot.
An open can fail only when a header is written while it is under way, and the size
of the file bounds the attempts to commit, those that fail included. `retries` assumes weak fairness of the steps of `commit` together. That is a caller that goes on calling `commit` while it is dirty and a
call that runs to its end once begun. Nothing is assumed of opening, appending
or crashing, and a failed step counts as a step, so success follows only because
I/O errors are bounded.

## Where comments and code differ

* **The retry of a commit overwrites the newest header.**
  `storage/header.rs:144` says `victim_slot` "never returns the live slot". If
  the last sync of a commit fails, the file's newest valid header is the one just
  written, while `slots` still describes the state before; the retry picks the
  same slot. `NeverRolledBack` states what does hold: the file never falls
  behind the generation the handle was opened at or last committed.
* **A power cut during creation is not recoverable.** `storage/header.rs:10`
  says the two slots make a torn header recoverable. `initialize` writes only
  one valid header; cut off before its sync, it may leave a non-empty file that
  `load` rejects for ever.
* **A failed sync can lose a commit that reports Ok**, where the kernel marks
  failed pages clean, because `commit` retries the sync on the same pages. All
  positive results are for `SyncErrorDropsWrites = FALSE`.

* **Opening a new path can erase a database.** `storage/engine.rs:67` says `open`
  creates a database "if it does not exist". It decides by the length it read
  before, and `initialize` looks no further: the slower of two processes that
  open a new path resets the headers, after any number of commits of the other,
  even if it never writes anything itself.
* **`verify` passes over zeroed records.** `api.rs:70` says it checks every
  committed record's checksum. Nine zero bytes are a valid empty record, so a
  zeroed record whose size is a multiple of nine is walked as several empty ones.
  `VerifyFindsDamage` is what holds: bytes other than zeros are found. `get` still
  fails on such a document, because no bytes are not a BSON document.

Three limits that the models make visible and callers should know. A handle trusts
its own `end` and `header` for as long as it is open, so "one writer at a time"
(`storage/engine.rs:37`) has to mean one write *handle* at a time, as `Orderly`
does: a handle opened before another's commit appends over it even if their
writes never overlap (`SharedFile` with `Orderly = FALSE` has such behaviours). An id is
unique (`storage/record.rs:23`) from the commit on: ids returned by `insert` and
lost with an uncommitted handle are returned again, which `AckedIdsAreUnique`
excludes only for acknowledged ones. And a commit that returned Err may be visible:
after its last sync failed (`storage/engine.rs:263`) other processes open what it
meant to save; while its retry is half written they open the generation before it
again; and afterwards the retry's documents, under the same generation number.
Whoever opened the failed attempt keeps reading it unharmed, but cannot tell from
`generation()` that it is not what was committed.

## What is proved

The theorems hold for all documents and lengths, cell, record and file sizes, ids
and bounds that satisfy the named assumptions of the modules: `FormatAssumption`,
`SyncAssumption` and `EngineAssumption` for the engine, `RefinementAssumption` also
for the refinement (an empty and a rejected file are told apart, and neither is a
database that opened), `ClientAssumption` and
`ResultAssumption` also for the handle (a document has at least one byte; what
`get` returns instead of a document is none), `FormatAssumption` and
`SharedAssumption` for the shared file. TLC evaluates each of them in the runs.
All but the type invariants and `DamageIsFound` need a hypothesis, which their statements
name: `~SyncErrorDropsWrites` for the engine and the handle, `Orderly` for the
shared file. The runs `failed_sync_lost` and `creation_race` show what happens
without it.

| Module | Theorem | Property |
|---|---|---|
| `RecoveryProofs` | `TypeCorrect` | `TypeOK` |
| `RecoveryProofs` | `RecoveryInvariant`, `Recoverable`, `LiveBytes` | `RecoveryInv`, `AlwaysRecoverable`, `LiveBytesUntouched` |
| `CommitProofs` | `CommitInvariant`, `NoRollback`, `DurableCommit` | `CommitInv`, `NeverRolledBack`, `CommitIsDurable` |
| `CommitProofs` | `HeaderLoss`, `CleanIsSaved`, `ConsistentIndex` | `HeaderLossIsSurvived`, `CleanMeansSaved`, `IndexConsistent` |
| `VerifyProofs` | `VerifyInvariant`, `Verified` | `VerifyInv`, `VerifyPasses` |
| `RefinementProofs` | `EngineImplementsStore` | `ImplementsDurableStore` |
| `ClientProofs` | `ClientTypeCorrect` | the engine's `TypeOK` beneath the handle |
| `ClientProofs` | `HandleInvariant`, `ReadsBack`, `UniqueIds` | `ClientInv`, `ReadsWhatWasInserted`, `AckedIdsAreUnique` |
| `ClientProofs` | `DamageIsFound` | `VerifyFindsDamage` |
| `DamageProofs` | `DamageInvariant`, `NoOtherDocument` | `DamageInv`, `NeverAnotherDocument` |
| `SharedFileProofs` | `SharedTypeCorrect` | `TypeOK` of `SharedFile` |
| `SharedFileProofs` | `SharedInvariant`, `CommitsSurvive`, `StableSnapshots` | `SharedInv`, `CommittedSurvives`, `SnapshotsAreStable` |
| `SharedFileProofs` | `FreshOpens`, `FailuresAreOvertaken` | `OpensAreFresh`, `FailsOnlyIfOvertaken` |

**Recovery.** `AlwaysRecoverable` is not inductive: that load accepts the present
file says nothing of the file a power cut leaves. `RecoveryInv` speaks of the
medium instead. Its file half says that what is synced is what is cached; that
*every* header the medium may hold is supported, meaning that the log below its
`log_end` is synced and holds its master index; that of any two headers in the two
slots the newer one has the longer log; that the newest header in the cache has
the longest log of all; and that a file that looks new never held a header. Its
handle half says that the live slot holds the handle's header, that no header
reaches beyond `end` (so appends disturb none), and that before the header is
written its master index lies whole below `end` with nothing left unsynced. The
order of the slots is needed for the killed process: a reopen trusts a header
that is only cached, appends after it, and must not be undercut by a power cut
that brings the other slot back. The proof has one lemma per kind of step:
appends, syncs, header writes, creation, load, power cuts. `LiveBytes` follows
from it: a commit writes at `end`, which no header reaches, or to a slot that is
not the live one.

**Commit.** `CommitInv` adds what the documents need. Every header the medium may
hold leads to an *index* whose offsets are whole records below its `log_end`; the
handle's index does so below `end`, and is the live header's if the handle is
clean; the master index a commit has written is the handle's; and the generations
in the two slots are exactly one apart. The last part is why losing a header costs
at most one commit (`HeaderLoss`). Durability is stated of the step in which
`commit` returns: the sync before it leaves one content in each cell, so the set of
durable headers has the new one as its maximum. `NoRollback` is an action property.
Its one exception, the retried commit, writes over the newest header; there the
invariant gives a live header in the other slot, of the handle's own generation.

**Verify.** `verify` is a walk from the start of the log, written in `CndbFormat`
as a recursive function. That the function exists, and that it walks the same
records while the file grows behind it, is induction on offsets. The induction
theorems of the library take an operator and cannot be used, so the lemmas take
the least counterexample instead, which the library's theorem that every nonempty
subset of a well-founded set has a minimal element gives (`LeastNat`, `WalkExists`,
`WalkExtends`). `VerifyInv` says that the walk succeeds for every header the medium
may hold, as far as `end` for an open handle, and comes by the master index of a
commit under way. That no gap lies between records is what it takes: an append after
a failed one starts where the failed one did.

**The refinement.** The abstract state is a function of the engine's
(`EngineRefinement`), so what there is to prove is that each step of the engine,
given `RecoveryInv` and `CommitInv` before and after it, is a step of `DurableStore`
or none. The hard part of that state is the set of what `open` may find after a power
cut, since `Images` picks the files a cut may leave by recursion over the offsets.
`ImagesAre` says, by least counterexample again, that they are exactly the files
that take one content of the medium at each offset and have nothing behind their end.
`OutcomesAre` then says that of all this only the two slots matter: every header the
medium may hold describes a log that the cache and the medium agree on
(`MediumWhole`), so the outcomes are what the possible pairs of slots lead to. From
there the actions follow one by one.

| Steps of the engine | Steps of the store |
|---|---|
| `OpenCreate`, `OpenCreateError` | `Create` |
| `InitializeSync`, `OpenLoad` | `Open` |
| `Append_` | `Put` |
| `Tombstone` | `Delete` |
| `CommitSyncRecords`, `CommitSyncMaster` | `Settle` |
| `CommitWriteHeader` | `CommitAttempt` |
| `CommitSyncHeader` | `CommitOk` |
| `Drop` of an open handle | `Stop` |
| `PowerLoss` | `PowerLoss` |
| every other, the failed ones among them | none |

`CommitWriteHeader` is where the invariants are needed most: nothing is unsynced
before it, so the medium has one content in each slot; afterwards the written slot
holds what it held, the new header or a torn one, and these lead to what `open` would
have found, to what the handle reads, and to what the handle last committed. The
last is so because the other slot is the handle's own, one generation behind.

**The handle.** `ClientInv` joins `RecoveryInv` and `CommitInv` with the history:
the handle's index leads to what was inserted, and every header a crash may leave
leads to what was saved with its master index. Two parts are there only to be
inductive. `MasterIsNew`: until its header is written, no header leads to the
master index of a commit, so noting what it saves changes nothing that was saved. And
`AckedAreDurable`: one slot is sure to hold every acknowledged document, and
whatever the other one may hold does too or is older, so the header a reopen
chooses is never one that lacks an acknowledged id. `ClientInv` is claimed, and so are
`ReadsBack` and `UniqueIds`, while `damages = 0`.

**Damage.** `RecoveryInv` may be false once a cell is damaged: the newest header,
a master index or a record may be gone, and so may the handle's own header under
its feet. `DamageInv` keeps the half that does not depend on any cell being
intact. A header, frame of a master index, or frame of a record is what a handle
wrote for what it was given, or it is zeros or foreign bytes; and every header that the
medium may hold, and that of an open handle, has no longer log than the cache
shows, or `end` covers, so what is appended after damage goes over nothing a
header leads to. `NoOtherDocument` follows because a checksum is the payload, and
because an empty payload, which a zeroed frame has, is no document. `DamageIsFound`
needs none of this: a walk that reports no error has read every cell, and no
record that can be read contains foreign bytes.

**Several processes.** `CommittedSurvives` is not inductive: it says nothing of the
headers that processes have read and hold, nor of what the writer will write next.
`SharedInv` says of every attempt ever made, whether its commit returned Ok or not,
and also when its header is no longer in the file, that its log still leads to what
it was to save (`AttemptsKept`), which holds because the writer's `end` is behind
them all. The last header written is the live one, except while the header that
retries it is half written (`LiveIsLast`). After a failed commit the writer's copy of
the slots is behind the file; `BehindInOneSlot` says that this is so in the slot that
its next header goes over and in no other, that what is there instead is the last
attempt, one generation ahead, and so that the retry goes over no header but the one
its own failed attempt left. A process that has read the headers has one of an attempt
at least as late as the last that returned Ok before its open began, whatever
half-written slot it met (`HeaderIsAttempt`), and had measured a file long enough
for every attempt older than its open (`LengthTaken`). A writer that is killed leaves
all this to the next one. The proof has one lemma for each action, and is for any
number of processes, any of which may be halfway through `open`, and any number of
failures.

**Only model-checked.** The liveness properties `RetriedCommitSucceeds` and
`ReaderGetsIn`: the prover does not reason about fairness. The five violations are
TLC's, as counterexamples.

## What is not modelled

* What the bson crate makes of a value: the models' documents are values that it
  encodes and that decode to themselves. `type_name` and the messages of
  `error.rs` are wording. `offset_of`, `is_live`, `dead_ratio` and the plain
  accessors have no effect and no caller that acts on them.
* Which error variant a call returns, except for `get`.
* Files that cndb did not write: a version or magic mismatch does not occur, nor
  a document whose payload contains a well-formed record, which a `verify` led
  astray by zeroed frames could walk into.
* CRC32 collisions, and counters wrapping at 2^64.
* The directory entry of a new file, which the engine does not sync: a new
  database may vanish as a whole after a power cut, which the model's empty
  file stands for.
* A header slot torn in the page cache: a write of one 64-byte slot that fails
  is taken to have written nothing. On the medium it may be torn.
* Crashes of the machine while several processes have the file open, and two
  handles within one process (which behave as two processes do).
* In `SharedFile`, reads of `open` that fail with an I/O error, which leave nothing
  behind; and a kill in the middle of the write of a header slot, which is one
  64-byte write. `Torn` there is only what a concurrent read may see of it.

## Plan

1. Done: format, file, engine, recovery invariant, abstract store, refinement,
   and the first theorems.
2. Done: several handles on one file, readers beside writers, the history of
   ids, the handle of `api.rs` with the codec's rejections, damaged media.
3. Done: proofs of every safety invariant and action property that the runs check,
   and of the refinement.
4. Next: that the handle of `CndbClient`, while nothing is damaged, implements the
   abstract store call by call, so that the promise is stated of `insert`, `get` and
   `delete` too and not only of `append` and `read_record`; and the safety facts that
   the liveness properties rest on (a commit under way always has a next step; the
   log that a retried commit needs is bounded).
