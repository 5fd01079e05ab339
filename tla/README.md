# A specification of iqdb-persist

`iqdb-persist` keeps an in-memory vector index on disk: a snapshot file, a
write-ahead log (WAL) beside it, and a wrapper, `PersistedIndex<I>`, that keeps
the two in step with memory and restores the index after a restart. This
directory holds TLA+ models of that code, the TLC runs that check them, and
proofs, checked by TLAPS, of what the runs show on small instances. All paths
below are relative to the repository (`src/...`).

## Inventory

| Part | Source | State | Operations | Talks to |
|---|---|---|---|---|
| PersistedIndex | `src/persisted.rs` | the index `inner`, `config`, a WAL handle or none | `open_with`, `load`, `insert`, `delete`, `save`, `checkpoint`, `index_mut` | storage (snapshot), Wal, recovery, the wrapped index |
| Wal | `src/wal.rs` | the log file and its offset, `last_fsync`, `scratch` | `create`, `open_for_append`, `reset`, `append_*`, `mark`, `rollback`, `parse_records` | file system, clock |
| recovery | `src/recovery.rs` | none | `replay` | log file, `parse_records`, the wrapped index |
| storage | `src/storage.rs` | the snapshot file, temporary files | `write_atomic`, `read_all` | file system; other savers through the directory |
| format, checksum, compression | `src/format.rs`, ... | none | encode and decode the snapshot | called by PersistedIndex |
| a wrapped index | `examples/wal_recovery.rs` | rows of an id and a vector | `save_to`, `load_from`, `insert`, `delete` | called by PersistedIndex and recovery |
| config, error, lib | `src/config.rs`, ... | none | types | all |

One handle is single-threaded (`&mut self`); concurrency exists where several
handles or processes save to the same path, and between the program and what
can end it. What is hard in this code is therefore not locking but

- *cutting short*: a process killed, the power lost, or an I/O error returned
  between any two system calls of an operation;
- *two files and memory* that must agree, and are changed one after the other;
- *the next process*, which sees whatever the last one left and goes on with it;
- *caching below the file system*: what is written is not what is on disk, and a
  file, its length, its directory entry and a rename reach the disk separately.

What makes each part correct:

- PersistedIndex: logged before applied; snapshot + log = acknowledged state;
  a rejected mutation leaves no trace; a checkpoint loses and repeats nothing.
- Wal: acknowledged frames stay readable; under `Always` they are on disk.
- recovery: restores every acknowledged mutation, in order, and once; ends.
- storage: the snapshot path is an atomic register with durable writes.
- format/compression: what is written is read back, damage is refused.

`PROJECT.json` lists these parts with their status and every hazard at its line.

## Modules

| Module | Models |
|---|---|
| `WalFile` | the log file as chunks, what of it is on disk, and the primitives of `Wal` |
| `PersistedIndex` (EXTENDS WalFile) | the wrapper, recovery and the snapshot file; crashes, errors, restarts |
| `MCPersistedIndex` | a small wrapped index (it counts ids up to `Cap`, rejects, and takes vectors of any dimension and size) for TLC |
| `AtomicWrite` | `write_atomic`: any number of concurrent savers, call by call |
| `SnapshotRegister` | what a snapshot path promises: an atomic, durable register |
| `Bytes` | file contents: numbers, CRC32, bounds-checked reading |
| `WalFrames` (EXTENDS Bytes) | the bytes of the log: encoding, frames, `parse_records` |
| `VecIndex` (EXTENDS WalFrames) | the index of `examples/wal_recovery.rs` and its payload |
| `SnapshotFormat` (EXTENDS VecIndex) | the bytes of a snapshot: header, compression, every check of `load` in order |
| `StoredIndex` (EXTENDS SnapshotFormat) | one index on disk: handles, a clock, kills, power losses, damaged media |
| `MCStoredIndex` | a small scale for TLC |
| `StoredIndexProofs` | the window of `Periodic`, about StoredIndex |
| `FrameProofs` | theorems about WalFrames: decoding inverts encoding, a damaged log is read as a prefix |
| `SnapshotProofs` (EXTENDS FrameProofs) | theorems about VecIndex and SnapshotFormat: what `load` makes of a snapshot, damaged or not |
| `StoredIndexRecovery` (EXTENDS SnapshotProofs) | theorems about StoredIndex: what `load` returns after any harm |
| `PersistedIndexProofs`, `PersistedIndexSafety`, `PersistedIndexPowerLoss` | theorems about PersistedIndex |
| `AtomicWriteProofs` | theorems about AtomicWrite, with the refinement of SnapshotRegister |

`PersistedIndex` uses the snapshot write as four points (`temp`, `rename`,
`dirSync`, return); that many savers can do this at once, and the temporary
files in between, are `AtomicWrite`'s subject.

### WalFile

The file is a sequence of *chunks*, one for each `write_all`: the header, then
one per frame. An intact frame is the mutation it holds. What is not intact is
one of `PartHeader` (first bytes of a header), `Torn` (first bytes of a frame)
and `Zeros` (at least eight zero bytes where data was to come). `wal` is what
processes see; `walSurv` is the set of contents a power loss may leave: every
write adds its outcomes, a sync reduces the set to the present content. So a
power loss can leave any content since the last sync with its last write torn,
but not a later write without an earlier one. `walLinked` says that the
directory entry is on disk; only a directory sync of `write_atomic` makes it so.

`HeaderVerdicts`, `FrameAt` and `DecodeFails` are `parse_records`: fewer than
twelve bytes are no records, a wrong magic is an error, a torn frame ends the
loop, and eight zero bytes pass the frame checks (length 0, CRC32 0) and fail to
decode. `TooLong` are the mutations whose body is above `MAX_RECORD_LEN` and yet
fits a u32: `commit_record` writes them, `append` acknowledges them, and the
parser takes such a frame for a torn one (`wal.rs:419`), so that only `Readable`
mutations are read back.

### PersistedIndex

`pc` is the next system call, or call into the index, of the running operation:

    open_with   temp rename dirSync create header headerSync
    save        temp rename dirSync
    checkpoint  temp rename dirSync reset header headerSync
    insert      head body sync apply [rollback rbSync]
    load        parse replay... attach [header headerSync]

`IoFails` returns an error from the call at `pc`; `Kill` ends the process there;
`PowerLoss` also resets the files to something they may be on disk; `Drop` ends
a process between calls. After each of them the next process may `load` or
`open_with` on the same files, with the log on or off.

Two history variables state the properties. `trail` is the state last
snapshotted and every state acknowledged since, in order. `clean` is FALSE from
the first event after which snapshot and log need not agree, until both are
written afresh. These events are, exactly: a `save` beside the log, a mutation
through `index_mut`, and an I/O error, kill or power loss that strikes a call
which has changed a file and not yet returned (or, for a power loss, while
unsynced data is about), and the acknowledgement of a record that load cannot
bring back: one that is `TooLong`, or an insert of a vector that does not have
the dimension of the index. Everything else -- all other mutations, accepted or
rejected, checkpoints, restarts, `open_with` over old files, handles without a
log, and faults before the first write of a call -- leaves it alone, and
`InStep` then demands exact agreement. What happens in the events that `clean`
excuses is what `RecoveryKeepsAcked`, `PowerLossKeepsAcked`, `RestartRestores`
and the findings below are about; where they are about none of it, the hazards in
`PROJECT.json` say so.

`insert` does not look at the length of a vector, and an index may accept any
(that of `examples/wal_recovery.rs` does); replay refuses it (`recovery.rs:42`).
`FitsDim` says which mutations pass that check, and `Restorable` which ones load
brings back. `RestartRestores` says what a restart makes of a log without any
fault, through its first record that is not `Restorable` (`StopsAt`): there is
none, and load ends in exactly the acknowledged index; it has another dimension,
and load fails, now and always; or it is too long, and load returns, without an
error, the state before it.

### AtomicWrite and SnapshotRegister

`history` lists the contents of the snapshot path; a power loss goes back to one
at or after `durable`, and takes the data of those in `soft`, whose temporary
files were never synced. Temporary names come from a small shared set, so they
collide; `create_new` is what the code relies on. `author` says who saved each
content, so that `TargetWhole` excuses half an image only where its own saver
runs under Never, whatever other savers do. `SnapshotRegister` knows no
temporary files: a save replaces the content at one instant, and a save that
syncs and returned Ok is past recall. The refinement maps "inside a call" to
`active`, `at` to `done` and `soft` to `weak`; `result`, what the caller was
told, is the same in both.

### Bytes, WalFrames, VecIndex, SnapshotFormat

These modules have no state: they are what the code writes and how it reads it
back. A file is a sequence of *cells*. A cell stands for a fixed number of bytes;
the configurations give u8 and u32 one cell and u64 two, with digits below
`Base`. A digit is the cell `<<d>>`; a CRC32 is as many cells as a u32,
`<<Base, i, s>>`, which hold what was summed, `s`, so that it tells any two
contents apart and yet can be cut, damaged and read as a number like the rest.
`UsizeMax` lies between the two widths, as on a 32-bit host, and the unchecked
`as usize` of an index's `load_from` truncates.

A `VecIndex` has a dimension, a metric and rows. `Insert` appends a vector of
whatever length. `save_to` writes neither the metric nor the length of a row:
`load_from` cuts the payload into rows of the dimension, which gives back an
index that is `Even` (every row has the dimension), and always sets Cosine
(`Reloaded`). The header does hold the metric, and load compares it.

Readers return what they read and whether they could: `Cur` (`wal.rs`) and
`read_exact_or_truncated` (`format.rs`) are `Take`. Where the order of checks
decides which error is returned, the checks are listed in the code's order
(`FirstError`). `ParseRecords` walks the frames by a recursive function, so that
a module with theorems can use it. The codecs are external: a compressed payload
is one cell that holds what was compressed (`<<Base + tag, raw>>`), and zeros up
to `CodecLen`.

`WalFile`'s chunk predicates abstract `WalFrames`: an intact chunk is a frame
that is not `Torn` and decodes; `Torn` is a frame cut short; `Zeros` is a head
of zeros, which passes the checksum (that of nothing is 0) and fails to decode.

### StoredIndex

The composition: a `VecIndex` in a handle with the log on, writing the files
that `load` reads. Calls are atomic here, except that a process can be killed
with any number of cells of a frame written (`KillInAppend`): the steps between
system calls are PersistedIndex's subject. The two meet in what a fault leaves.

| Action | Code, or event |
|---|---|
| `OpenWith`, `Checkpoint` | both files afresh; `Checkpoint` is bounded to indexes that are `Even` |
| `WriteRefused` | the same calls under a scheme that is not compiled in, or a Zstandard level that `encode` refuses: an error, and both files are left alone |
| `FindLegacy` | a v0.2 or v0.3 build left a format-1 snapshot and no log |
| `Mutate` | `insert`, `delete`: frame, `maybe_sync`, apply |
| `Stop`, `KillInAppend`, `PowerLoss` | the ends of a process; a power loss keeps what was synced, any number of cells behind it, and perhaps zeros |
| `DamageSnapshot`, `DamageLog` | one cell changed, or the file cut |
| `LoadIndex`, `OpenForAppend` | `load`, by any configuration, then the log continued at the end of the file |

`base` and `entries` are history: what the snapshot was made of, and the
mutations since, with the places of their frames. `harm` says what was done to
the files since they were last written afresh.

- `RecoversPrefix` is the promise of both formats: whatever was done to the
  files, an index that load returns has the rows of `base` with the first of
  `entries`, in order and to the last cell of their metadata. It covers frames
  that were appended behind a torn one and are parsed from the wrong place.
- `NothingWholeMissing`: after a kill or a power loss, a load that succeeds found
  every mutation before the first torn, misplaced or oversized one. A checkpoint
  that is refused must not have emptied the log.
- `UndamagedLoads`: a handle's own files are refused to a configuration that does
  not fit them, and in two more cases: the index has a metric that `load_from`
  does not bring back (`persisted.rs:206`), or a mutation it accepted, and that
  was acknowledged, has another dimension (`recovery.rs:42`). It says both that
  there is no third case, and that in these two no load ever succeeds.
- `OnlyVersionMisleads`: for a handle of the index's own type, `load_from` meets
  bytes that `save_to` did not write only where the version in the header, which
  no checksum covers, was damaged. That a read error or a panic can come of it is the code as it is.
- `WindowBounded`: what `Periodic` bounds. It speaks of acknowledged mutations and
  of each other, not of the present: nothing syncs the last of them until the
  next append.

## Runs

| Run | Configuration | Shows |
|---|---|---|
| `faults` | `PersistedFaults.cfg` | under `Always`: TypeOK, LoggedBeforeApplied, InStep, PowerLossKeepsAcked, RecoveryKeepsAcked, RestartRestores |
| `callers` | `PersistedCallers.cfg` | under `Periodic`, every call of the API: InStep, RecoveryKeepsAcked, CallReturns |
| `atomic` | `AtomicWrite.cfg` | AtomicTypeOK, TempIsOwn, TargetWhole, IsRegister (refinement) |
| `stored` | `StoredIndex.cfg` | under `Periodic`, on cells: StoredTypeOK, RecoversPrefix, NothingWholeMissing, UndamagedLoads, WindowBounded, OnlyVersionMisleads |
| `claim_*` | `Claim*.cfg` | one documented promise each that a cut-short call breaks |

Bounds, and why they are enough:

- `MaxLog` (4 chunks; 3 in `callers`): header, two or three frames. Every
  finding and every variant shows up with one damaged chunk and one frame on
  each side of it; `MaxLog` bounds only where a mutation may start.
- `MaxFaults` (2; 1 in `callers`): a fault, a recovery, and a fault in the
  recovery or in what follows it.
- `Ids`, `Cap` (two ids up to two): an accepted and a rejected insert and
  delete, and double application visible as a count of 2. `Odd` adds inserts
  that load cannot bring back: of another dimension and too long in `faults`, too
  long in `callers`, none in the claims, which do without.
- `AtomicWrite`: two savers, two values and two names allow every collision;
  `MaxHistory` 3 has two saves; two faults.

- `stored`: `MaxAppends` 2 since the last checkpoint, `MaxRows` 2, so that a torn
  or damaged frame has one before it or one behind it; three bases: an empty
  index, one with a row, and one whose metric is not Cosine; five records: a plain
  insert, a delete, one with a byte id and metadata of four kinds, one longer than
  `MaxRecordLen`, one whose vector has another length. `MaxTime` and `Interval` 2: an append is made, not due, due and
  overdue. `MaxZeros` 2 is a whole frame head. One harm at a time, as harm of two
  places is detected by the checksum of either; `DamageValues` are a zero, both
  versions and flags, and a digit that is no UTF-8 and above every tag.
  `AppendConfigs`: only the configuration without compression appends, since what
  a log holds does not depend on it. `LogConfigs`: it and the one with a level
  that `encode` refuses load a log with records in it. All six configurations
  load, checkpoint and meet damaged snapshots. The run has 548,006 distinct states.

The models have no other bound: calls and restarts are unlimited.
`CHECK_DEADLOCK FALSE` is set in `AtomicWrite.cfg` only, since savers stop at
`MaxHistory`.

Fairness: `FairSpec` has weak fairness of `Proceed`, the steps of a call that
has been made. A call runs on its caller's thread and blocks on nothing but
system calls, so a process that is scheduled takes its next step. Nothing is
assumed of callers or of faults. `CallReturns` is the only property that uses
it. Safety properties are checked and proved of `Spec`.

For each property of a passing run the module defines a *variant* of an
operation, marked as such (`SetLenLate`, `DirSyncSkipped`, `CreateTempShared`,
...), a plausible mistake in that operation that the property detects when the
variant takes the operation's place. They are not part of `Next`.

## Findings

Each `claim_*` run states a promise of the documentation and finds a behaviour
of the code that breaks it.

| Run | The promise | What happens |
|---|---|---|
| `claim_torn_tail` | "an acknowledged insert survives a crash and is restored on the next load" (`src/persisted.rs:258`) | after a kill mid-append, `load` ignores the torn frame but `open_for_append` continues *behind* it; everything acknowledged from then on is unreachable for replay |
| `claim_failed_append` | the same | a write error leaves part of a frame; the `?` at `persisted.rs:283` skips the rollback; later acknowledged frames are unreachable |
| `claim_header_lost` | "a fixed header followed by a sequence of self-checked frames" (`src/wal.rs:13`) | a kill between creating or truncating the log and its header; `load` accepts the empty log and appends frames without a header; the load after that fails or finds nothing |
| `claim_checkpoint_crash` | "the two never double-count a mutation on the next load" (`src/persisted.rs:332`) | a kill between the snapshot and the reset of the log |
| `claim_rejected_crash` | "rolled back so the WAL stays exactly in step with the index" (`src/persisted.rs:263`) | a kill before the rollback leaves a record that every later `load` fails on |
| `claim_log_unlinked` | "logged and fsynced" (`src/persisted.rs:258`) | `Wal::create` does not sync the directory; a power loss may take the file |
| `claim_failed_save` | "If any step fails ... the original target is left byte-for-byte intact" (`docs/API.md`) | a failing directory sync is reported after the rename has replaced the target |
| `claim_ratio_guard` | "it never limits a legitimately large snapshot (whose ratio is small)" (`src/compression.rs:29`) | a snapshot that compresses by more than `MAX_DECOMPRESS_RATIO` is saved, its log reset, and every load refuses it |

All but the last concern calls cut short by a crash or an I/O error. Where nothing
fails, and every acknowledged mutation is one that load can bring back, snapshot
and log stay in step (`InStep`) and a restart restores exactly the acknowledged
index (`RestartRestores`). Two kinds of mutation break the promise of
`src/persisted.rs:258` ("an acknowledged insert survives a crash and is restored
on the next load") without any fault; they are part of what `RestartRestores` and
`UndamagedLoads` state, and need no run of their own:

- a record whose body is above 256 MiB and fits a u32 is written, synced and
  acknowledged (`wal.rs:247`), and load takes it for a torn tail (`wal.rs:419`):
  it and every mutation behind it are gone, without an error;
- an insert of a vector of another length than the index has, where the index
  takes it, is acknowledged, and from then on every load fails
  (`recovery.rs:42`), with every mutation before it.

An index whose `load_from` does not bring back its metric, as that of
`examples/wal_recovery.rs` if it is not Cosine, is saved and then refused by every
load (`persisted.rs:206`). `PowerLossKeepsAcked` holds together with
`claim_log_unlinked` because it speaks of the content the log may have, and the
finding of whether the file is there at all.

## Proofs

For all values of the constants, under the named ASSUMEs of the modules
(`TLAPS` checks every leaf; the modules with theorems use no RECURSIVE operator):

| Theorem | States |
|---|---|
| `TypeCorrect` | `Spec => []TypeOK` |
| `LoggedFirst` | `Spec => []LoggedBeforeApplied` |
| `StaysInStep` | `Spec => []InStep` |
| `LoadRestores` | `Spec => RecoveryKeepsAcked` |
| `RestartsRestore` | `Faithful => (Spec => RestartRestores)` |
| `AckedSurvivePowerLoss` | `Spec => []PowerLossKeepsAcked` |
| `AtomicTypeCorrect`, `TempStaysOwn`, `TargetStaysWhole` | the invariants of AtomicWrite |
| `WindowStaysBounded` | `Spec => []WindowBounded` of StoredIndex |
| `RecoversPrefixAlways` | `Outside => (Spec => []RecoversPrefix)` |
| `NothingWholeMissingAlways` | `Outside => (Spec => []NothingWholeMissing)` |
| `OnlyVersionMisleadsAlways` | `Outside => (Spec => []OnlyVersionMisleads)` |
| `UndamagedLoadsAlways` | `Outside /\ SmallRatios => (Spec => []UndamagedLoads)` |
| `StoredTypeCorrect` | `Outside => (Spec => []StoredTypeOK)` |
| `DecodeInverts` | `Decode(Encode(r))` is `r`, for every record a u32 can count |
| `ParseFindsPrefix` | of a log with torn, overwritten, misplaced or missing frames, `ParseRecords` returns the first mutations |
| `LoadFromInverts` | `LoadFrom(SaveTo(ix))` is `Reloaded(ix)`, without an error or a panic, for every `Even` index that fits the host's memory |
| `SnapshotNeverLies` | a snapshot of either format with a cell damaged and cut anywhere is refused, or read as the index saved, up to its metric |
| `SavedIsLoaded` | a snapshot of either format as it was written is loaded as the index saved if that has the metric Cosine, and refused if it has another |
| `AtomicImplementsRegister` | `Spec => IsRegister`: AtomicWrite implements SnapshotRegister |

The argument for PersistedIndex. `TypeOK` is not inductive: a rollback cuts the
log at `mark`, which must lie inside it. `Phase` says for each `pc` which call is
running and how the end of the log relates to `mark` and `mut`; `TypeInv` is
type correctness and `Phase`, proved in parts (Boolean variables, log, sequences
of states, the rest) because the provers differ in what they can do.
`LoggedBeforeApplied` follows from `Phase` and from `SyncedInv` (under `Always`
the sync before `apply` leaves one content). On top of it:

- `HandleInv`, `FreshInv`: a handle with a log has its file; a log is started
  empty, beside the snapshot just written (needed where `clean` becomes TRUE);
- `LoadInv`: during load, `run` starts at the snapshot, and where the log leads
  through `trail` (`Backed`), `run` and `trail` agree as far as both go and `run`
  never ends before `trail`. The agreement is carried along step by step:
  it needs no induction over the log;
- `InStepInv`: `InStep` with what holds in the middle of a logged mutation: the
  log up to `mark` leads through `trail`, and one chunk lies behind it.

`CoversPrefix`, `CoversAppend` and `CoversFresh` are the lemmas about logs:
damage behind the mark does not matter, one frame adds one state, a fresh log
fits a fresh snapshot. `DiskInv` then says of `walSurv` and `snapSurv` what
`InStepInv` says of `wal` and `snap`: while the log is being started the new
snapshot alone holds everything; at any other time every possible content of
the log leads through `trail`. That is what makes the order "snapshot, directory
sync, log reset" right.

`RestartsRestore` needs a condition on the callers, `Faithful`: the log is on in
every process, and nobody saves beside it, bypasses it or opens afresh over old
files. That is the configuration of `faults`. `CalmInv` says that without a fault
`clean` then holds wherever snapshot and log are not being written afresh, unless
a record that load cannot bring back was acknowledged since (`Spoiled(u)`: chunk
`u` of the log is the first of them, and snapshot and log lead through the
acknowledged states before it, `Leads(u)`). `FollowInv` takes a load through
those states and not behind them, `LoadStops` says how it ends there. Where no
such record was acknowledged `InStep` gives the same with `u` behind the end of
the log, so that the last of the states is the acknowledged one.

For AtomicWrite: `SaveInv` says where a saver stands (it has replaced the target
iff only its directory sync is left, and the file it renames is synced unless it
runs under Never), `TempIsOwn` that what it renames is its own image, and
`SoftInv` that only savers under Never leave data a power loss may take. The
refinement then takes each system call to a step of the register or to none.

For StoredIndex: `WindowBounded` is not inductive, since a mutation that is not
synced must be compared with all that are not. `SinceLastFsync` says that they
are not older than the handle's last sync and were acknowledged before the next
one was due; a handle without one (`SyncRemembered`) syncs at its first append,
which empties the set. The proof needs nothing of what files hold.

For what files hold, three layers, each a module. The first two have no state.
Induction is done on sets: `NaturalsCovered` (a set with 0 and successors covers
Nat) comes from the well-foundedness of `<`, `UpTo` is its bounded form, and
`FiniteRecursion` gives the functions that the loops of the model define. The
library's induction theorems, which take a predicate, are not needed.

- `FrameProofs`. `At` and `Read` say where a cursor stands in what was written and
  what it has read; the lemmas take it through id, vector and metadata, up to
  `DecodeInverts`. A frame that passes its checksum holds the payload the checksum
  was made of, and in a log where every cell of a checksum belongs to a logged
  frame (`LogHolds`) an accepted frame is therefore a logged one
  (`AcceptedIsEntry`). `Walks` says of each step of the loop that it takes the next
  of them or ends.
- `SnapshotProofs`. The checksum covers the payload region: an accepted region is
  the one that was written, wherever the damage is (`RegionRecovered`). The
  header is covered by nothing, but load compares its numbers with the index
  that was read. That leaves the version: a region of format 2 read as a payload
  of format 1 does not begin with its dimension (`RegionAsPayload`,
  `Unmistakable`), and a payload of format 1 read as a region is too short
  (`DigitsTakenForRegion`). `LoadErrTyped`: any sequence of cells whatever gives
  one of the errors.
- `StoredIndexRecovery`. `RecoveryInv` has three parts. `IndexInv`: what was
  saved is an index of a possible size, and memory that plus mutations.
  `SnapInv`: the snapshot is one of `base`, damaged at most once. `LogInv`: the
  log is one that `ParseFindsPrefix` speaks of (`LogHolds`), and `Places`: an
  entry that starts in front of the end of the one before, because that one was
  torn and a handle appended behind what was left, is itself whole. This is what
  `LogHolds` needs to stay true when a log is cut and continued.

`NothingWholeMissing` also needs the other direction. `HeldInv`: until the log's
medium is damaged, the frame of every entry marked whole is there, cell by cell.
`ReachOn` then says that the loop, at the start of such a frame, reads it and
comes to its end, `ReadIsKept` that no later step takes a record back.

`OnlyVersionMisleads` is about the two errors that only `load_from` can end in.
`SnapInv` knows what format and scheme the snapshot was written in, and that one
cell of it was changed or the file was cut, not both (`Hurt`). Then the region
behind a header of the right type that passes its checksum is the one written,
even if there is nothing left behind the header (`RegionKept`); what load makes of
it is what `save_to` wrote, and `LoadFromInverts` says that `load_from` accepts
that (`MisledByVersion`). Of the log no such error comes.

`UndamagedLoads` says that a load does *not* fail, so every check of `load` has to be
shown FALSE of what the code itself wrote. For the snapshot that is `SavedIsLoaded`:
the cursor of `read_header` stands in front of each field as `write_header` laid it
(`HeaderAccepted`), `decode` finds the codec, the length and a small ratio
(`PayloadAccepted`), and `LoadFromInverts` does the rest, up to the metric: the
header holds that of the index (`MetricHeld`), load compares it with Cosine, and
a load that succeeds had nothing else to find (`OnlyCosineLoads`). For the log the danger is
not a torn frame, at which the parser stops, but one that passes the checksum and
cannot be decoded. `AcceptedIsEntry` excludes that for every body but the empty one,
whose checksum is made of zeros. `ChainInv` is what excludes it: a log that only kills
and power losses without zeros have touched is a chain (`Chained`), its header and of
every frame the first cells up to where the next one starts. Wherever the parser
comes by, at a start or behind an accepted frame, the place where a checksum would
be holds then a cell of a checksum, of a length that is not 0, or the opcode of a
body (`StartNoZeros`, `BehindNoZeros`): not zeros alone. With zeros in the log, the
case that `UndamagedLoads` leaves out, the parser can come to eight of them, take
them for a frame with an empty body and fail to decode it. The chain
needs that the header was synced when the log was made. What is read of the log
then is a prefix of the mutations (`LogIsRead`), and replay refuses it exactly
if one of them misfits; that a load which succeeds has met none of another
dimension in front of the first gap follows from `NothingWholeMissing`.

`StoredTypeOK` needs `LoadErrTyped`, and of the log that what is on disk is a part
of it.

Hypotheses of these theorems, beyond the ASSUMEs: `Outside` (the output of a codec
has a length, and `None` is not a file) quantifies over all payloads and is
therefore not an ASSUME that TLC could evaluate. `IndexAssumption` asks of the
indexes that they are `Storable`: they fit the host's memory (no `Vec` of them, nor
of their payload, needs more than `isize::MAX` bytes) and the upper byte of a u64
length is 0. Its third part, `Unmistakable`, is a condition only where
usize has fewer than 64 bits. `UndamagedLoadsAlways` also needs `SmallRatios`: no
codec makes of the payload of an index that callers may come to save less than its
`MAX_DECOMPRESS_RATIO`th part. The code does not check that when it saves, and
`claim_ratio_guard` shows a handle that cannot load what it wrote because of it; in
the run `stored` a payload has at most 13 cells and the ratio is 20.

Every invariant and action property of the passing runs is proved. Only
model-checked: `CallReturns` (liveness under fairness is beyond the prover).

## Assumptions

- A CRC32 tells a damaged frame, or snapshot, from a whole one.
- Seeking a regular file to an offset inside it does not fail; a failed
  `set_len`, `rename`, `open` or sync changes nothing, a failed write may have
  written its first bytes; after a failed sync the data is as unsynced as before.
- Unsynced writes to one file reach the disk in order, the last one perhaps
  torn or as zeros. A rename is atomic and reaches the disk in order with the
  other renames in its directory, but not with the data of the file.
- POSIX: on other systems `write_atomic` does not sync the directory.
- The same index in the same state accepts the same mutations.

- `PersistedIndex`: what `save_to` wrote of an index `load_from` brings back, and
  load accepts it; `VecIndex` and `SnapshotFormat` show for which indexes of the
  example that is so (`SavedIsLoaded`: those that are `Even`, with the metric
  Cosine).
- `StoredIndex`: the indexes that callers begin with are `Even`. A medium changes
  one cell, or cuts the file. The clock of `Instant`s starts anew with the machine.
- Zstandard makes little of equal bytes; a codec gives back what it was given.

## Not modelled

- The texts of errors (`Display`, `source`, the `ForgeError` captions), `Debug`,
  tracing, and the getters.
- The zstd, lz4 and crc32fast libraries, beyond the assumptions above.
- `IndexBuild` and `UnsupportedMetric`: the first comes from other indexes'
  `load_from`, the second from a metric that this version of `iqdb-types` lacks.
- Encodings whose lengths exceed u32 in a part of a record: `MayAppend` refuses
  the record as a whole, and nothing has been written in either case.
- A checkpoint of an index of the example that holds a vector of another length:
  `save_to` writes rows that `load_from` cuts at other places. `StoredIndex`
  bounds `Checkpoint` to indexes that are `Even`; `PersistedIndex` takes what an
  index makes of its own payload as given.
- The index of `examples/save_and_load.rs` and the tests' mock indexes and
  failing substrates.

## Plan

1. *Done*: WalFile, PersistedIndex, AtomicWrite, SnapshotRegister; Bytes,
   WalFrames, VecIndex, SnapshotFormat, StoredIndex; their runs; the theorems
   above.
2. *Done*: a proof of every safety property that a passing run checks.
3. An abstract persisted index (acknowledged mutations in order, perhaps
   followed by the one in flight) that PersistedIndex implements while `clean`
   holds. `InStep` and `RecoveryKeepsAcked`, which are proved, say the same of
   states; the refinement would add nothing but the form.
