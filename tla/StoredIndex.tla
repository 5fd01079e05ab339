----------------------------- MODULE StoredIndex -----------------------------
(***************************************************************************)
(* One VecIndex on disk, byte by byte: the snapshot and the log that a     *)
(* handle writes, what kills, power losses and damaged media leave of      *)
(* them, and what load (src/persisted.rs, src/recovery.rs, parse_records)  *)
(* makes of the rest.                                                      *)
(*                                                                         *)
(* PersistedIndex interleaves faults with every system call of a handle;   *)
(* here its calls are atomic, but for an append, and the files are made of *)
(* cells.  Callers may insert vectors of another length than the index     *)
(* has, and the index may have any metric.  The log is on, callers never   *)
(* save without a checkpoint, and open_with finds no older files.  At most *)
(* one harm at a time is done to the files.                                *)
(***************************************************************************)
EXTENDS SnapshotFormat

CONSTANTS
    Bases,        \* the indexes a caller hands to open_with
    Records,      \* the mutations callers make
    Configs,      \* of handles: [type, features, scheme], see Fits
    Policy,       \* config.fsync_policy
    Interval,     \* and its interval
    None,         \* no file, no index, no configuration, no time
    MaxAppends,   \* bound: appends since the last checkpoint
    MaxRows,      \* bound: an append starts with fewer rows in memory
    MaxTime,      \* bound: of the clock
    MaxZeros,     \* bound: of the cells of a tail of zeros
    AppendConfigs, \* bound: only handles of these append to a log
    LogConfigs,   \* bound: and of these load one that holds records
    DamageValues  \* what a damaged cell reads as

\* Under Never the snapshot is not synced either: see PersistedIndex.
ASSUME StoredAssumption ==
    /\ Policy \in {"Always", "Periodic"} /\ Interval \in Nat \ {0}
    /\ None \notin Nat
    /\ MaxAppends \in Nat /\ MaxRows \in Nat /\ MaxTime \in Nat
    /\ MaxZeros \in Nat
    /\ \A d \in DamageValues : <<d>> \in Digits
    /\ \A c \in Configs : c.scheme.kind \in Kinds

\* Indexes and records have the types of the code, the indexes that callers
\* begin with are Even, and every Even index that a handle comes to hold is
\* Storable.
ASSUME IndexAssumption ==
    /\ Records \subseteq Mutations
    /\ \A b \in Bases :
        /\ b.dim \in Nat /\ b.dim < Pow[W32] /\ b \in EvenIndexesOf(b.dim)
        /\ Len(b.rows) < MaxRows
        /\ \A n \in 0..(MaxRows + MaxAppends - 1) : Storable(b.dim, n)

VARIABLES
    pc,         \* what the process does; "down": there is none
    config,     \* its configuration
    snapFile,   \* the snapshot
    logFile,    \* the log, or None
    mem,        \* the index in memory
    recs,       \* load: the records it has read from the log
    outcome,    \* and what it, or a write that was refused, returned
    now,        \* the clock
    lastFsync,  \* Wal::last_fsync
    durable,    \* so many cells of the log are on disk
    base,       \* history: the index the snapshot was made of
    packed,     \* history: and the scheme that packed it
    entries,    \* history: the mutations the log was to get since, with
                \* their places and whether the log holds them whole
    unsynced,   \* history: when those not yet synced were acknowledged
    harm        \* history: what has been done to the files

handleVars == <<pc, config, mem>>
loadVars == <<recs, outcome>>
clockVars == <<now, lastFsync, durable, unsynced>>
historyVars == <<base, packed, entries, harm>>
vars == <<handleVars, snapFile, logFile, loadVars, clockVars, historyVars>>

Pcs == {"new", "up", "down", "loaded", "failed"}

Harms == {"none", "torn", "zeros", "snapshot", "log"}

\* The handle can read the snapshot: its index has the type, its build the
\* codec, and its own configuration is one it supports.
Fits ==
    /\ config.type = INDEX_TYPE
    /\ Supported(config.scheme, config.features)
    /\ packed = "legacy" \/ Supported([kind |-> packed], config.features)

Init ==
    /\ pc = "new" /\ config \in Configs
    /\ snapFile = None /\ logFile = None
    /\ mem \in Bases
    /\ recs = <<>> /\ outcome = "Ok"
    /\ now = 0 /\ lastFsync = None /\ durable = 0 /\ unsynced = {}
    /\ base = mem /\ packed = "none" /\ entries = <<>> /\ harm = "none"

-----------------------------------------------------------------------------
(* A handle at work *)

\* Variant: the time is noted, and the log left to the operating system.
NoteTime == lastFsync' = now /\ unsynced' = {} /\ UNCHANGED durable

\* sync_now of the log, written as it is after the step.
SyncNow == lastFsync' = now /\ unsynced' = {} /\ durable' = Len(logFile')

\* validate_config and, when the payload is compressed, encode.
SchemeVerdict ==
    FirstError(<< <<~Supported(config.scheme, config.features), "Unsupported">>,
                  <<LevelRejected(config.scheme), "Compression">> >>)

\* open_with and checkpoint end with snapshot and log like this.
WriteBoth ==
    /\ SchemeVerdict = "Ok"
    /\ snapFile' = Snapshot(mem, config.scheme) /\ logFile' = WalHeader
    /\ base' = mem /\ packed' = config.scheme.kind
    /\ SyncNow
    /\ entries' = <<>> /\ harm' = "none"
    /\ pc' = "up"
    /\ UNCHANGED <<config, mem, loadVars, now>>

OpenWith == pc = "new" /\ config.type = INDEX_TYPE /\ WriteBoth

\* Bound: callers checkpoint no index that its own save_to does not write in
\* a way its load_from reads.
Checkpoint == pc = "up" /\ Even(mem) /\ WriteBoth

\* Variant: checkpoint empties the log before it writes the snapshot.
LogGoesFirst ==
    /\ pc \in {"new", "up"} /\ config.type = INDEX_TYPE
    /\ SchemeVerdict # "Ok" /\ outcome' = SchemeVerdict
    /\ logFile' = (IF pc = "up" THEN WalHeader ELSE logFile)
    /\ durable' = (IF pc = "up" THEN Len(WalHeader) ELSE durable)
    /\ UNCHANGED <<handleVars, snapFile, recs, now, lastFsync, unsynced, historyVars>>

\* Or both return an error and leave the files alone: the codec is missing
\* or, found out only when it is used, the level is out of range.
WriteRefused ==
    /\ pc \in {"new", "up"} /\ config.type = INDEX_TYPE
    /\ SchemeVerdict # "Ok" /\ outcome' = SchemeVerdict
    /\ UNCHANGED <<handleVars, snapFile, logFile, recs, clockVars, historyVars>>

\* There is no process: its memory, and Wal::last_fsync with it, is gone.
NoHandle == config' = None /\ mem' = None /\ lastFsync' = None

\* A build that wrote format 1 left a snapshot.
FindLegacy ==
    /\ pc = "new" /\ pc' = "down" /\ NoHandle
    /\ snapFile' = LegacySnapshot(mem) /\ packed' = "legacy"
    /\ UNCHANGED <<logFile, loadVars, now, durable, unsynced, base, entries, harm>>

\* Variant: the interval has to be over.
SyncDueLate ==
    \/ Policy = "Always"
    \/ lastFsync = None
    \/ now > lastFsync + Interval

\* maybe_sync
SyncDue ==
    \/ Policy = "Always"
    \/ lastFsync = None
    \/ now >= lastFsync + Interval

NewEntry(r, whole) == Append(entries, [rec |-> r, start |-> Len(logFile), whole |-> whole])

MayAppend(r) ==
    /\ pc = "up" /\ config \in AppendConfigs
    /\ Len(entries) < MaxAppends /\ Len(mem.rows) < MaxRows
    /\ Bounded(Len(Encode(r)), W32)

\* insert or delete: logged, synced if that is due, applied.
Mutate(r) ==
    /\ MayAppend(r)
    /\ logFile' = logFile \o Frame(r)
    /\ mem' = ApplyRecord(mem, r)
    /\ entries' = NewEntry(r, TRUE)
    /\ IF SyncDue
         THEN SyncNow
         ELSE unsynced' = unsynced \cup {now} /\ UNCHANGED <<lastFsync, durable>>
    /\ UNCHANGED <<pc, config, snapFile, loadVars, now, base, packed, harm>>

\* Time that passes without a handle might as well pass after the next load.
Tick ==
    /\ pc = "up" /\ harm = "none" /\ now < MaxTime
    /\ now' = now + 1
    /\ UNCHANGED <<handleVars, snapFile, logFile, loadVars, lastFsync, durable,
                   unsynced, historyVars>>

-----------------------------------------------------------------------------
(* How it ends, and what happens to the files *)

\* The handle is dropped, or its process killed between two calls.
Stop ==
    /\ pc = "up" /\ pc' = "down" /\ NoHandle
    /\ UNCHANGED <<snapFile, logFile, loadVars, now, durable,
                   unsynced, historyVars>>

\* The process is killed when k cells of a frame are written.
KillInAppend(r, k) ==
    /\ MayAppend(r) /\ harm = "none"
    /\ pc' = "down" /\ NoHandle
    /\ logFile' = logFile \o SubSeq(Frame(r), 1, k)
    /\ entries' = NewEntry(r, k = Len(Frame(r)))
    /\ harm' = (IF k = Len(Frame(r)) THEN "none" ELSE "torn")
    /\ UNCHANGED <<snapFile, loadVars, now, durable, unsynced, base, packed>>

EntryEnd(e) == e.start + Len(Frame(e.rec))

\* The mutations of which a log cut to n cells holds something.
Remaining(n) ==
    [i \in {j \in DOMAIN entries : entries[j].start < n} |->
       [entries[i] EXCEPT !.whole = @ /\ EntryEnd(entries[i]) <= n]]

CutLogTo(n) ==
    /\ logFile' = SubSeq(logFile, 1, n)
    /\ entries' = Remaining(n)

\* What the machine finds when it starts again is what is on disk.  Its
\* clock, of Instants, begins anew.
Reboot ==
    /\ durable' = (IF logFile' = None THEN 0 ELSE Len(logFile'))
    /\ unsynced' = {} /\ now' = 0

\* A power loss leaves what was synced, k cells in all, and perhaps zeros
\* where the file's length reached the disk before its data.
PowerLoss(k, zeros) ==
    /\ pc \in {"up", "down"} /\ harm = "none" /\ logFile # None
    /\ durable <= k /\ k + zeros <= Len(logFile) /\ k < Len(logFile)
    /\ pc' = "down" /\ NoHandle
    /\ logFile' = SubSeq(logFile, 1, k) \o [i \in 1..zeros |-> <<0>>]
    /\ entries' = Remaining(k)
    /\ harm' = (IF zeros = 0 THEN "torn" ELSE "zeros")
    /\ Reboot
    /\ UNCHANGED <<snapFile, loadVars, base, packed>>

\* One cell of a file is damaged, or the file is cut, while the machine is off.
DamageSnapshot ==
    /\ pc = "down" /\ harm = "none" /\ harm' = "snapshot"
    /\ entries = <<>>
    /\ \/ \E i \in DOMAIN snapFile, d \in DamageValues :
            <<d>> # snapFile[i] /\ snapFile' = [snapFile EXCEPT ![i] = <<d>>]
       \/ \E n \in 0..(Len(snapFile) - 1) : snapFile' = SubSeq(snapFile, 1, n)
    /\ UNCHANGED logFile
    /\ Reboot
    /\ UNCHANGED <<handleVars, loadVars, lastFsync, base, packed, entries>>

DamageLog ==
    /\ pc = "down" /\ harm = "none" /\ harm' = "log"
    /\ logFile # None
    /\ \/ /\ \E i \in DOMAIN logFile, d \in DamageValues :
               <<d>> # logFile[i] /\ logFile' = [logFile EXCEPT ![i] = <<d>>]
          /\ UNCHANGED entries
       \/ \E n \in 0..(Len(logFile) - 1) : CutLogTo(n)
    /\ Reboot
    /\ UNCHANGED <<handleVars, snapFile, loadVars, lastFsync, base, packed>>

-----------------------------------------------------------------------------
(* load *)

ReadLog ==
    IF logFile = None THEN [err |-> "Ok", recs |-> <<>>] ELSE ParseRecords(logFile)

\* replay stops at an insert whose vector does not fit.
Misfits(ix, rs) ==
    \E i \in DOMAIN rs : rs[i].op = OP_INSERT /\ Len(rs[i].vector) # ix.dim

\* load, from the files as they were read to the end of the replay.
Replay(cfg, snapshot, log) ==
    /\ outcome' = FirstError(
         << <<~Supported(cfg.scheme, cfg.features), "Unsupported">>,
            <<snapshot.err # "Ok", snapshot.err>>,
            <<log.err # "Ok", log.err>>,
            <<Misfits(snapshot.ix, log.recs), "InvalidPayload">> >>)
    /\ IF outcome' = "Ok"
         THEN /\ pc' = "loaded" /\ recs' = log.recs
              /\ mem' = ApplyAll(snapshot.ix, log.recs)
         ELSE pc' = "failed" /\ recs' = <<>> /\ mem' = None

\* Nothing is written.
LoadIndex(cfg) ==
    /\ pc \in {"down", "failed"} /\ config' = cfg
    /\ entries = <<>> \/ cfg \in LogConfigs
    /\ Replay(cfg, Load(snapFile, cfg.type, cfg.features), ReadLog)
    /\ UNCHANGED <<snapFile, logFile, clockVars, historyVars>>

\* open_for_append: at the end of the file, whatever replay made of it.
OpenForAppend ==
    /\ pc = "loaded" /\ pc' = "up"
    /\ recs' = <<>>
    /\ IF logFile = None
         THEN logFile' = WalHeader /\ SyncNow
         ELSE lastFsync' = None /\ UNCHANGED <<logFile, durable, unsynced>>
    /\ UNCHANGED <<config, mem, snapFile, outcome, now, historyVars>>

-----------------------------------------------------------------------------
Next ==
    \/ OpenWith \/ Checkpoint \/ WriteRefused \/ FindLegacy \/ Tick \/ Stop
    \/ \E r \in Records : Mutate(r)
    \/ \E r \in Records : \E k \in 1..Len(Frame(r)) : KillInAppend(r, k)
    \/ \E k \in 0..(IF logFile = None THEN 0 ELSE Len(logFile)), zeros \in 0..MaxZeros :
         PowerLoss(k, zeros)
    \/ DamageSnapshot \/ DamageLog
    \/ \E cfg \in Configs : LoadIndex(cfg)
    \/ OpenForAppend

Spec == Init /\ [][Next]_vars

-----------------------------------------------------------------------------
(* Properties *)

\* Every variable has its type, and the log on disk is part of the log.
StoredTypeOK ==
    /\ pc \in Pcs /\ config \in Configs \cup {None} /\ harm \in Harms
    /\ outcome \in Errors \cup {"Ok", "Panic"}
    /\ logFile # None => durable \in 0..Len(logFile)
    /\ now \in 0..MaxTime /\ lastFsync \in 0..MaxTime \cup {None}
    /\ unsynced \subseteq 0..MaxTime
    /\ \A i \in DOMAIN entries : entries[i].rec \in Records /\ entries[i].whole \in BOOLEAN

\* Whatever was done to the files, an index that load returns has the rows
\* the snapshot was made of with the first of the mutations made since, in
\* order and to the last cell of their metadata: never silently wrong.  (Its
\* metric is the one load_from sets: a damaged tag of another metric, which
\* no checksum covers, may agree with it.)
RecoversPrefix ==
    pc = "loaded" =>
        /\ IsPrefix(recs, [i \in DOMAIN entries |-> entries[i].rec])
        /\ mem = ApplyAll(Reloaded(base), recs)

\* The mutations in front of the first that the log does not hold whole,
\* or behind a gap, or longer than the parser takes a record to be.
Reachable ==
    {i \in DOMAIN entries : \A j \in 1..i :
        /\ entries[j].whole
        /\ entries[j].start = (IF j = 1 THEN Len(WalHeader) ELSE EntryEnd(entries[j - 1]))
        /\ Len(Encode(entries[j].rec)) <= MaxRecordLen}

\* A load that succeeds after a kill or a power loss has found every
\* mutation that the log still held: a torn tail, a tail of zeros or an
\* oversized record takes nothing that lies before it.
NothingWholeMissing ==
    pc = "loaded" /\ harm \in {"none", "torn", "zeros"} =>
        \A i \in Reachable : i <= Len(recs)

FitsDim(r) == r.op = OP_INSERT => Len(r.vector) = base.dim

\* Where no medium was damaged and the power loss left no zeros, a handle
\* that fits the snapshot loads it, in either format, with any codec and
\* behind any number of torn frames, but in two cases: the index does not
\* give its metric back, or a mutation it accepted, and that was
\* acknowledged, has another dimension.  Those are refused, however often
\* load is tried, and with them every mutation made before and after.
UndamagedLoads ==
    harm \in {"none", "torn"} =>
        /\ pc = "failed" => \/ ~Fits \/ base.metric # Cosine
                            \/ \E i \in DOMAIN entries : ~FitsDim(entries[i].rec)
        /\ pc = "loaded" => /\ base.metric = Cosine
                            /\ \A i \in Reachable : FitsDim(entries[i].rec)

\* What Periodic bounds: mutations that were acknowledged and not yet synced
\* were made within one interval of each other, across restarts too.
WindowBounded == \A s, t \in unsynced : s < t + Interval

WrittenVersion == IF packed = "legacy" THEN 1 ELSE 2

\* The index's own load_from meets bytes that no save_to wrote, which may
\* end in an I/O error or a panic, only if the version in the header is
\* damaged: everything else it is given has passed the checksum.  (What
\* the load_from of an index of another type makes of it is its own.)
OnlyVersionMisleads ==
    pc = "failed" /\ config.type = INDEX_TYPE /\ outcome \in {"Io", "Panic"} =>
        ReadHeader(snapFile).header.version # WrittenVersion

\* The comment on MAX_DECOMPRESS_RATIO: it never limits a snapshot that
\* was saved, "whose ratio is small".
RatioGuardSparesSaved ==
    pc = "failed" /\ harm = "none" /\ Fits => outcome # "InvalidPayload"
=============================================================================
