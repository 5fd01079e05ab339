---------------------------- MODULE PersistedIndex ----------------------------
(***************************************************************************)
(* PersistedIndex (src/persisted.rs, src/recovery.rs): an in-memory index, *)
(* its snapshot file and its write-ahead log, from open_with and load      *)
(* through logged mutations, saves and checkpoints to the end of the       *)
(* process, and across restarts.                                           *)
(*                                                                         *)
(* The code is generic in the index I; so is this module, through the      *)
(* constant operators Accepts, Apply and FitsDim.  pc is the system call   *)
(* (or the call into the index) that the running operation makes next, so  *)
(* a crash or an I/O error can strike between any two of them.             *)
(***************************************************************************)
EXTENDS WalFile

CONSTANTS
    Index,          \* the states of the wrapped index
    Accepts(_, _),  \* index.insert / delete succeeds in a state
    Apply(_, _),    \* and the state it then leads to
    FitsDim(_),     \* a delete, or an insert of a vector of index.dim()
                    \* components; an index may accept others, too
    Bases,          \* the indexes a caller hands to open_with
    NoIndex,        \* there is no index in memory
    NoSnap,         \* there is no snapshot file
    Corrupt,        \* a snapshot file that load rejects
    NoMut,
    Modes,          \* the values of config.wal_enabled callers use
    Events,         \* what callers and the environment do, see EventKinds
    MaxLog,         \* bound: a mutation starts while Len(wal) < MaxLog
    MaxFaults       \* bound: I/O errors, kills and power losses in a behaviour

\* "drop" ends a process between calls and "kill" anywhere; "reopen" is
\* open_with over the files of an earlier index; "bypass" is index_mut.
EventKinds == {"mutate", "save", "checkpoint", "bypass", "reopen",
               "io", "drop", "kill", "power"}

ASSUME IndexAssumption ==
    /\ \A s \in Index, m \in Mutation :
          /\ Accepts(s, m) \in BOOLEAN
          /\ Accepts(s, m) => Apply(s, m) \in Index
    /\ Bases \subseteq Index
    /\ {NoIndex, NoSnap, Corrupt} \cap Index = {}
    /\ NoMut \notin Mutation

ASSUME BoundAssumption ==
    /\ Modes \subseteq BOOLEAN /\ Events \subseteq EventKinds
    /\ MaxLog \in Nat /\ MaxFaults \in Nat

VARIABLES
    pc,        \* what the running operation does next
    call,      \* the running operation
    mut,       \* its mutation; after a crash, the one that was in flight
    mark,      \* its local `mark'
    mem,       \* inner
    walOn,     \* config.wal_enabled of the present handle
    snap,      \* the snapshot file
    snapSurv,  \* the snapshot files a power loss may leave
    run,       \* during load: the states replay has passed through
    trail,     \* history: the state last snapshotted and every state
               \* acknowledged to the caller since
    clean,     \* history: FALSE from the first event after which snapshot
               \* and log need not agree, until both are written afresh
    faults     \* the number of I/O errors, kills and power losses so far

snapVars == <<snap, snapSurv>>
opVars == <<call, mut, mark>>
vars == <<pc, call, mut, mark, mem, walOn, snap, snapSurv, run, trail, clean,
          faults, walVars>>

Pcs == {"down", "idle", "temp", "rename", "dirSync", "create", "header",
        "headerSync", "reset", "head", "body", "sync", "apply", "rollback",
        "rbSync", "parse", "replay", "attach"}

Calls == {"none", "open", "load", "save", "checkpoint", "mutate"}

Last(t) == t[Len(t)]

Init ==
    /\ pc = "down" /\ call = "none" /\ mut = NoMut /\ mark = 0
    /\ mem = NoIndex /\ walOn = FALSE
    /\ snap = NoSnap /\ snapSurv = {NoSnap}
    /\ run = <<>> /\ trail = <<>> /\ clean = FALSE /\ faults = 0
    /\ WalInit

-----------------------------------------------------------------------------
(* Starting and ending a call *)

Start(c, next) == call' = c /\ pc' = next

\* The call returns to its caller, with Ok or with an error that leaves the
\* handle in use.
Return == pc' = "idle" /\ call' = "none" /\ mut' = NoMut /\ mark' = 0

\* Variant: a failed load leaves its half-replayed index behind.
AbortKeepsIndex ==
    /\ call' = "none" /\ mark' = 0 /\ run' = <<>>
    /\ mut' = (IF call = "load" THEN mut ELSE NoMut)
    /\ pc' = (IF call \in {"open", "load"} THEN "down" ELSE "idle")
    /\ UNCHANGED mem

\* The call returns an error: open_with and load then yield no index.
Abort ==
    /\ call' = "none" /\ mark' = 0 /\ run' = <<>>
    /\ mut' = (IF call = "load" THEN mut ELSE NoMut)
    /\ IF call \in {"open", "load"}
         THEN pc' = "down" /\ mem' = NoIndex
         ELSE pc' = "idle" /\ UNCHANGED mem

\* Between the calls at these points nothing has been written that snapshot
\* and log do not agree on.
Quiet == {"down", "idle", "temp", "rename", "head", "parse", "replay", "attach"}

-----------------------------------------------------------------------------
(* open_with, save and checkpoint *)

\* open_with wraps index s.  With the log enabled it goes on to write a base
\* snapshot and a fresh log; without, it touches no file.
OpenWith(s, w) ==
    /\ pc = "down"
    /\ "reopen" \in Events \/ snap \notin Index
    /\ mem' = s /\ walOn' = w /\ mut' = NoMut
    /\ IF w THEN Start("open", "temp") ELSE Start("none", "idle")
    /\ UNCHANGED <<mark, snapVars, run, trail, clean, faults, walVars>>

BeginSave ==
    /\ pc = "idle" /\ "save" \in Events
    /\ Start("save", "temp")
    /\ UNCHANGED <<mut, mark, mem, walOn, snapVars, run, trail, clean, faults, walVars>>

BeginCheckpoint ==
    /\ pc = "idle" /\ "checkpoint" \in Events
    /\ Start("checkpoint", "temp")
    /\ UNCHANGED <<mut, mark, mem, walOn, snapVars, run, trail, clean, faults, walVars>>

\* write_snapshot encodes the index and write_atomic writes it to a
\* temporary file, which no reader looks at, and syncs it.
WriteTemp ==
    /\ pc = "temp" /\ pc' = "rename"
    /\ UNCHANGED <<opVars, mem, walOn, snapVars, run, trail, clean, faults, walVars>>

\* The rename.  Until the directory is synced a power loss may undo it; if
\* the temporary file was not synced it may leave a file without content.
Rename ==
    /\ pc = "rename" /\ pc' = "dirSync"
    /\ snap' = mem
    /\ snapSurv' = snapSurv \cup {mem}
                     \cup (IF Policy = "Never" THEN {Corrupt} ELSE {})
    /\ UNCHANGED <<opVars, mem, walOn, run, trail, clean, faults, walVars>>

\* Variants: no directory sync; a checkpoint that forgets the log.
DirSyncSkipped ==
    /\ pc = "dirSync"
    /\ trail' = <<mem>>
    /\ IF call = "open" THEN pc' = "create" /\ UNCHANGED <<opVars, clean>>
       ELSE IF call = "checkpoint" /\ walOn
         THEN pc' = "reset" /\ UNCHANGED <<opVars, clean>>
         ELSE Return /\ clean' = FALSE
    /\ UNCHANGED <<mem, walOn, snapVars, run, faults, walVars>>

DirSyncOnly ==
    /\ pc = "dirSync"
    /\ snapSurv' = {snap} /\ walLinked' = walExists
    /\ trail' = <<mem>>
    /\ IF call = "open" THEN pc' = "create" /\ UNCHANGED <<opVars, clean>>
                        ELSE Return /\ UNCHANGED clean
    /\ UNCHANGED <<mem, walOn, snap, run, faults, walExists, wal, walSurv, synced>>

\* The directory sync that ends write_atomic (skipped under Never).  The
\* snapshot now stands for everything acknowledged.  A save stops here and
\* leaves a log that repeats what the snapshot holds.
DirSync ==
    /\ pc = "dirSync"
    /\ IF Policy = "Never" THEN UNCHANGED <<snapSurv, walLinked>>
                           ELSE snapSurv' = {snap} /\ walLinked' = walExists
    /\ trail' = <<mem>>
    /\ IF call = "open" THEN pc' = "create" /\ UNCHANGED <<opVars, clean>>
       ELSE IF call = "checkpoint" /\ walOn
         THEN pc' = "reset" /\ UNCHANGED <<opVars, clean>>
         ELSE Return /\ clean' = FALSE
    /\ UNCHANGED <<mem, walOn, snap, run, faults, walExists, wal, walSurv, synced>>

\* Wal::create opens (or truncates) the file, Wal::reset truncates it; both
\* then write a header and sync it.
CreateLog ==
    /\ pc = "create" /\ pc' = "header"
    /\ CreateEmpty
    /\ UNCHANGED <<opVars, mem, walOn, snapVars, run, trail, clean, faults>>

ResetLog ==
    /\ pc = "reset" /\ pc' = "header"
    /\ SetLen(0)
    /\ UNCHANGED <<opVars, mem, walOn, snapVars, run, trail, clean, faults>>

PutHeader ==
    /\ pc = "header" /\ pc' = "headerSync"
    /\ WriteHeader
    /\ UNCHANGED <<opVars, mem, walOn, snapVars, run, trail, clean, faults>>

\* The end of open_with, of checkpoint, and of a load that found no log.
HeaderSync ==
    /\ pc = "headerSync"
    /\ SyncNow
    /\ Return
    /\ IF call = "load" THEN trail' = run /\ UNCHANGED clean
                        ELSE clean' = TRUE /\ UNCHANGED trail
    /\ run' = <<>>
    /\ UNCHANGED <<mem, walOn, snapVars, faults>>

-----------------------------------------------------------------------------
(* insert and delete *)

\* Without a log the mutation goes to memory alone; one the index rejects
\* changes nothing.
MutateUnlogged(m) ==
    /\ pc = "idle" /\ ~walOn /\ "mutate" \in Events
    /\ Accepts(mem, m)
    /\ mem' = Apply(mem, m)
    /\ UNCHANGED <<pc, opVars, walOn, snapVars, run, trail, clean, faults, walVars>>

BeginMutate(m) ==
    /\ pc = "idle" /\ walOn /\ "mutate" \in Events
    /\ Len(wal) < MaxLog
    /\ Start("mutate", "head") /\ mut' = m /\ mark' = Len(wal)
    /\ UNCHANGED <<mem, walOn, snapVars, run, trail, clean, faults, walVars>>

\* commit_record: the frame's head, its body, and a sync if one is due.
PutHead ==
    /\ pc = "head" /\ pc' = "body"
    /\ WriteFrameHead
    /\ UNCHANGED <<opVars, mem, walOn, snapVars, run, trail, clean, faults>>

PutBody ==
    /\ pc = "body" /\ pc' = "sync"
    /\ WriteFrameBody(mut)
    /\ UNCHANGED <<opVars, mem, walOn, snapVars, run, trail, clean, faults>>

SyncRecord ==
    /\ pc = "sync" /\ pc' = "apply"
    /\ \E due \in SyncDue : IF due THEN SyncNow ELSE UNCHANGED walVars
    /\ UNCHANGED <<opVars, mem, walOn, snapVars, run, trail, clean, faults>>

\* What parse_records and replay let pass, whatever the index is.
Restorable(m) == m \in Readable /\ FitsDim(m)

\* Only now is the mutation applied in memory and acknowledged, whether or
\* not its record is one that load could bring back.
ApplyOk ==
    /\ pc = "apply" /\ Accepts(mem, mut)
    /\ mem' = Apply(mem, mut)
    /\ trail' = Append(trail, mem')
    /\ Return
    /\ clean' = (clean /\ Restorable(mut))
    /\ UNCHANGED <<walOn, snapVars, run, faults, walVars>>

\* The index rejects it: the record is taken back from the log.
ApplyRejected ==
    /\ pc = "apply" /\ ~Accepts(mem, mut) /\ pc' = "rollback"
    /\ UNCHANGED <<opVars, mem, walOn, snapVars, run, trail, clean, faults, walVars>>

\* Variant: the record stays.
RollbackNothing ==
    /\ pc = "rollback" /\ pc' = "rbSync"
    /\ UNCHANGED <<opVars, mem, walOn, snapVars, run, trail, clean, faults, walVars>>

Rollback ==
    /\ pc = "rollback" /\ pc' = "rbSync"
    /\ SetLen(mark)
    /\ UNCHANGED <<opVars, mem, walOn, snapVars, run, trail, clean, faults>>

RollbackSync ==
    /\ pc = "rbSync"
    /\ SyncNow
    /\ Return
    /\ UNCHANGED <<mem, walOn, snapVars, run, trail, clean, faults>>

\* A mutation through index_mut: in memory only.
Bypass(m) ==
    /\ pc = "idle" /\ walOn /\ "bypass" \in Events
    /\ Accepts(mem, m)
    /\ mem' = Apply(mem, m)
    /\ clean' = FALSE
    /\ UNCHANGED <<pc, opVars, walOn, snapVars, run, trail, faults, walVars>>

-----------------------------------------------------------------------------
(* load *)

\* load reconstructs the index from the snapshot (a file it rejects returns
\* an error and changes nothing) and, with the log enabled, replays the log.
Load(w) ==
    /\ pc = "down" /\ snap \in Index
    /\ mem' = snap /\ walOn' = w
    /\ IF w THEN Start("load", "parse") /\ run' = <<snap>> /\ UNCHANGED mut
            ELSE Start("none", "idle") /\ mut' = NoMut /\ UNCHANGED run
    /\ UNCHANGED <<mark, snapVars, trail, clean, faults, walVars>>

\* parse_records reads and decodes the whole file before anything is applied.
Parse(verdict) ==
    /\ pc = "parse"
    /\ verdict \in (IF walExists THEN HeaderVerdicts(wal) ELSE {"none"})
    /\ IF verdict = "bad" \/ (verdict = "good" /\ DecodeFails(wal))
         THEN Abort
         ELSE /\ pc' = (IF verdict = "good" THEN "replay" ELSE "attach")
              /\ UNCHANGED <<opVars, mem, run>>
    /\ UNCHANGED <<walOn, snapVars, trail, clean, faults, walVars>>

Replayable(s, m) == FitsDim(m) /\ Accepts(s, m)

\* Variant: the parser's position does not advance.
ReplayStuck ==
    /\ pc = "replay" /\ FrameAt(wal, Len(run) + 1)
    /\ IF Replayable(mem, wal[Len(run) + 1])
         THEN UNCHANGED <<pc, opVars, mem, run>>
         ELSE Abort
    /\ UNCHANGED <<walOn, snapVars, trail, clean, faults, walVars>>

\* The next record is the frame at Len(run) + 1.  One that does not fit the
\* index makes load fail.
Replay ==
    LET m == wal[Len(run) + 1]
    IN  /\ pc = "replay" /\ FrameAt(wal, Len(run) + 1)
        /\ IF Replayable(mem, m)
             THEN /\ mem' = Apply(mem, m)
                  /\ run' = Append(run, mem')
                  /\ UNCHANGED <<pc, opVars>>
             ELSE Abort
        /\ UNCHANGED <<walOn, snapVars, trail, clean, faults, walVars>>

ReplayEnd ==
    /\ pc = "replay" /\ ~FrameAt(wal, Len(run) + 1) /\ pc' = "attach"
    /\ UNCHANGED <<opVars, mem, walOn, snapVars, run, trail, clean, faults, walVars>>

\* open_for_append: go on behind the last byte of an existing file, whatever
\* it is; start a missing one.
Attach ==
    /\ pc = "attach"
    /\ IF walExists
         THEN /\ Return /\ trail' = run /\ run' = <<>> /\ synced' = FALSE
              /\ UNCHANGED <<walExists, walLinked, wal, walSurv>>
         ELSE /\ pc' = "header" /\ CreateEmpty
              /\ UNCHANGED <<opVars, run, trail>>
    /\ UNCHANGED <<mem, walOn, snapVars, clean, faults>>

-----------------------------------------------------------------------------
(* Failures and the end of the process *)

Fault == faults < MaxFaults /\ faults' = faults + 1

\* The system call at pc returns an error, which `?' hands to the caller.
\* Writes may have written their first bytes.  write_atomic removes its
\* temporary file; nothing else is undone.
IoFails ==
    /\ "io" \in Events /\ Fault
    /\ pc \in Pcs \ {"down", "idle", "apply", "replay"}
    /\ pc = "sync" => TRUE \in SyncDue
    /\ pc = "dirSync" => Policy # "Never"
    /\ CASE pc = "header" -> PutFails(PartHeader)
         [] pc = "head" -> PutFails(Torn)
         [] OTHER -> UNCHANGED walVars
    /\ Abort
    /\ clean' = (clean /\ pc \in Quiet /\ wal' = wal)
    /\ UNCHANGED <<walOn, snapVars, trail>>

\* Nothing in memory survives.  `mut' is kept to say what was in flight.
LoseProcess ==
    /\ pc' = "down" /\ call' = "none" /\ mark' = 0
    /\ mem' = NoIndex /\ run' = <<>>
    /\ UNCHANGED <<mut, walOn, trail>>

\* The handle is dropped: there is no Drop impl, nothing is written.
Drop ==
    /\ "drop" \in Events /\ pc = "idle"
    /\ LoseProcess /\ WalKill
    /\ UNCHANGED <<snapVars, clean, faults>>

Kill ==
    /\ "kill" \in Events /\ pc # "down" /\ Fault
    /\ LoseProcess /\ WalKill
    /\ clean' = (clean /\ pc \in Quiet)
    /\ UNCHANGED snapVars

PowerLoss ==
    /\ "power" \in Events /\ Fault
    /\ LoseProcess /\ WalPowerLoss
    /\ snap' \in snapSurv /\ snapSurv' = {snap'}
    /\ clean' = (clean /\ pc \in Quiet /\ walLinked
                   /\ walSurv = {wal} /\ snapSurv = {snap})

-----------------------------------------------------------------------------
StartUp == \E w \in Modes : Load(w) \/ \E s \in Bases : OpenWith(s, w)
WriteSnapshot == WriteTemp \/ Rename \/ DirSync
StartLog == CreateLog \/ ResetLog \/ PutHeader \/ HeaderSync
Mutate == \E m \in Mutation : BeginMutate(m) \/ MutateUnlogged(m) \/ Bypass(m)
LogRecord == PutHead \/ PutBody \/ SyncRecord
ApplyRecord == ApplyOk \/ ApplyRejected \/ Rollback \/ RollbackSync
Recover ==
    \/ \E v \in {"none", "good", "bad"} : Parse(v)
    \/ Replay \/ ReplayEnd \/ Attach

\* The rest of a call, once it has been made.
Proceed == WriteSnapshot \/ StartLog \/ LogRecord \/ ApplyRecord \/ Recover

Next ==
    \/ StartUp \/ BeginSave \/ BeginCheckpoint \/ Mutate
    \/ Proceed
    \/ IoFails \/ Drop \/ Kill \/ PowerLoss

Spec == Init /\ [][Next]_vars

\* A call runs on the caller's thread until it returns: a process that is
\* scheduled at all takes its next step.  Callers owe nothing.
FairSpec == Spec /\ WF_vars(Proceed)

-----------------------------------------------------------------------------
(* What the disk holds of the acknowledged states *)

\* Replaying frames 2, 3, ... of w from t[1] passes through the states of t.
Chain(t, w) ==
    \A i \in 1..(Len(t) - 1) :
        /\ w[i + 1] \in Readable
        /\ Replayable(t[i], w[i + 1])
        /\ t[i + 1] = Apply(t[i], w[i + 1])

\* Log w has a header and leads from t[1] through every state of t.
Covers(w, t) ==
    /\ Len(w) >= Len(t) /\ Len(t) >= 1
    /\ w[1] = Header
    /\ Chain(t, w)

\* Snapshot and log restore every acknowledged state ...
Backed == walExists /\ trail # <<>> /\ snap = trail[1] /\ Covers(wal, trail)

\* ... and nothing else.
Exact == Backed /\ Len(wal) = Len(trail)

-----------------------------------------------------------------------------
(* Properties *)

\* Type correctness; a handle exists exactly while its process runs.
TypeOK ==
    /\ pc \in Pcs /\ call \in Calls
    /\ mut \in Mutation \cup {NoMut}
    /\ mark \in Nat
    /\ mem \in Index \cup {NoIndex}
    /\ walOn \in BOOLEAN
    /\ snap \in Index \cup {NoSnap, Corrupt}
    /\ snapSurv \subseteq Index \cup {NoSnap, Corrupt}
    /\ run \in Seq(Index) /\ trail \in Seq(Index)
    /\ clean \in BOOLEAN /\ faults \in Nat
    /\ WalTypeOK
    /\ pc = "down" <=> mem = NoIndex

\* insert and delete log before they apply: when the index is asked, the
\* log ends with the whole frame of this mutation, directly behind the mark
\* that a rejection rolls back to, and under Always no power loss can take
\* any of the log away.
LoggedBeforeApplied ==
    pc = "apply" => /\ Len(wal) = mark + 1 /\ wal[Len(wal)] = mut
                    /\ Policy = "Always" => walSurv = {wal}

\* "The WAL stays exactly in step with the index": between calls, and
\* wherever a crash leaves snapshot and log untouched, the log leads from
\* the snapshot through exactly the acknowledged states, and memory holds
\* the last of them -- across rollbacks, checkpoints and restarts, until an
\* event that `clean' records.
InStep ==
    clean /\ pc \in Quiet =>
        /\ Exact
        /\ pc = "idle" /\ walOn => mem = Last(trail)

\* A load that returns an index has passed through every acknowledged state
\* that the disk still leads to, whatever else the log holds; if it holds
\* nothing else, the load ends in exactly the last acknowledged state.
LoadReturns == call = "load" /\ pc # "idle" /\ pc' = "idle"
RecoveryKeepsAcked ==
    [][LoadReturns /\ Backed =>
          /\ Len(trail) <= Len(trail')
          /\ SubSeq(trail', 1, Len(trail)) = trail
          /\ Exact => trail' = trail]_vars

\* Whatever a power loss leaves under Always, at any point of any call, a
\* snapshot and a log remain that hold the last acknowledged state (or the
\* new snapshot the running call is writing) -- no order of snapshot rename,
\* directory sync and log truncation opens a gap.
PowerLossKeepsAcked ==
    clean /\ Policy = "Always" =>
        \A s \in snapSurv, w \in walSurv :
            \/ s = Last(trail)
            \/ pc = "dirSync" /\ s = mem
            \/ s = trail[1] /\ Covers(w, trail)

\* Where nothing fails the log needs no excuse: whatever mutations (accepted
\* and rejected), checkpoints and restarts came before, a load returns the
\* index that the previous process had acknowledged, no mutation lost and
\* none applied twice -- unless one was acknowledged that load cannot bring
\* back.  If the first such record is one of another dimension every load
\* fails; if it is too long, load silently returns the state before it.
StopsAt(w, u) ==
    /\ \A i \in 2..(u - 1) : Restorable(w[i])
    /\ u <= Len(w) => ~Restorable(w[u])
RestartRestores ==
    [][faults' = 0 /\ call = "load" /\ call' # "load" =>
          \A u \in 2..(Len(wal) + 1) : StopsAt(wal, u) =>
              IF u <= Len(wal) /\ wal[u] \in Readable
                THEN pc' = "down"
                ELSE /\ pc' = "idle"
                     /\ u - 1 <= Len(trail) /\ mem' = trail[u - 1]
                     /\ u > Len(wal) => mem' = Last(trail) /\ Exact']_vars

\* Every call returns or its process ends: no content that crashes and errors
\* can give the log keeps parsing or replay from coming to an end.
CallReturns == pc \notin {"idle", "down"} ~> pc \in {"idle", "down"}

-----------------------------------------------------------------------------
(* Claims of the documentation that the code breaks when calls are cut     *)
(* short; README.md quotes each of them.                                   *)

\* "An acknowledged insert survives a crash": behind a good header, the
\* frames of the acknowledged mutations are where replay finds them.
AckedFramesReachable ==
    pc = "idle" /\ walOn /\ wal # <<>> /\ wal[1] = Header => Covers(wal, trail)

\* "A WAL file is a fixed header followed by a sequence of frames": a log
\* that accepts mutations starts with its header.
LogStartsWithHeader ==
    pc = "idle" /\ walOn => wal # <<>> /\ wal[1] = Header

\* Snapshot and log "never double-count a mutation on the next load" after
\* a checkpoint: if the snapshot is the acknowledged state, load ends there,
\* or one further if a mutation was in flight.
CheckpointNeverDoubleCounts ==
    pc = "attach" /\ trail = <<snap>> =>
        mem = snap \/ (mut # NoMut /\ mem = Apply(snap, mut))

\* A rejected record "is rolled back so the WAL stays exactly in step":
\* every record that load finds in the log can be applied.
LoggedFramesReplay ==
    pc = "replay" /\ FrameAt(wal, Len(run) + 1) =>
        Replayable(mem, wal[Len(run) + 1])

\* "Logged and fsynced": the file that holds acknowledged mutations is
\* still there after a power loss.
AckedLogOnDisk == pc = "down" /\ Len(trail) > 1 => walExists

\* "If any step fails ... the original target is left byte-for-byte intact":
\* between calls the snapshot is the last one a save or checkpoint reported
\* written, not one whose write returned an error.
FailedSaveKeepsSnapshot == pc = "idle" /\ walOn => snap = trail[1]
=============================================================================
