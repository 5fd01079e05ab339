----------------------------- MODULE AtomicWrite -----------------------------
(***************************************************************************)
(* StdFsStorage::write_atomic (src/storage.rs): savers that write the same *)
(* snapshot file, concurrently, each through a temporary file of its own   *)
(* beside it.  Every system call may fail, every process may be killed     *)
(* between two of them, and the machine may lose power.                    *)
(*                                                                         *)
(* A temporary name holds the process id and the clock; nothing but        *)
(* create_new keeps two savers, or a saver and what a dead process left    *)
(* behind, from meeting on one, so Names is a small set that they share.   *)
(***************************************************************************)
EXTENDS Naturals, Sequences

CONSTANTS
    Saver,
    Value,      \* the images savers write
    Names,      \* temporary file names
    Partial,    \* the content of a file that is not wholly written, or
                \* whose data a power loss took
    NoFile,     \* no such file
    Unsynced,   \* the savers whose fsync_policy is Never
    MaxHistory, \* bound: a save starts while Len(history) < MaxHistory
    MaxFaults   \* bound: failed calls, kills and power losses in a behaviour

ASSUME ValueAssumption == Partial \notin Value /\ NoFile \notin Value \cup {Partial}
ASSUME UnsyncedAssumption == Unsynced \subseteq Saver
ASSUME AtomicBoundAssumption == MaxHistory \in Nat /\ MaxFaults \in Nat

VARIABLES
    step,      \* step[p]: the system call p makes next, "idle" outside one
    image,     \* image[p]: the payload p writes
    name,      \* name[p]: the temporary name p writes to
    flushed,   \* flushed[p]: p has synced its temporary file
    temp,      \* temp[n]: the content of temporary file n, or NoFile
    history,   \* the contents of the target; the last one is current
    durable,   \* a power loss leaves one of durable..Len(history) ...
    soft,      \* ... but not the data of these, which were never synced
    author,    \* author[k]: the saver of history[k]; nobody saved the first
    at,        \* at[p]: where in history p's running save stands, or 0
    result,    \* result[p]: what p's last save returned, "none" if it did not
    faults

fileVars == <<temp, history, durable, soft, author>>
vars == <<step, image, name, flushed, fileVars, at, result, faults>>

Steps == {"idle", "create", "write", "sync", "rename", "dirSync", "remove"}

Results == {"none", "ok", "error"}

Init ==
    /\ step = [p \in Saver |-> "idle"]
    /\ image \in [Saver -> Value] /\ name \in [Saver -> Names]
    /\ flushed = [p \in Saver |-> FALSE]
    /\ temp = [n \in Names |-> NoFile]
    /\ history = <<NoFile>> /\ durable = 1 /\ soft = {} /\ author = <<NoFile>>
    /\ at = [p \in Saver |-> 0] /\ result = [p \in Saver |-> "none"]
    /\ faults = 0

Goto(p, s) == step' = [step EXCEPT ![p] = s]

\* The call returns r, or its process ends.
Leave(p, r) ==
    /\ Goto(p, "idle")
    /\ at' = [at EXCEPT ![p] = 0] /\ result' = [result EXCEPT ![p] = r]

Fault == faults < MaxFaults /\ faults' = faults + 1

-----------------------------------------------------------------------------
Begin(p, v, n) ==
    /\ step[p] = "idle" /\ Len(history) < MaxHistory
    /\ Goto(p, "create")
    /\ image' = [image EXCEPT ![p] = v] /\ name' = [name EXCEPT ![p] = n]
    /\ flushed' = [flushed EXCEPT ![p] = FALSE]
    /\ result' = [result EXCEPT ![p] = "none"]
    /\ UNCHANGED <<fileVars, at, faults>>

\* Variant: create instead of create_new.
CreateTempShared(p) ==
    /\ step[p] = "create" /\ Goto(p, "write")
    /\ temp' = [temp EXCEPT ![name[p]] = Partial]
    /\ UNCHANGED <<image, name, flushed, history, durable, soft, author, at, result, faults>>

\* create_new: a new, empty file, or an error if the name is taken.
CreateTemp(p) ==
    /\ step[p] = "create"
    /\ IF temp[name[p]] = NoFile
         THEN /\ temp' = [temp EXCEPT ![name[p]] = Partial]
              /\ Goto(p, "write") /\ UNCHANGED <<at, result>>
         ELSE Leave(p, "error") /\ UNCHANGED temp
    /\ UNCHANGED <<image, name, flushed, history, durable, soft, author, faults>>

WriteTemp(p) ==
    /\ step[p] = "write" /\ Goto(p, "sync")
    /\ temp' = [temp EXCEPT ![name[p]] = image[p]]
    /\ UNCHANGED <<image, name, flushed, history, durable, soft, author, at, result, faults>>

\* Variant: no sync of the file, under any policy.
SyncTempSkipped(p) ==
    /\ step[p] = "sync" /\ Goto(p, "rename")
    /\ UNCHANGED <<image, name, flushed, fileVars, at, result, faults>>

\* Only Never skips the sync of the file.
SyncTemp(p) ==
    /\ step[p] = "sync" /\ Goto(p, "rename")
    /\ flushed' = [flushed EXCEPT ![p] = p \notin Unsynced]
    /\ UNCHANGED <<image, name, fileVars, at, result, faults>>

\* Variant: the old file is removed before the new one is given its name.
RenameOverRemoved(p) ==
    /\ step[p] = "rename" /\ Goto(p, "dirSync")
    /\ history' = history \o <<NoFile, temp[name[p]]>>
    /\ author' = author \o <<p, p>>
    /\ soft' = (IF flushed[p] THEN soft ELSE soft \cup {Len(history')})
    /\ temp' = [temp EXCEPT ![name[p]] = NoFile]
    /\ at' = [at EXCEPT ![p] = Len(history')]
    /\ UNCHANGED <<image, name, flushed, durable, result, faults>>

Rename(p) ==
    /\ step[p] = "rename" /\ Goto(p, "dirSync")
    /\ history' = Append(history, temp[name[p]]) /\ author' = Append(author, p)
    /\ soft' = (IF flushed[p] THEN soft ELSE soft \cup {Len(history')})
    /\ temp' = [temp EXCEPT ![name[p]] = NoFile]
    /\ at' = [at EXCEPT ![p] = Len(history')]
    /\ UNCHANGED <<image, name, flushed, durable, result, faults>>

\* Variant: no directory sync.
SyncDirSkipped(p) ==
    /\ step[p] = "dirSync" /\ Leave(p, "ok")
    /\ UNCHANGED <<image, name, flushed, fileVars, faults>>

\* The directory sync, skipped under Never, makes every rename before it
\* durable, whoever made it.
SyncDir(p) ==
    /\ step[p] = "dirSync" /\ Leave(p, "ok")
    /\ durable' = (IF p \in Unsynced THEN durable ELSE Len(history))
    /\ UNCHANGED <<image, name, flushed, temp, history, soft, author, faults>>

-----------------------------------------------------------------------------
\* A call fails.  What was written before the rename is to be removed; an
\* error of create_new or of the directory sync goes straight to the caller.
Fails(p) ==
    /\ Fault
    /\ p \in Unsynced => step[p] \notin {"sync", "dirSync"}
    /\ \/ /\ step[p] \in {"write", "sync", "rename"}
          /\ Goto(p, "remove") /\ UNCHANGED <<at, result>>
       \/ step[p] \in {"create", "dirSync"} /\ Leave(p, "error")
    /\ UNCHANGED <<image, name, flushed, fileVars>>

RemoveTemp(p) ==
    /\ step[p] = "remove" /\ Leave(p, "error")
    /\ temp' = [temp EXCEPT ![name[p]] = NoFile]
    /\ UNCHANGED <<image, name, flushed, history, durable, soft, author, faults>>

\* An error of remove_file is ignored: the temporary file stays.
RemoveFails(p) ==
    /\ Fault
    /\ step[p] = "remove" /\ Leave(p, "error")
    /\ UNCHANGED <<image, name, flushed, fileVars>>

Kill(p) ==
    /\ Fault
    /\ step[p] # "idle" /\ Leave(p, "none")
    /\ UNCHANGED <<image, name, flushed, fileVars>>

\* The target goes back to a content that no directory sync had fixed, or
\* stays; data that was never synced may be gone.  A temporary file may be
\* there or not.
PowerLoss ==
    /\ Fault
    /\ \E k \in durable..Len(history) :
          \/ history' = SubSeq(history, 1, k)
          \/ k \in soft /\ history' = Append(SubSeq(history, 1, k - 1), Partial)
    /\ durable' = Len(history') /\ soft' = {}
    /\ author' = SubSeq(author, 1, Len(history'))
    /\ temp' \in {t \in [Names -> {NoFile, Partial}] :
                     \A n \in Names : temp[n] = NoFile => t[n] = NoFile}
    /\ step' = [p \in Saver |-> "idle"] /\ at' = [p \in Saver |-> 0]
    /\ result' = [p \in Saver |-> IF step[p] = "idle" THEN result[p] ELSE "none"]
    /\ UNCHANGED <<image, name, flushed>>

Next ==
    \/ \E p \in Saver, v \in Value, n \in Names : Begin(p, v, n)
    \/ \E p \in Saver :
          \/ CreateTemp(p) \/ WriteTemp(p) \/ SyncTemp(p) \/ Rename(p) \/ SyncDir(p)
          \/ Fails(p) \/ RemoveTemp(p) \/ RemoveFails(p) \/ Kill(p)
    \/ PowerLoss

Spec == Init /\ [][Next]_vars

-----------------------------------------------------------------------------
(* Properties *)

\* Type correctness; the target, once a save has made it, is never missing.
AtomicTypeOK ==
    /\ step \in [Saver -> Steps]
    /\ image \in [Saver -> Value] /\ name \in [Saver -> Names]
    /\ temp \in [Names -> Value \cup {Partial, NoFile}]
    /\ history \in Seq(Value \cup {Partial, NoFile}) /\ history # <<>>
    /\ \A k \in 2..Len(history) : history[k] # NoFile
    /\ author \in Seq(Saver \cup {NoFile}) /\ Len(author) = Len(history)
    /\ durable \in 1..Len(history)
    /\ soft \subseteq 1..Len(history)
    /\ flushed \in [Saver -> BOOLEAN] /\ at \in [Saver -> Nat]
    /\ result \in [Saver -> Results]
    /\ faults \in Nat

\* Between create_new and its rename a saver has its temporary file to
\* itself, even when names collide or a dead process left one behind: what
\* it renames over the target is its own image, whole.
Writing(p) == step[p] \in {"write", "sync", "rename", "remove"}
TempIsOwn ==
    /\ \A p, q \in Saver : Writing(p) /\ Writing(q) /\ p # q => name[p] # name[q]
    /\ \A p \in Saver : Writing(p) => temp[name[p]] # NoFile
    /\ \A p \in Saver : step[p] \in {"sync", "rename"} => temp[name[p]] = image[p]

\* "Readers see either the old file or the new one, never a half-written
\* mix": the target is whole at every moment, under every failure and crash.
\* Only a power loss may leave an image without its data, and only an image
\* whose own saver runs under Never, whatever the others do.
TargetWhole ==
    \A k \in 1..Len(history) :
        history[k] = Partial => author[k] \in Unsynced /\ k <= durable

\* The target is an atomic register: a save takes effect at one instant or
\* not at all, and once a save that syncs has returned Ok no power loss goes
\* back behind it, whichever other savers run.
Register == INSTANCE SnapshotRegister
              WITH active <- {p \in Saver : step[p] # "idle"}, done <- at, weak <- soft
IsRegister == Register!Spec
=============================================================================
