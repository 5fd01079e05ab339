-------------------------- MODULE StoredIndexProofs --------------------------
(***************************************************************************)
(* The window of the Periodic policy, for every index, record, interval    *)
(* and bound.  It needs nothing of what the bytes of files decode to; that *)
(* is the subject of StoredIndexRecovery.                                  *)
(***************************************************************************)
EXTENDS StoredIndex, TLAPS

\* The times of the clock, the last sync and the unsynced mutations.
ClockTypes ==
    /\ now \in Nat
    /\ lastFsync \in Nat \cup {None}
    /\ unsynced \in SUBSET Nat

\* Without a handle nobody remembers a sync.
SyncRemembered == pc # "up" => lastFsync = None

\* Nothing was acknowledged later than now.
NothingAhead == \A t \in unsynced : t <= now

\* What a handle that has synced did not sync since is not older than its
\* last sync, and was acknowledged before the next one was due.
SinceLastFsync ==
    lastFsync # None =>
        /\ lastFsync <= now
        /\ \A t \in unsynced : lastFsync <= t /\ t < lastFsync + Interval

WindowInv ==
    ClockTypes /\ SyncRemembered /\ NothingAhead /\ SinceLastFsync /\ WindowBounded

USE DEF ClockTypes, SyncRemembered, NothingAhead, SinceLastFsync, WindowBounded

-----------------------------------------------------------------------------
\* A sync empties the window (Wal::sync_now, wal.rs).
LEMMA SyncClosesWindow ==
    ASSUME WindowInv, SyncNow, now' = now, pc' = "up"
    PROVE  WindowInv'
BY StoredAssumption DEF WindowInv, SyncNow

\* A mutation that is not synced is within an interval of the last sync,
\* and so of every other one that is not (Wal::maybe_sync, wal.rs).
LEMMA MutateKeepsWindow ==
    ASSUME WindowInv, NEW r \in Records, Mutate(r)
    PROVE  WindowInv'
<1>1. pc = "up" /\ pc' = "up" /\ now' = now
  BY DEF Mutate, MayAppend
<1>2. CASE SyncDue
  BY <1>1, <1>2, SyncClosesWindow DEF Mutate
<1>3. CASE ~SyncDue
  <2>1. /\ unsynced' = unsynced \cup {now} /\ lastFsync' = lastFsync
        /\ lastFsync # None /\ now < lastFsync + Interval
    BY <1>3, StoredAssumption DEF Mutate, SyncDue, WindowInv
  <2>2. ClockTypes' /\ SyncRemembered' /\ NothingAhead'
    BY <1>1, <2>1 DEF WindowInv
  <2>3. SinceLastFsync'
    BY <1>1, <2>1, StoredAssumption DEF WindowInv
  <2>4. WindowBounded'
    <3>1. lastFsync \in Nat
      BY <2>1 DEF WindowInv
    <3> QED BY <2>2, <2>3, <2>1, <3>1, StoredAssumption
  <2> QED BY <2>2, <2>3, <2>4 DEF WindowInv
<1> QED BY <1>2, <1>3

\* The end of a process takes the memory of its last sync along and leaves
\* the window as it is, or, where the machine goes down, empty.
LEMMA EndKeepsWindow ==
    ASSUME WindowInv, lastFsync' = None, pc' # "up",
           \/ unsynced' = unsynced /\ now' = now
           \/ unsynced' = {} /\ now' = 0
    PROVE  WindowInv'
<1>1. SyncRemembered' /\ SinceLastFsync'
  OBVIOUS
<1>2. CASE unsynced' = unsynced /\ now' = now
  BY <1>1, <1>2, StoredAssumption DEF WindowInv
<1>3. CASE unsynced' = {} /\ now' = 0
  BY <1>1, <1>3 DEF WindowInv
<1> QED BY <1>2, <1>3

\* A load, and a handle continued behind what it read (open_for_append).
LEMMA LoadKeepsWindow ==
    ASSUME WindowInv, (\E cfg \in Configs : LoadIndex(cfg)) \/ OpenForAppend
    PROVE  WindowInv'
<1>1. CASE \E cfg \in Configs : LoadIndex(cfg)
  <2>1. PICK cfg \in Configs : LoadIndex(cfg)
    BY <1>1
  <2>2. pc \in {"down", "failed"} /\ UNCHANGED clockVars
    BY <2>1 DEF LoadIndex
  <2>3. pc' # "up"
    BY <2>1 DEF LoadIndex, Replay
  <2> QED BY <2>2, <2>3 DEF WindowInv, clockVars
<1>2. CASE OpenForAppend
  <2>1. CASE logFile = None
    BY <1>2, <2>1, SyncClosesWindow DEF OpenForAppend
  <2>2. CASE logFile # None
    BY <1>2, <2>2 DEF OpenForAppend, WindowInv
  <2> QED BY <2>1, <2>2
<1> QED BY <1>1, <1>2

LEMMA WindowInit == Init => WindowInv
BY StoredAssumption DEF Init, WindowInv

LEMMA WindowStep == WindowInv /\ [Next]_vars => WindowInv'
<1> SUFFICES ASSUME WindowInv, [Next]_vars PROVE WindowInv'
  OBVIOUS
<1>1. CASE OpenWith \/ Checkpoint
  BY <1>1, SyncClosesWindow DEF OpenWith, Checkpoint, WriteBoth
<1>2. CASE FindLegacy \/ Stop
  BY <1>2, EndKeepsWindow DEF FindLegacy, Stop, NoHandle
<1>3. CASE Tick
  BY <1>3, StoredAssumption DEF Tick, WindowInv, handleVars
<1>4. ASSUME NEW r \in Records, Mutate(r) PROVE WindowInv'
  BY <1>4, MutateKeepsWindow
<1>5. ASSUME NEW r \in Records, NEW k \in 1..Len(Frame(r)), KillInAppend(r, k)
      PROVE  WindowInv'
  BY <1>5, EndKeepsWindow DEF KillInAppend, NoHandle
<1>6. ASSUME NEW k, NEW zeros, PowerLoss(k, zeros) PROVE WindowInv'
  BY <1>6, EndKeepsWindow DEF PowerLoss, NoHandle, Reboot
<1>7. CASE DamageSnapshot \/ DamageLog
  <2>1. pc = "down" /\ pc' = pc /\ lastFsync' = lastFsync /\ unsynced' = {} /\ now' = 0
    BY <1>7 DEF DamageSnapshot, DamageLog, Reboot, handleVars
  <2> QED BY <2>1, EndKeepsWindow DEF WindowInv
<1>8. CASE (\E cfg \in Configs : LoadIndex(cfg)) \/ OpenForAppend
  BY <1>8, LoadKeepsWindow
<1>9. CASE WriteRefused \/ UNCHANGED vars
  BY <1>9 DEF WriteRefused, vars, handleVars, clockVars, WindowInv
<1> QED BY <1>1, <1>2, <1>3, <1>4, <1>5, <1>6, <1>7, <1>8, <1>9 DEF Next

\* Under Periodic, whatever the kills, restarts and power losses: the
\* acknowledged mutations that are not yet on disk were made within one
\* interval of each other (FsyncPolicy::Periodic, config.rs).
THEOREM WindowStaysBounded == Spec => []WindowBounded
<1>1. WindowInv => WindowBounded
  BY DEF WindowInv
<1> QED BY WindowInit, WindowStep, <1>1, PTL DEF Spec
=============================================================================
