------------------------ MODULE PersistedIndexProofs ------------------------
(***************************************************************************)
(* Theorems about PersistedIndex, for every index, policy, set of events   *)
(* and bound.                                                              *)
(***************************************************************************)
EXTENDS PersistedIndex, SequenceTheorems, TLAPS

USE IndexAssumption, BoundAssumption, PolicyAssumption

-----------------------------------------------------------------------------
(* What the steps do to the log, a sequence of chunks *)

\* Writing at the end of the log (Put).
LEMMA PutChunk ==
    ASSUME NEW w \in Seq(Chunk), NEW c \in Chunk
    PROVE  /\ Append(w, c) \in Seq(Chunk)
           /\ Len(Append(w, c)) = Len(w) + 1
           /\ Append(w, c)[Len(w) + 1] = c
           /\ \A i \in 1..Len(w) : Append(w, c)[i] = w[i]
  BY AppendProperties

\* Completing the frame at the end of the log (WriteFrameBody).
LEMMA CompleteFrame ==
    ASSUME NEW w \in Seq(Chunk), NEW c \in Chunk, Len(w) > 0
    PROVE  LET v == [w EXCEPT ![Len(w)] = c]
           IN  /\ v \in Seq(Chunk)
               /\ Len(v) = Len(w)
               /\ v[Len(w)] = c
               /\ \A i \in 1..(Len(w) - 1) : v[i] = w[i]
  BY ExceptSeq

\* Cutting the log to its first n chunks (SetLen).
LEMMA CutLog ==
    ASSUME NEW w \in Seq(Chunk), NEW n \in 0..Len(w)
    PROVE  /\ SubSeq(w, 1, n) \in Seq(Chunk)
           /\ Len(SubSeq(w, 1, n)) = n
           /\ \A i \in 1..n : SubSeq(w, 1, n)[i] = w[i]
  BY SubSeqProperties

-----------------------------------------------------------------------------
(* Where each call stands *)

\* What the point a call has reached says of its variables and of the end of
\* the log.  TypeOK is not inductive without it: a rollback cuts the log at
\* the mark, which must lie inside it, and replay extends `run'.
Phase ==
    /\ call = "none" <=> pc \in {"down", "idle"}
    /\ pc \in {"temp", "rename", "dirSync"} => call \in {"open", "save", "checkpoint"}
    /\ pc = "create" => call = "open"
    /\ pc = "reset" => call = "checkpoint"
    /\ pc \in {"header", "headerSync"} => call \in {"open", "checkpoint", "load"}
    /\ pc \in {"head", "body", "sync", "apply", "rollback", "rbSync"} => call = "mutate"
    /\ pc \in {"head", "body", "sync", "apply", "rollback"} => mut \in Mutation
    /\ pc = "head" => Len(wal) = mark
    /\ pc \in {"body", "sync", "apply", "rollback"} => Len(wal) = mark + 1
    /\ pc \in {"sync", "apply", "rollback"} => wal[Len(wal)] = mut
    /\ pc \in {"parse", "replay", "attach"} => call = "load"

\* TypeOK in parts: Boolean values need another prover than data, and each
\* part is disturbed by few of the actions.
BoolOK ==
    /\ walExists \in BOOLEAN /\ walLinked \in BOOLEAN /\ synced \in BOOLEAN
    /\ walOn \in BOOLEAN /\ clean \in BOOLEAN

LogOK == wal \in Seq(Chunk) /\ walSurv \subseteq Seq(Chunk)

HistoryOK == run \in Seq(Index) /\ trail \in Seq(Index)

DataOK ==
    /\ pc \in Pcs /\ call \in Calls
    /\ mut \in Mutation \cup {NoMut}
    /\ mark \in Nat /\ faults \in Nat
    /\ mem \in Index \cup {NoIndex}
    /\ snap \in Index \cup {NoSnap, Corrupt}
    /\ snapSurv \subseteq Index \cup {NoSnap, Corrupt}
    /\ pc = "down" <=> mem = NoIndex

TypeInv == BoolOK /\ LogOK /\ HistoryOK /\ DataOK /\ Phase

LEMMA MarkChunks == {Header, PartHeader, Torn, Zeros} \subseteq Chunk
  BY DEF Chunk, Mark

LEMMA TypeInit == Init => TypeInv
<1> SUFFICES ASSUME Init PROVE TypeInv
  OBVIOUS
<1>1. BoolOK
  BY Zenon DEF Init, WalInit, BoolOK
<1>2. LogOK /\ HistoryOK
  BY EmptySeq DEF Init, WalInit, LogOK, HistoryOK
<1>3. DataOK /\ Phase
  BY DEF Init, WalInit, DataOK, Phase, Pcs, Calls
<1>4. QED
  BY <1>1, <1>2, <1>3 DEF TypeInv

-----------------------------------------------------------------------------
(* The Boolean variables *)

LEMMA BoolStep == BoolOK /\ [Next]_vars => BoolOK'
<1> SUFFICES ASSUME BoolOK, [Next]_vars PROVE BoolOK'
  OBVIOUS
<1> USE DEF BoolOK, walVars, vars
<1>1. CASE UNCHANGED vars
  BY <1>1, Zenon
<1>2. CASE StartUp \/ BeginSave \/ BeginCheckpoint \/ Mutate
  BY <1>2, Zenon DEF StartUp, OpenWith, Load, BeginSave, BeginCheckpoint, Mutate,
                     BeginMutate, MutateUnlogged, Bypass
<1>3. CASE WriteSnapshot
  BY <1>3, Zenon DEF WriteSnapshot, WriteTemp, Rename, DirSync
<1>4. CASE StartLog
  BY <1>4, Zenon DEF StartLog, CreateLog, ResetLog, PutHeader, HeaderSync,
                     CreateEmpty, SetLen, WriteHeader, Put, SyncNow
<1>5. CASE LogRecord \/ ApplyRecord
  BY <1>5, Zenon DEF LogRecord, PutHead, PutBody, SyncRecord, WriteFrameHead, Put,
                     WriteFrameBody, SyncNow, ApplyRecord, ApplyOk, ApplyRejected,
                     Rollback, RollbackSync, SetLen
<1>6. CASE Recover
  BY <1>6, Zenon DEF Recover, Parse, Replay, ReplayEnd, Attach, CreateEmpty
<1>7. CASE IoFails \/ Drop \/ Kill \/ PowerLoss
  BY <1>7, Zenon DEF IoFails, PutFails, Put, Drop, Kill, WalKill, PowerLoss, WalPowerLoss,
                     LoseProcess
<1>8. QED
  BY <1>1, <1>2, <1>3, <1>4, <1>5, <1>6, <1>7 DEF Next, Proceed

-----------------------------------------------------------------------------
(* The log *)

LEMMA LogPut == \A c, part \in Chunk : LogOK /\ Put(c, part) => LogOK'
<1> SUFFICES ASSUME NEW c \in Chunk, NEW part \in Chunk, LogOK, Put(c, part)
             PROVE  LogOK'
  OBVIOUS
<1>1. \A x \in {c, part, Zeros} : Append(wal, x) \in Seq(Chunk)
  BY MarkChunks, PutChunk DEF LogOK
<1>2. QED
  BY <1>1 DEF Put, LogOK

LEMMA LogSetLen == \A n \in 0..Len(wal) : LogOK /\ SetLen(n) => LogOK'
<1> SUFFICES ASSUME NEW n \in 0..Len(wal), LogOK, SetLen(n)
             PROVE  LogOK'
  OBVIOUS
<1>1. SubSeq(wal, 1, n) \in Seq(Chunk)
  BY CutLog DEF LogOK
<1>2. QED
  BY <1>1 DEF SetLen, LogOK

LEMMA LogCreate == LogOK /\ CreateEmpty => LogOK'
<1>1. <<>> \in Seq(Chunk)
  BY EmptySeq
<1>2. QED
  BY <1>1 DEF CreateEmpty, LogOK

LEMMA LogSame == LogOK /\ UNCHANGED walVars => LogOK'
  BY DEF LogOK, walVars

LEMMA LogStep == TypeInv /\ [Next]_vars => LogOK'
<1> SUFFICES ASSUME TypeInv, [Next]_vars PROVE LogOK'
  OBVIOUS
<1>1. LogOK
  BY DEF TypeInv
<1>2. CASE UNCHANGED vars
  BY <1>1, <1>2, LogSame DEF vars
<1>3. CASE StartUp \/ BeginSave \/ BeginCheckpoint \/ Mutate
  BY <1>1, <1>3, LogSame DEF StartUp, OpenWith, Load, BeginSave, BeginCheckpoint,
     Mutate, BeginMutate, MutateUnlogged, Bypass
<1>4. CASE WriteSnapshot
  BY <1>1, <1>4, LogSame DEF WriteSnapshot, WriteTemp, Rename, DirSync, LogOK
<1>5. CASE StartLog
  <2>1. CASE CreateLog
    BY <1>1, <2>1, LogCreate DEF CreateLog
  <2>2. CASE ResetLog
    BY <1>1, <2>2, LogSetLen DEF ResetLog, LogOK
  <2>3. CASE PutHeader
    BY <1>1, <2>3, LogPut, MarkChunks DEF PutHeader, WriteHeader
  <2>4. CASE HeaderSync
    BY <1>1, <2>4 DEF HeaderSync, SyncNow, LogOK
  <2>5. QED
    BY <1>5, <2>1, <2>2, <2>3, <2>4 DEF StartLog
<1>6. CASE LogRecord
  <2>1. CASE PutHead
    BY <1>1, <2>1, LogPut, MarkChunks DEF PutHead, WriteFrameHead
  <2>2. CASE PutBody
    <3>1. mut \in Chunk /\ Len(wal) > 0
      BY <2>2 DEF PutBody, TypeInv, Phase, DataOK, Chunk
    <3>2. [wal EXCEPT ![Len(wal)] = mut] \in Seq(Chunk)
      BY <1>1, <3>1, CompleteFrame DEF LogOK
    <3>3. QED
      BY <1>1, <2>2, <3>2 DEF PutBody, WriteFrameBody, LogOK
  <2>3. CASE SyncRecord
    BY <1>1, <2>3, LogSame DEF SyncRecord, SyncNow, LogOK
  <2>4. QED
    BY <1>6, <2>1, <2>2, <2>3 DEF LogRecord
<1>7. CASE ApplyRecord
  <2>1. CASE ApplyOk \/ ApplyRejected
    BY <1>1, <2>1, LogSame DEF ApplyOk, ApplyRejected
  <2>2. CASE Rollback
    <3>1. mark \in 0..Len(wal)
      BY <2>2 DEF Rollback, TypeInv, Phase, DataOK
    <3>2. QED
      BY <1>1, <2>2, <3>1, LogSetLen DEF Rollback
  <2>3. CASE RollbackSync
    BY <1>1, <2>3 DEF RollbackSync, SyncNow, LogOK
  <2>4. QED
    BY <1>7, <2>1, <2>2, <2>3 DEF ApplyRecord
<1>8. CASE Recover
  <2>1. CASE ReplayEnd \/ Replay
    BY <1>1, <2>1, LogSame DEF Replay, ReplayEnd
  <2>2. ASSUME NEW v \in {"none", "good", "bad"}, Parse(v) PROVE LogOK'
    BY <1>1, <2>2, LogSame DEF Parse
  <2>3. CASE Attach
    BY <1>1, <2>3, LogCreate DEF Attach, LogOK
  <2>4. QED
    BY <1>8, <2>1, <2>2, <2>3 DEF Recover
<1>9. CASE IoFails
  <2>1. PutFails(PartHeader) \/ PutFails(Torn) \/ UNCHANGED walVars
    BY <1>9 DEF IoFails
  <2>2. QED
    BY <1>1, <2>1, LogPut, LogSame, MarkChunks DEF PutFails
<1>10. CASE Drop \/ Kill
  BY <1>1, <1>10 DEF Drop, Kill, WalKill, LogOK
<1>11. CASE PowerLoss
  <2>1. wal' \in walSurv \cup {<<>>} /\ walSurv' = {wal'}
    BY <1>11 DEF PowerLoss, WalPowerLoss
  <2>2. QED
    BY <1>1, <2>1, EmptySeq DEF LogOK
<1>12. QED
  BY <1>2, <1>3, <1>4, <1>5, <1>6, <1>7, <1>8, <1>9, <1>10, <1>11 DEF Next, Proceed

-----------------------------------------------------------------------------
(* The sequences of states *)

LEMMA HistoryStep == TypeInv /\ [Next]_vars => HistoryOK'
<1> SUFFICES ASSUME TypeInv, [Next]_vars PROVE HistoryOK'
  OBVIOUS
<1> USE DEF HistoryOK
<1>1. HistoryOK /\ <<>> \in Seq(Index)
  BY EmptySeq DEF TypeInv
<1>2. CASE UNCHANGED vars
  BY <1>1, <1>2 DEF vars
<1>3. CASE StartUp \/ BeginSave \/ BeginCheckpoint \/ Mutate
  <2>1. ASSUME NEW w \in Modes, Load(w) PROVE HistoryOK'
    <3>1. <<snap>> \in Seq(Index)
      BY <2>1 DEF Load
    <3>2. QED
      BY <1>1, <2>1, <3>1 DEF Load
  <2>2. QED
    BY <1>1, <1>3, <2>1 DEF StartUp, OpenWith, BeginSave, BeginCheckpoint, Mutate,
       BeginMutate, MutateUnlogged, Bypass
<1>4. CASE WriteSnapshot
  <2>1. CASE DirSync
    <3>1. mem \in Index
      BY <2>1 DEF DirSync, TypeInv, DataOK
    <3>2. QED
      BY <1>1, <2>1, <3>1 DEF DirSync
  <2>2. QED
    BY <1>1, <1>4, <2>1 DEF WriteSnapshot, WriteTemp, Rename
<1>5. CASE StartLog
  BY <1>1, <1>5 DEF StartLog, CreateLog, ResetLog, PutHeader, HeaderSync
<1>6. CASE LogRecord
  BY <1>1, <1>6 DEF LogRecord, PutHead, PutBody, SyncRecord
<1>7. CASE ApplyRecord
  <2>1. CASE ApplyOk
    <3>1. Apply(mem, mut) \in Index
      BY <2>1 DEF ApplyOk, TypeInv, DataOK, Phase
    <3>2. Append(trail, Apply(mem, mut)) \in Seq(Index)
      BY <1>1, <3>1, AppendProperties
    <3>3. QED
      BY <1>1, <2>1, <3>2 DEF ApplyOk
  <2>2. QED
    BY <1>1, <1>7, <2>1 DEF ApplyRecord, ApplyRejected, Rollback, RollbackSync
<1>8. CASE Recover
  <2>1. CASE Replay
    <3>1. CASE Replayable(mem, wal[Len(run) + 1])
      <4>1. Apply(mem, wal[Len(run) + 1]) \in Index
        BY <2>1, <3>1 DEF Replay, Replayable, FrameAt, Readable, TypeInv, DataOK, Phase
      <4>2. Append(run, Apply(mem, wal[Len(run) + 1])) \in Seq(Index)
        BY <1>1, <4>1, AppendProperties
      <4>3. QED
        BY <1>1, <2>1, <3>1, <4>2 DEF Replay
    <3>2. CASE ~Replayable(mem, wal[Len(run) + 1])
      BY <1>1, <2>1, <3>2 DEF Replay, Abort
    <3>3. QED
      BY <3>1, <3>2
  <2>2. QED
    BY <1>1, <1>8, <2>1 DEF Recover, Parse, ReplayEnd, Attach, Abort
<1>9. CASE IoFails
  BY <1>1, <1>9 DEF IoFails, Abort
<1>10. CASE Drop \/ Kill \/ PowerLoss
  BY <1>1, <1>10 DEF Drop, Kill, PowerLoss, LoseProcess
<1>11. QED
  BY <1>2, <1>3, <1>4, <1>5, <1>6, <1>7, <1>8, <1>9, <1>10 DEF Next, Proceed

-----------------------------------------------------------------------------
(* The other variables, action by action *)

LEMMA DataStep == TypeInv /\ [Next]_vars => DataOK' /\ Phase'
<1> SUFFICES ASSUME TypeInv, [Next]_vars PROVE DataOK' /\ Phase'
  OBVIOUS
<1> USE MarkChunks DEF TypeInv, LogOK, HistoryOK, DataOK, Phase, Pcs, Calls, Chunk,
                       walVars, snapVars, opVars, Start
<1>1. CASE UNCHANGED vars
  BY <1>1 DEF vars
<1>2. CASE StartUp \/ BeginSave \/ BeginCheckpoint \/ Mutate
  <2>1. ASSUME NEW w \in Modes, Load(w) PROVE DataOK' /\ Phase'
    BY <2>1 DEF Load
  <2>2. ASSUME NEW w \in Modes, NEW s \in Bases, OpenWith(s, w) PROVE DataOK' /\ Phase'
    BY <2>2 DEF OpenWith
  <2>3. CASE BeginSave \/ BeginCheckpoint
    BY <2>3 DEF BeginSave, BeginCheckpoint
  <2>4. ASSUME NEW m \in Mutation, BeginMutate(m) PROVE DataOK' /\ Phase'
    BY <2>4 DEF BeginMutate
  <2>5. ASSUME NEW m \in Mutation, MutateUnlogged(m) \/ Bypass(m) PROVE DataOK' /\ Phase'
    BY <2>5 DEF MutateUnlogged, Bypass
  <2>6. QED
    BY <1>2, <2>1, <2>2, <2>3, <2>4, <2>5 DEF StartUp, Mutate
<1>3. CASE WriteSnapshot
  <2>1. CASE WriteTemp
    BY <2>1 DEF WriteTemp
  <2>2. CASE Rename
    BY <2>2 DEF Rename
  <2>3. CASE DirSync
    BY <2>3 DEF DirSync, Return
  <2>4. QED
    BY <1>3, <2>1, <2>2, <2>3 DEF WriteSnapshot
<1>4. CASE StartLog
  <2>1. CASE CreateLog
    BY <2>1 DEF CreateLog, CreateEmpty
  <2>2. CASE ResetLog
    BY <2>2, CutLog DEF ResetLog, SetLen
  <2>3. CASE PutHeader
    BY <2>3 DEF PutHeader, WriteHeader, Put
  <2>4. CASE HeaderSync
    BY <2>4 DEF HeaderSync, SyncNow, Return
  <2>5. QED
    BY <1>4, <2>1, <2>2, <2>3, <2>4 DEF StartLog
<1>5. CASE LogRecord
  <2>1. CASE PutHead
    <3>1. Len(wal') = Len(wal) + 1
      BY <2>1, PutChunk DEF PutHead, WriteFrameHead, Put
    <3>2. QED
      BY <2>1, <3>1 DEF PutHead
  <2>2. CASE PutBody
    <3>1. Len(wal') = Len(wal) /\ wal'[Len(wal)] = mut
      BY <2>2, CompleteFrame DEF PutBody, WriteFrameBody
    <3>2. QED
      BY <2>2, <3>1 DEF PutBody
  <2>3. CASE SyncRecord
    BY <2>3 DEF SyncRecord, SyncNow
  <2>4. QED
    BY <1>5, <2>1, <2>2, <2>3 DEF LogRecord
<1>6. CASE ApplyRecord
  <2>1. CASE ApplyOk
    BY <2>1 DEF ApplyOk, Return
  <2>2. CASE ApplyRejected
    BY <2>2 DEF ApplyRejected
  <2>3. CASE Rollback
    BY <2>3 DEF Rollback
  <2>4. CASE RollbackSync
    BY <2>4 DEF RollbackSync, SyncNow, Return
  <2>5. QED
    BY <1>6, <2>1, <2>2, <2>3, <2>4 DEF ApplyRecord
<1>7. CASE Recover
  <2>1. ASSUME NEW v \in {"none", "good", "bad"}, Parse(v) PROVE DataOK' /\ Phase'
    BY <2>1 DEF Parse, Abort
  <2>2. CASE Replay
    <3>1. mem \in Index /\ wal[Len(run) + 1] \in Mutation
      BY <2>2 DEF Replay, FrameAt, Readable
    <3>2. QED
      BY <2>2, <3>1 DEF Replay, Replayable, Abort
  <2>3. CASE ReplayEnd
    BY <2>3 DEF ReplayEnd
  <2>4. CASE Attach
    BY <2>4 DEF Attach, Return
  <2>5. QED
    BY <1>7, <2>1, <2>2, <2>3, <2>4 DEF Recover
<1>8. CASE IoFails
  BY <1>8 DEF IoFails, Fault, Abort
<1>9. CASE Drop \/ Kill
  BY <1>9 DEF Drop, Kill, LoseProcess, Fault
<1>10. CASE PowerLoss
  BY <1>10 DEF PowerLoss, LoseProcess, Fault
<1>11. QED
  BY <1>1, <1>2, <1>3, <1>4, <1>5, <1>6, <1>7, <1>8, <1>9, <1>10 DEF Next, Proceed

LEMMA TypeInductive == Spec => []TypeInv
<1>1. TypeInv /\ [Next]_vars => TypeInv'
  BY BoolStep, LogStep, HistoryStep, DataStep DEF TypeInv
<1>2. QED
  BY TypeInit, <1>1, PTL DEF Spec

\* Type correctness of PersistedIndex, of every call at every point.
THEOREM TypeCorrect == Spec => []TypeOK
<1>1. TypeInv => TypeOK
  BY DEF TypeInv, BoolOK, LogOK, HistoryOK, DataOK, TypeOK, WalTypeOK
<1>2. QED
  BY TypeInductive, <1>1, PTL

-----------------------------------------------------------------------------
(* Logged before applied *)

\* Under Always the sync of a record leaves one possible content of the log.
SyncedInv == pc = "apply" /\ Policy = "Always" => walSurv = {wal}

LEMMA SyncedStep == SyncedInv /\ [Next]_vars => SyncedInv'
<1> SUFFICES ASSUME SyncedInv, [Next]_vars, pc' = "apply", Policy = "Always"
             PROVE  walSurv' = {wal'}
  BY DEF SyncedInv
<1> USE DEF SyncedInv, walVars
<1>1. CASE UNCHANGED vars
  BY <1>1 DEF vars
<1>2. CASE StartUp \/ BeginSave \/ BeginCheckpoint \/ Mutate
  BY <1>2 DEF StartUp, OpenWith, Load, BeginSave, BeginCheckpoint, Mutate,
     BeginMutate, MutateUnlogged, Bypass, Start
<1>3. CASE WriteSnapshot \/ StartLog
  BY <1>3 DEF WriteSnapshot, WriteTemp, Rename, DirSync, StartLog, CreateLog,
     ResetLog, PutHeader, HeaderSync, Return
<1>4. CASE SyncRecord
  BY <1>4 DEF SyncRecord, SyncDue, SyncNow
<1>5. CASE PutHead \/ PutBody \/ ApplyRecord
  BY <1>5 DEF PutHead, PutBody, ApplyRecord, ApplyOk, ApplyRejected, Rollback,
     RollbackSync, Return
<1>6. CASE Recover
  BY <1>6 DEF Recover, Parse, Replay, ReplayEnd, Attach, Abort, Return
<1>7. CASE IoFails \/ Drop \/ Kill \/ PowerLoss
  BY <1>7 DEF IoFails, Abort, Drop, Kill, PowerLoss, LoseProcess
<1>8. QED
  BY <1>1, <1>2, <1>3, <1>4, <1>5, <1>6, <1>7 DEF Next, Proceed, LogRecord

\* A mutation reaches the index only when its whole frame ends the log, right
\* behind the mark that a rejection rolls back to, and under Always only when
\* no power loss can take it away (log_commit before inner.insert).
THEOREM LoggedFirst == Spec => []LoggedBeforeApplied
<1>1. Init => SyncedInv
  BY DEF Init, SyncedInv
<1>2. TypeInv /\ SyncedInv => LoggedBeforeApplied
  BY DEF TypeInv, Phase, SyncedInv, LoggedBeforeApplied
<1>3. QED
  BY TypeInductive, <1>1, SyncedStep, <1>2, PTL DEF Spec
=============================================================================
