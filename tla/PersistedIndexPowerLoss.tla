----------------------- MODULE PersistedIndexPowerLoss -----------------------
(***************************************************************************)
(* Under Always no power loss takes an acknowledged mutation: for every    *)
(* index, set of events and bound.                                         *)
(***************************************************************************)
EXTENDS PersistedIndexSafety

USE IndexAssumption, BoundAssumption, MarkAssumption

\* A log is being started behind the new snapshot.
Starting == pc \in {"create", "reset", "header", "headerSync"} /\ call # "load"

\* What a power loss may leave, under Always.  While a log is started, the
\* new snapshot alone holds everything; otherwise the snapshot is fixed and
\* every content of the log that may be left leads through the trail.
DiskInv ==
    /\ Starting => snapSurv = {snap}
    /\ clean /\ pc = "dirSync" =>
          trail # <<>> /\ snapSurv \subseteq {trail[1], mem} /\ \A w \in walSurv : Covers(w, trail)
    /\ clean /\ pc # "dirSync" /\ ~Starting =>
          snapSurv = {snap} /\ \A w \in walSurv : Covers(w, trail)

PowerInv == Policy = "Always" => DiskInv

LEMMA DiskStep ==
    ASSUME Inv, SyncedInv, DiskInv, Policy = "Always", [Next]_vars
    PROVE  DiskInv'
<1> USE DEF Starting, opVars, snapVars, walVars, Start
<1>1. /\ TypeInv /\ Phase /\ HandleInv /\ FreshInv /\ LoadInv /\ InStepInv
      /\ wal \in Seq(Chunk) /\ trail \in Seq(Index) /\ mark \in Nat
      /\ walSurv \subseteq Seq(Chunk)
  BY DEF Inv, TypeInv, LogOK, HistoryOK, DataOK
<1>2. Len(wal) \in Nat /\ Len(trail) \in Nat
  BY <1>1, LenProperties
<1>3. CASE UNCHANGED vars
  BY <1>3 DEF vars, DiskInv
<1>4. CASE StartUp
  BY <1>1, <1>4 DEF StartUp, Load, OpenWith, DiskInv, Phase
<1>5. CASE BeginSave \/ BeginCheckpoint \/ Mutate
  BY <1>1, <1>5 DEF BeginSave, BeginCheckpoint, Mutate, BeginMutate, MutateUnlogged,
     Bypass, DiskInv, Phase
<1>6. CASE WriteTemp
  BY <1>6 DEF WriteTemp, DiskInv
<1>7. CASE Rename
  <2>1. clean => snapSurv = {trail[1]} /\ \A w \in walSurv : Covers(w, trail)
    BY <1>1, <1>7 DEF Rename, DiskInv, InStepInv, Quiet, Exact, Backed
  <2>2. clean => trail # <<>>
    BY <1>1, <1>7 DEF Rename, InStepInv, Quiet, Exact, Backed
  <2>3. QED
    BY <1>7, <2>1, <2>2 DEF Rename, DiskInv
<1>8. CASE DirSync
  BY <1>1, <1>8 DEF DirSync, Return, DiskInv, Phase
<1>9. CASE CreateLog \/ ResetLog \/ PutHeader
  BY <1>1, <1>9 DEF CreateLog, ResetLog, PutHeader, DiskInv, InStepInv, Phase
<1>10. CASE HeaderSync
  <2>1. SUFFICES ASSUME clean'
                 PROVE  snapSurv' = {snap'} /\ \A w \in walSurv' : Covers(w, trail')
    BY <1>10 DEF HeaderSync, Return, DiskInv
  <2>2. pc = "headerSync" /\ call # "load" /\ mem \in Index
    BY <1>1, <1>10, <2>1 DEF HeaderSync, InStepInv, TypeInv, DataOK
  <2>3. walSurv' = {<<Header>>} /\ trail' = <<mem>> /\ snapSurv' = {snap'}
    BY <1>1, <1>10, <2>2 DEF HeaderSync, FreshInv, SyncNow, DiskInv
  <2>4. QED
    BY <2>2, <2>3, CoversFresh
<1>11. CASE PutHead
  <2>1. SUFFICES ASSUME clean
                 PROVE  snapSurv' = {snap'} /\ \A w \in walSurv' : Covers(w, trail')
    BY <1>11 DEF PutHead, DiskInv
  <2>2. /\ Covers(wal, trail) /\ Len(trail) = Len(wal)
        /\ snapSurv = {snap} /\ \A w \in walSurv : Covers(w, trail)
    BY <1>1, <1>11, <2>1 DEF PutHead, InStepInv, Quiet, Exact, Backed, DiskInv
  <2>3. \A x \in {Torn, Zeros} : Covers(Append(wal, x), trail)
    <3> SUFFICES ASSUME NEW x \in {Torn, Zeros} PROVE Covers(Append(wal, x), trail)
      OBVIOUS
    <3>1. /\ Append(wal, x) \in Seq(Chunk) /\ Len(Append(wal, x)) = Len(wal) + 1
          /\ \A i \in 1..Len(wal) : Append(wal, x)[i] = wal[i]
      BY <1>1, PutChunk, MarkChunks
    <3>2. QED
      <4> DEFINE v == Append(wal, x)
      <4>1. v \in Seq(Chunk) /\ Len(v) >= Len(trail)
            /\ \A i \in 1..Len(trail) : v[i] = wal[i]
        BY <1>2, <2>2, <3>1
      <4> HIDE DEF v
      <4>2. Covers(v, trail)
        BY <1>1, <2>2, <4>1, CoversPrefix
      <4>3. QED
        BY <4>2 DEF v
  <2>4. QED
    BY <1>11, <2>2, <2>3 DEF PutHead, WriteFrameHead, Put
<1>12. CASE PutBody
  <2>1. SUFFICES ASSUME clean
                 PROVE  snapSurv' = {snap'} /\ \A w \in walSurv' : Covers(w, trail')
    BY <1>12 DEF PutBody, DiskInv
  <2>2. /\ Covers(wal, trail) /\ Len(wal) = Len(trail) + 1 /\ mut \in Chunk
        /\ snapSurv = {snap} /\ \A w \in walSurv : Covers(w, trail)
    BY <1>1, <1>12, <2>1 DEF PutBody, InStepInv, Backed, DiskInv, Phase, Chunk
  <2>3. /\ wal' \in Seq(Chunk) /\ Len(wal') = Len(wal)
        /\ \A i \in 1..(Len(wal) - 1) : wal'[i] = wal[i]
    BY <1>1, <1>2, <1>12, <2>2, CompleteFrame DEF PutBody, WriteFrameBody
  <2>4. Covers(wal', trail)
    BY <1>1, <1>2, <2>2, <2>3, CoversPrefix
  <2>5. QED
    BY <1>12, <2>2, <2>4 DEF PutBody, WriteFrameBody
<1>13. CASE SyncRecord \/ ApplyRejected
  <2>1. clean => Covers(wal, trail)
    BY <1>1, <1>13 DEF SyncRecord, ApplyRejected, InStepInv, Backed
  <2>2. QED
    BY <1>13, <2>1 DEF SyncRecord, SyncNow, ApplyRejected, DiskInv
<1>14. CASE ApplyOk
  <2>1. SUFFICES ASSUME clean, Restorable(mut)
                 PROVE  snapSurv' = {snap'} /\ \A w \in walSurv' : Covers(w, trail')
    BY <1>14 DEF ApplyOk, Return, DiskInv
  <2>2. walSurv = {wal} /\ snapSurv = {snap}
    BY <1>14, <2>1 DEF ApplyOk, SyncedInv, DiskInv
  <2>3. /\ Covers(wal, trail) /\ Len(wal) = Len(trail) + 1 /\ mut \in Mutation
        /\ wal[Len(trail) + 1] = mut /\ mem = Last(trail)
    BY <1>1, <1>14, <2>1 DEF ApplyOk, InStepInv, Agreeing, Backed, Phase, HandleInv
  <2>4. Covers(wal, Append(trail, Apply(mem, mut)))
    BY <1>1, <1>2, <1>14, <2>1, <2>3, CoversAppend DEF ApplyOk
  <2>5. QED
    BY <1>14, <2>2, <2>4 DEF ApplyOk
<1>15. CASE Rollback
  <2>1. SUFFICES ASSUME clean
                 PROVE  snapSurv' = {snap'} /\ \A w \in walSurv' : Covers(w, trail')
    BY <1>15 DEF Rollback, DiskInv
  <2>2. /\ Covers(wal, trail) /\ Len(trail) = mark /\ Len(wal) = mark + 1
        /\ snapSurv = {snap} /\ \A w \in walSurv : Covers(w, trail)
    BY <1>1, <1>15, <2>1 DEF Rollback, InStepInv, Backed, DiskInv, Phase
  <2>3. /\ wal' \in Seq(Chunk) /\ Len(wal') = mark
        /\ \A i \in 1..mark : wal'[i] = wal[i]
    BY <1>1, <1>2, <1>15, <2>2, CutLog DEF Rollback, SetLen
  <2>4. Covers(wal', trail)
    BY <1>1, <1>2, <2>2, <2>3, CoversPrefix
  <2>5. QED
    BY <1>15, <2>2, <2>4 DEF Rollback, SetLen
<1>16. CASE RollbackSync
  <2>1. clean => Covers(wal, trail)
    BY <1>1, <1>16 DEF RollbackSync, InStepInv, Exact, Backed
  <2>2. QED
    BY <1>16, <2>1 DEF RollbackSync, SyncNow, Return, DiskInv
<1>17. ASSUME NEW v \in {"none", "good", "bad"}, Parse(v) PROVE DiskInv'
  BY <1>1, <1>17 DEF Parse, Abort, DiskInv, Phase
<1>18. CASE Replay \/ ReplayEnd
  BY <1>1, <1>18 DEF Replay, ReplayEnd, Abort, DiskInv, Phase
<1>19. CASE Attach
  <2>1. SUFFICES ASSUME clean PROVE DiskInv'
    BY <1>1, <1>19 DEF Attach, Return, DiskInv, Phase
  <2>2. Exact /\ Backed /\ walExists /\ call = "load" /\ pc = "attach"
    BY <1>1, <1>19, <2>1 DEF Attach, InStepInv, Quiet, Exact, Backed, Phase
  <2>3. run \in Seq(Index) /\ Len(run) \in Nat
    BY <1>1, LenProperties DEF TypeInv, HistoryOK
  <2>4. Len(run) = Len(trail) /\ \A i \in 1..Len(run) : run[i] = trail[i]
    BY <1>1, <1>2, <2>2, <2>3 DEF LoadInv, Exact, Agree
  <2>5. run = trail
    BY <1>1, <2>3, <2>4, SeqEqual
  <2>6. QED
    BY <1>19, <2>2, <2>5 DEF Attach, Return, DiskInv
<1>20. CASE IoFails
  <2>1. SUFFICES ASSUME clean' PROVE DiskInv'
    BY <1>20 DEF IoFails, Abort, DiskInv
  <2>2. clean /\ pc \in Quiet /\ wal' = wal
    BY <1>20, <2>1 DEF IoFails
  <2>3. walSurv' = walSurv
    BY <1>1, <1>20, <2>2, AppendProperties DEF IoFails, PutFails, Put, Quiet
  <2>4. QED
    BY <1>20, <2>2, <2>3 DEF IoFails, Abort, DiskInv, Quiet
<1>21. CASE Drop \/ Kill
  <2>1. pc' = "down" /\ UNCHANGED <<snap, snapSurv, trail, walSurv>>
    BY <1>21 DEF Drop, Kill, LoseProcess, WalKill
  <2>2. clean' => clean /\ pc \in Quiet
    BY <1>21 DEF Drop, Kill, Quiet
  <2>3. QED
    BY <2>1, <2>2 DEF DiskInv, Quiet
<1>22. CASE PowerLoss
  <2>1. SUFFICES ASSUME clean' PROVE DiskInv'
    BY <1>22 DEF PowerLoss, LoseProcess, DiskInv
  <2>2. clean /\ pc \in Quiet /\ Exact /\ walLinked /\ walSurv = {wal} /\ snapSurv = {snap}
    BY <1>1, <1>22, <2>1 DEF PowerLoss, InStepInv
  <2>3. walExists' /\ wal' = wal /\ walSurv' = {wal'} /\ snap' = snap /\ snapSurv' = {snap'}
        /\ trail' = trail /\ pc' = "down"
    BY <1>22, <2>2 DEF PowerLoss, WalPowerLoss, LoseProcess, Exact, Backed
  <2>4. Covers(wal, trail)
    BY <2>2 DEF Exact, Backed
  <2>5. QED
    BY <2>3, <2>4 DEF DiskInv
<1>23. QED
  BY <1>3, <1>4, <1>5, <1>6, <1>7, <1>8, <1>9, <1>10, <1>11, <1>12, <1>13, <1>14,
     <1>15, <1>16, <1>17, <1>18, <1>19, <1>20, <1>21, <1>22
     DEF Next, Proceed, WriteSnapshot, StartLog, LogRecord, ApplyRecord, Recover

\* Under Always, whatever a power loss leaves at any point of any call, the
\* last acknowledged state (or the snapshot the running call is writing) is
\* still there: write_atomic's rename and directory sync, the log's frames,
\* their rollback and its truncation are in an order that opens no gap.
THEOREM AckedSurvivePowerLoss == Spec => []PowerLossKeepsAcked
<1>1. Init => PowerInv /\ SyncedInv
  BY DEF Init, WalInit, PowerInv, DiskInv, Starting, SyncedInv
<1>2. Inv /\ SyncedInv /\ PowerInv /\ [Next]_vars => PowerInv'
  BY DiskStep DEF PowerInv
<1>3. Inv /\ PowerInv => PowerLossKeepsAcked
  <2> SUFFICES ASSUME Inv, DiskInv, clean, NEW s \in snapSurv, NEW w \in walSurv
               PROVE  \/ s = Last(trail)
                      \/ pc = "dirSync" /\ s = mem
                      \/ s = trail[1] /\ Covers(w, trail)
    BY DEF PowerInv, PowerLossKeepsAcked
  <2>1. CASE Starting
    <3>1. s = mem /\ trail = <<mem>>
      BY <2>1 DEF DiskInv, Starting, Inv, FreshInv
    <3>2. QED
      BY <3>1 DEF Last
  <2>2. CASE pc = "dirSync"
    BY <2>2 DEF DiskInv, Starting
  <2>3. CASE pc # "dirSync" /\ ~Starting
    <3>1. s = snap /\ Covers(w, trail)
      BY <2>3 DEF DiskInv
    <3>2. Backed
      BY <2>3 DEF Inv, InStepInv, TypeInv, Phase, DataOK, Pcs, Quiet, Starting, Exact
    <3>3. QED
      BY <3>1, <3>2 DEF Backed
  <2>4. QED
    BY <2>1, <2>2, <2>3
<1>4. QED
  BY InvInductive, SyncedStep, <1>1, <1>2, <1>3, PTL DEF Spec
=============================================================================
