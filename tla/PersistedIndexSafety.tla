------------------------ MODULE PersistedIndexSafety ------------------------
(***************************************************************************)
(* Snapshot and log of PersistedIndex stay in step, and load gives back    *)
(* what was acknowledged: for every index, policy, set of events and bound.*)
(***************************************************************************)
EXTENDS PersistedIndexProofs

USE IndexAssumption, BoundAssumption, MarkAssumption

-----------------------------------------------------------------------------
(* Logs that lead through a sequence of states *)

\* Only the chunks that Covers looks at matter.
LEMMA CoversPrefix ==
    ASSUME NEW t \in Seq(Index), NEW v \in Seq(Chunk), NEW w \in Seq(Chunk),
           Covers(v, t), Len(w) >= Len(t),
           \A i \in 1..Len(t) : w[i] = v[i]
    PROVE  Covers(w, t)
<1>1. Len(t) \in Nat /\ Len(t) >= 1
  BY DEF Covers
<1>2. w[1] = Header
  BY <1>1 DEF Covers
<1>3. ASSUME NEW i \in 1..(Len(t) - 1)
      PROVE  /\ w[i + 1] \in Readable
             /\ Replayable(t[i], w[i + 1])
             /\ t[i + 1] = Apply(t[i], w[i + 1])
  <2>1. w[i + 1] = v[i + 1]
    BY <1>1
  <2>2. QED
    BY <2>1 DEF Covers, Chain
<1>4. QED
  BY <1>1, <1>2, <1>3 DEF Covers, Chain

\* A log that holds one more frame leads to one more state.
LEMMA CoversAppend ==
    ASSUME NEW t \in Seq(Index), NEW w \in Seq(Chunk), Covers(w, t),
           Len(w) >= Len(t) + 1,
           NEW m \in Mutation, w[Len(t) + 1] = m, Accepts(Last(t), m), Restorable(m)
    PROVE  Covers(w, Append(t, Apply(Last(t), m)))
<1> DEFINE s == Apply(Last(t), m)
           u == Append(t, s)
<1>1. Len(t) \in Nat /\ Len(t) >= 1 /\ Last(t) = t[Len(t)] /\ Last(t) \in Index
  <2>1. Len(t) \in Nat /\ Len(t) >= 1
    BY LenProperties DEF Covers
  <2>2. t[Len(t)] \in Index
    BY <2>1, ElementOfSeq
  <2>3. QED
    BY <2>1, <2>2 DEF Last
<1>2. s \in Index /\ Replayable(Last(t), m) /\ m \in Readable
  BY <1>1 DEF Replayable, Restorable
<1>3. Len(u) = Len(t) + 1 /\ u[Len(t) + 1] = s /\ \A i \in 1..Len(t) : u[i] = t[i]
  BY <1>2, AppendProperties
<1>4. ASSUME NEW i \in 1..(Len(u) - 1)
      PROVE  /\ w[i + 1] \in Readable
             /\ Replayable(u[i], w[i + 1])
             /\ u[i + 1] = Apply(u[i], w[i + 1])
  <2> HIDE DEF u, s
  <2>1. CASE i = Len(t)
    BY <1>1, <1>2, <1>3, <2>1 DEF s
  <2>2. CASE i \in 1..(Len(t) - 1)
    <3>1. u[i] = t[i] /\ u[i + 1] = t[i + 1]
      BY <1>1, <1>3, <2>2
    <3>2. QED
      BY <2>2, <3>1 DEF Covers, Chain
  <2>3. QED
    BY <1>1, <1>3, <2>1, <2>2
<1>5. QED
  BY <1>1, <1>3, <1>4 DEF Covers, Chain

\* A fresh log beside a snapshot of s.
LEMMA CoversFresh ==
    ASSUME NEW s \in Index
    PROVE  Covers(<<Header>>, <<s>>)
  BY DEF Covers, Chain

-----------------------------------------------------------------------------
(* The log of a handle, and a log being started *)

\* A handle with the log enabled has its file; a log is started only for one.
HandleInv ==
    /\ walOn /\ pc # "down" /\ call \notin {"open", "load"} => walExists
    /\ call \in {"open", "load", "mutate"} => walOn
    /\ pc \in {"reset", "header", "headerSync"} => walOn
    /\ pc \in {"header", "headerSync"} => walExists

\* open_with and checkpoint start a log beside the snapshot just written.
FreshInv ==
    /\ pc = "dirSync" => snap = mem
    /\ pc \in {"create", "reset", "header", "headerSync"} /\ call # "load" =>
          snap = mem /\ trail = <<mem>>
    /\ pc = "header" => wal = <<>>
    /\ pc = "headerSync" => wal = <<Header>>

LEMMA StartStep == TypeInv /\ HandleInv /\ FreshInv /\ [Next]_vars
                      => HandleInv' /\ FreshInv'
<1> SUFFICES ASSUME TypeInv, HandleInv, FreshInv, [Next]_vars
             PROVE  HandleInv' /\ FreshInv'
  OBVIOUS
<1> USE DEF HandleInv, FreshInv, opVars, walVars, snapVars
<1>1. Phase
  BY DEF TypeInv
<1>2. CASE UNCHANGED vars
  BY <1>2 DEF vars
<1>3. CASE StartUp \/ BeginSave \/ BeginCheckpoint
  BY <1>1, <1>3 DEF StartUp, OpenWith, Load, BeginSave, BeginCheckpoint, Start, Phase
<1>4. CASE Mutate
  BY <1>1, <1>4 DEF Mutate, BeginMutate, MutateUnlogged, Bypass, Start, Phase
<1>5. CASE WriteSnapshot
  BY <1>1, <1>5 DEF WriteSnapshot, WriteTemp, Rename, DirSync, Return, Phase
<1>6. CASE StartLog
  <2>1. CASE ResetLog
    <3>1. SubSeq(wal, 1, 0) = <<>>
      BY SubSeqEmpty DEF TypeInv, LogOK
    <3>2. QED
      BY <1>1, <2>1, <3>1 DEF ResetLog, SetLen, Phase
  <2>2. CASE PutHeader
    <3>1. Append(<<>>, Header) = <<Header>>
      OBVIOUS
    <3>2. QED
      BY <1>1, <2>2, <3>1 DEF PutHeader, WriteHeader, Put, Phase
  <2>3. CASE CreateLog \/ HeaderSync
    BY <1>1, <2>3 DEF CreateLog, CreateEmpty, HeaderSync, SyncNow, Return, Phase
  <2>4. QED
    BY <1>6, <2>1, <2>2, <2>3 DEF StartLog
<1>7. CASE LogRecord
  BY <1>1, <1>7 DEF LogRecord, PutHead, PutBody, SyncRecord, WriteFrameHead, Put,
     WriteFrameBody, SyncNow, Phase
<1>8. CASE ApplyRecord
  BY <1>1, <1>8 DEF ApplyRecord, ApplyOk, ApplyRejected, Rollback, RollbackSync,
     SetLen, SyncNow, Return, Phase
<1>9. CASE Recover
  BY <1>1, <1>9 DEF Recover, Parse, Replay, ReplayEnd, Attach, CreateEmpty, Abort,
     Return, Phase
<1>10. CASE IoFails
  <2>1. walExists' = walExists
    BY <1>10 DEF IoFails, PutFails, Put
  <2>2. QED
    BY <1>1, <1>10, <2>1 DEF IoFails, Abort, Phase
<1>11. CASE Drop \/ Kill \/ PowerLoss
  BY <1>11 DEF Drop, Kill, PowerLoss, LoseProcess
<1>12. QED
  BY <1>2, <1>3, <1>4, <1>5, <1>6, <1>7, <1>8, <1>9, <1>10, <1>11 DEF Next, Proceed

-----------------------------------------------------------------------------
(* What load has passed through *)

Agree(s, t) == \A i \in 1..Len(s) : i <= Len(t) => s[i] = t[i]

\* Replay follows the log from the snapshot.  Where the log leads through
\* every acknowledged state, it passes through them and stops behind them.
LoadInv ==
    call = "load" =>
      /\ snap \in Index /\ Len(run) >= 1 /\ run[1] = snap /\ mem = Last(run)
      /\ pc \in {"parse", "header", "headerSync"} \/ ~walExists => Len(run) = 1
      /\ pc = "replay" => /\ walExists /\ Len(run) <= Len(wal)
                          /\ \A i \in 2..Len(run) : wal[i] \in Readable
      /\ Backed /\ pc \in {"replay", "attach"} =>
            Len(run) <= Len(wal) /\ Agree(run, trail)
      /\ Backed /\ pc = "attach" => Len(trail) <= Len(run)

\* Nothing that Backed looks at changes during parse and replay.
LEMMA BackedSame ==
    UNCHANGED <<walExists, wal, trail, snap>> => Backed' = Backed
  BY DEF Backed

LEMMA ParseLoad ==
    ASSUME TypeInv, LoadInv, NEW v \in {"none", "good", "bad"}, Parse(v)
    PROVE  LoadInv'
<1> SUFFICES ASSUME call' = "load" PROVE LoadInv'
  BY DEF LoadInv
<1>1. /\ pc = "parse" /\ call = "load" /\ v # "bad"
      /\ pc' = IF v = "good" THEN "replay" ELSE "attach"
      /\ UNCHANGED <<call, mem, run, snap, trail, wal, walExists>>
  BY DEF Parse, Abort, TypeInv, Phase, opVars, snapVars, walVars
<1>2. /\ snap \in Index /\ Len(run) = 1 /\ run[1] = snap /\ mem = Last(run)
  BY <1>1 DEF LoadInv
<1>3. Backed' = Backed
  BY <1>1, BackedSame
<1>4. wal \in Seq(Chunk) /\ Len(wal) \in Nat
  BY LenProperties DEF TypeInv, LogOK
<1>5. CASE v = "good"
  <2>1. walExists /\ "good" \in HeaderVerdicts(wal)
    BY <1>5 DEF Parse
  <2>2. wal # <<>>
    BY <2>1 DEF HeaderVerdicts
  <2>3. Len(wal) >= 1
    BY <1>4, <2>2, EmptySeq
  <2>4. Backed => Agree(run, trail)
    BY <1>2 DEF Backed, Agree
  <2>5. QED
    BY <1>1, <1>2, <1>3, <1>5, <2>1, <2>3, <2>4 DEF LoadInv, Agree
<1>6. CASE v = "none"
  <2>1. ~Backed
    <3>1. SUFFICES ASSUME walExists, wal[1] = Header, Len(wal) >= 1 PROVE FALSE
      BY <1>4 DEF Backed, Covers
    <3>2. "none" \in HeaderVerdicts(wal)
      BY <1>6, <3>1 DEF Parse
    <3>3. wal # <<>> /\ wal # <<PartHeader>>
      BY <3>1
    <3>4. QED
      BY <3>1, <3>2, <3>3 DEF HeaderVerdicts
  <2>2. QED
    BY <1>1, <1>2, <1>3, <1>6, <2>1 DEF LoadInv
<1>7. QED
  BY <1>1, <1>5, <1>6

LEMMA ReplayLoad ==
    ASSUME TypeInv, LoadInv, Replay
    PROVE  LoadInv'
<1> SUFFICES ASSUME call' = "load" PROVE LoadInv'
  BY DEF LoadInv
<1> DEFINE n == Len(run) + 1
           m == wal[n]
<1>1. /\ pc = "replay" /\ call = "load" /\ FrameAt(wal, n) /\ Replayable(mem, m)
      /\ mem' = Apply(mem, m) /\ run' = Append(run, mem')
      /\ UNCHANGED <<pc, call, snap, trail, wal, walExists>>
  BY DEF Replay, Abort, TypeInv, Phase, opVars, snapVars, walVars
<1>2. /\ snap \in Index /\ Len(run) >= 1 /\ run[1] = snap /\ mem = Last(run)
      /\ walExists
  BY <1>1 DEF LoadInv
<1>3. run \in Seq(Index) /\ Len(run) \in Nat /\ mem \in Index
  BY <1>1, LenProperties DEF TypeInv, HistoryOK, DataOK
<1>4. /\ n \in 2..Len(wal) /\ m \in Mutation
      /\ \A i \in 2..n : wal[i] \in Readable
  BY <1>1 DEF FrameAt, Readable
<1>5. mem' \in Index
  BY <1>1, <1>3, <1>4 DEF Replayable
<1>6. Len(run') = n /\ run'[n] = mem' /\ \A i \in 1..Len(run) : run'[i] = run[i]
  BY <1>1, <1>3, <1>5, AppendProperties
<1>7. Backed' = Backed
  BY <1>1, BackedSame
<1>8. ASSUME Backed PROVE Agree(run', trail)
  <2>1. Agree(run, trail) /\ Chain(trail, wal) /\ Len(trail) \in Nat
    BY <1>1, <1>8, LenProperties DEF LoadInv, Backed, Covers, TypeInv, HistoryOK
  <2>2. ASSUME n <= Len(trail) PROVE run'[n] = trail[n]
    <3>1. trail[n] = Apply(trail[Len(run)], m)
      BY <1>2, <1>3, <2>1, <2>2 DEF Chain
    <3>2. trail[Len(run)] = mem
      BY <1>2, <1>3, <2>1, <2>2 DEF Agree, Last
    <3>3. QED
      BY <1>1, <1>6, <3>1, <3>2
  <2>3. QED
    BY <1>3, <1>6, <2>1, <2>2 DEF Agree
<1>9. Last(run') = mem' /\ run'[1] = snap
  BY <1>2, <1>3, <1>6 DEF Last
<1> HIDE DEF n, m
<1>10. n \in Nat /\ n >= 2 /\ n <= Len(wal)
  BY <1>3, <1>4
<1>11. QED
  BY <1>1, <1>2, <1>4, <1>6, <1>7, <1>8, <1>9, <1>10 DEF LoadInv

LEMMA ReplayEndLoad ==
    ASSUME TypeInv, LoadInv, ReplayEnd
    PROVE  LoadInv'
<1>1. /\ pc = "replay" /\ call = "load" /\ pc' = "attach" /\ ~FrameAt(wal, Len(run) + 1)
      /\ UNCHANGED <<call, mem, run, snap, trail, wal, walExists>>
  BY DEF ReplayEnd, TypeInv, Phase, opVars, snapVars, walVars
<1>2. /\ snap \in Index /\ Len(run) >= 1 /\ run[1] = snap /\ mem = Last(run)
      /\ walExists /\ Len(run) <= Len(wal)
      /\ \A i \in 2..Len(run) : wal[i] \in Readable
      /\ Backed => Agree(run, trail)
  BY <1>1 DEF LoadInv
<1>3. Backed' = Backed
  BY <1>1, BackedSame
<1>4. ASSUME Backed PROVE Len(trail) <= Len(run)
  <2>1. Len(run) \in Nat /\ Len(trail) \in Nat /\ Len(wal) \in Nat
    BY LenProperties DEF TypeInv, HistoryOK, LogOK
  <2>2. SUFFICES ASSUME Len(run) < Len(trail) PROVE FALSE
    BY <2>1
  <2>3. Chain(trail, wal) /\ Len(wal) >= Len(trail)
    BY <1>4 DEF Backed, Covers
  <2>4. wal[Len(run) + 1] \in Readable
    BY <1>2, <2>1, <2>2, <2>3 DEF Chain
  <2>5. \A i \in 2..(Len(run) + 1) : wal[i] \in Readable
    BY <1>2, <2>1, <2>4
  <2>6. Len(run) + 1 \in 2..Len(wal)
    BY <1>2, <2>1, <2>2, <2>3
  <2>7. QED
    BY <1>1, <2>5, <2>6 DEF FrameAt
<1>5. QED
  BY <1>1, <1>2, <1>3, <1>4 DEF LoadInv, Agree

LEMMA LoadStep == TypeInv /\ LoadInv /\ [Next]_vars => LoadInv'
<1> SUFFICES ASSUME TypeInv, LoadInv, [Next]_vars, call' = "load" PROVE LoadInv'
  BY DEF LoadInv
<1> USE DEF Phase, opVars, snapVars, walVars
<1>1. Phase
  BY DEF TypeInv
<1>2. CASE UNCHANGED vars
  <2>1. Backed' = Backed
    BY <1>2, BackedSame DEF vars
  <2>2. QED
    BY <1>2, <2>1 DEF vars, LoadInv, Agree
<1>3. ASSUME NEW w \in Modes, Load(w) PROVE LoadInv'
  <2>1. /\ snap \in Index /\ mem' = snap /\ snap' = snap
        /\ pc' = "parse" /\ run' = <<snap>>
    BY <1>1, <1>3 DEF Load, Start
  <2>2. Len(<<snap>>) = 1 /\ <<snap>>[1] = snap /\ Last(<<snap>>) = snap
    BY DEF Last
  <2>3. QED
    BY <2>1, <2>2 DEF LoadInv
<1>4. CASE BeginSave \/ BeginCheckpoint \/ Mutate \/ \E s \in Bases, w \in Modes : OpenWith(s, w)
  BY <1>1, <1>4 DEF BeginSave, BeginCheckpoint, Mutate, OpenWith, BeginMutate,
     MutateUnlogged, Bypass, Start
<1>5. CASE WriteSnapshot
  BY <1>1, <1>5 DEF WriteSnapshot, WriteTemp, Rename, DirSync, Return
<1>6. CASE StartLog
  BY <1>1, <1>6 DEF StartLog, CreateLog, ResetLog, PutHeader, HeaderSync, Return,
     WriteHeader, Put, LoadInv
<1>7. CASE LogRecord \/ ApplyRecord
  BY <1>1, <1>7 DEF LogRecord, PutHead, PutBody, SyncRecord, ApplyRecord, ApplyOk,
     ApplyRejected, Rollback, RollbackSync, Return
<1>8. CASE Recover
  <2>1. CASE Attach
    BY <1>1, <2>1 DEF Attach, CreateEmpty, Return, LoadInv
  <2>2. QED
    BY <1>8, <2>1, ParseLoad, ReplayLoad, ReplayEndLoad DEF Recover
<1>9. CASE IoFails \/ Drop \/ Kill \/ PowerLoss
  BY <1>9 DEF IoFails, Abort, Drop, Kill, PowerLoss, LoseProcess
<1>10. QED
  BY <1>2, <1>3, <1>4, <1>5, <1>6, <1>7, <1>8, <1>9 DEF Next, Proceed, StartUp

LEMMA LoadResult ==
    ASSUME TypeInv, HandleInv, FreshInv, LoadInv, [Next]_vars, LoadReturns, Backed
    PROVE  /\ trail' = run
           /\ Len(trail) <= Len(run) /\ Len(run) <= Len(wal)
           /\ \A i \in 1..Len(trail) : run[i] = trail[i]
<1>1. call = "load" /\ pc # "idle" /\ pc' = "idle" /\ Phase /\ walExists
  BY DEF LoadReturns, TypeInv, Backed
<1>2. Len(run) \in Nat /\ Len(trail) \in Nat /\ Len(wal) \in Nat
  BY LenProperties DEF TypeInv, HistoryOK, LogOK
<1>3. CASE Attach
  <2>1. trail' = run
    BY <1>1, <1>3 DEF Attach
  <2>2. Len(run) <= Len(wal) /\ Agree(run, trail) /\ Len(trail) <= Len(run)
    BY <1>1, <1>3 DEF Attach, LoadInv
  <2>3. QED
    BY <1>2, <2>1, <2>2 DEF Agree
<1>4. CASE HeaderSync
  <2>1. trail' = run /\ wal = <<Header>> /\ Len(run) = 1 /\ run[1] = snap
    BY <1>1, <1>4 DEF HeaderSync, FreshInv, LoadInv
  <2>2. Len(trail) = 1 /\ trail[1] = snap
    <3>1. Len(wal) = 1
      BY <2>1
    <3>2. Len(wal) >= Len(trail) /\ Len(trail) >= 1 /\ snap = trail[1]
      BY DEF Backed, Covers
    <3>3. QED
      BY <1>2, <3>1, <3>2
  <2>3. QED
    <3>1. Len(wal) = 1
      BY <2>1
    <3>2. \A i \in 1..Len(trail) : run[i] = trail[i]
      BY <2>1, <2>2
    <3>3. QED
      BY <2>1, <2>2, <3>1, <3>2
<1>5. ~UNCHANGED vars
  BY <1>1 DEF vars
<1>6. ~(StartUp \/ BeginSave \/ BeginCheckpoint \/ Mutate \/ WriteSnapshot
          \/ LogRecord \/ ApplyRecord \/ Drop \/ Kill \/ PowerLoss)
  BY <1>1 DEF Phase, StartUp, OpenWith, Load, BeginSave, BeginCheckpoint, Mutate,
     BeginMutate, MutateUnlogged, Bypass, WriteSnapshot, WriteTemp, Rename, DirSync,
     LogRecord, PutHead, PutBody, SyncRecord, ApplyRecord, ApplyOk, ApplyRejected,
     Rollback, RollbackSync, Drop, Kill, PowerLoss, LoseProcess
<1>7. ~(CreateLog \/ ResetLog \/ PutHeader \/ ReplayEnd \/ Replay)
  BY <1>1 DEF CreateLog, ResetLog, PutHeader, ReplayEnd, Replay, Abort
<1>8. ~IoFails /\ \A v \in {"none", "good", "bad"} : ~Parse(v)
  BY <1>1 DEF IoFails, Parse, Abort
<1>9. QED
  BY <1>3, <1>4, <1>5, <1>6, <1>7, <1>8 DEF Next, Proceed, StartLog, Recover

-----------------------------------------------------------------------------
(* Snapshot and log in step *)

\* Between calls and during a logged mutation memory is the last
\* acknowledged state.
Agreeing ==
    /\ pc \in {"idle", "temp", "rename", "head", "body", "sync", "apply",
               "rollback", "rbSync"}
    /\ call \notin {"open", "load"}

InStepInv ==
    clean =>
      /\ pc \in Quiet \cup {"rbSync"} => Exact
      /\ pc \in {"body", "sync", "apply", "rollback"} => Backed /\ Len(trail) = mark
      /\ walOn /\ Agreeing => mem = Last(trail)
      /\ pc \in {"header", "headerSync"} => call # "load"

LEMMA ExactSame ==
    UNCHANGED <<walExists, wal, trail, snap>> => Backed' = Backed /\ Exact' = Exact
  BY DEF Backed, Exact

\* Any content that begins with the log's first Len(trail) chunks will do.
LEMMA BackedPrefix ==
    ASSUME TypeInv, Backed, walExists', trail' = trail, snap' = snap,
           wal' \in Seq(Chunk), Len(wal') >= Len(trail),
           \A i \in 1..Len(trail) : wal'[i] = wal[i]
    PROVE  Backed'
<1>1. Covers(wal, trail) /\ trail \in Seq(Index) /\ wal \in Seq(Chunk)
  BY DEF Backed, TypeInv, HistoryOK, LogOK
<1>2. Covers(wal', trail)
  BY <1>1, CoversPrefix
<1>3. QED
  BY <1>2 DEF Backed

Inv == TypeInv /\ HandleInv /\ FreshInv /\ LoadInv /\ InStepInv

\* Calls that begin, and the writes of a snapshot.
LEMMA CallInStep ==
    ASSUME Inv, StartUp \/ BeginSave \/ BeginCheckpoint \/ Mutate \/ WriteSnapshot
    PROVE  InStepInv'
<1> USE DEF InStepInv, Agreeing, Quiet, Phase, opVars, snapVars, walVars, Start
<1>1. Phase /\ InStepInv /\ HandleInv
  BY DEF Inv, TypeInv
<1>2. CASE StartUp
  <2>1. /\ UNCHANGED <<walExists, wal, trail, snap, clean>> /\ pc = "down"
        /\ pc' \in {"temp", "parse", "idle"} /\ (pc' = "idle" => ~walOn')
        /\ (pc' # "idle" => call' \in {"open", "load"})
    BY <1>2 DEF StartUp, Load, OpenWith
  <2>2. Exact' = Exact
    BY <2>1, ExactSame
  <2>3. QED
    BY <1>1, <2>1, <2>2
<1>3. CASE BeginSave \/ BeginCheckpoint \/ Mutate
  <2>1. UNCHANGED <<walExists, wal, trail, snap>> /\ pc = "idle"
    BY <1>3 DEF BeginSave, BeginCheckpoint, Mutate, BeginMutate, MutateUnlogged, Bypass
  <2>2. Exact' = Exact
    BY <2>1, ExactSame
  <2>3. QED
    BY <1>1, <1>3, <2>2 DEF BeginSave, BeginCheckpoint, Mutate, BeginMutate,
       MutateUnlogged, Bypass
<1>4. CASE WriteTemp
  <2>1. Exact' = Exact
    BY <1>4, ExactSame DEF WriteTemp
  <2>2. QED
    BY <1>1, <1>4, <2>1 DEF WriteTemp
<1>5. CASE Rename \/ DirSync
  BY <1>1, <1>5 DEF Rename, DirSync, Return
<1>6. QED
  BY <1>2, <1>3, <1>4, <1>5 DEF WriteSnapshot

LEMMA StartLogInStep ==
    ASSUME Inv, StartLog
    PROVE  InStepInv'
<1> USE DEF InStepInv, Agreeing, Quiet, Phase, opVars, snapVars, walVars
<1>1. Phase /\ InStepInv /\ HandleInv /\ FreshInv
  BY DEF Inv, TypeInv
<1>2. CASE CreateLog \/ ResetLog \/ PutHeader
  BY <1>1, <1>2 DEF CreateLog, ResetLog, PutHeader
<1>3. CASE HeaderSync
  <2>1. SUFFICES ASSUME clean' PROVE Exact' /\ mem' = Last(trail')
    BY <1>3 DEF HeaderSync, Return
  <2>2. pc = "headerSync" /\ call # "load" /\ mem \in Index
    BY <1>1, <1>3, <2>1 DEF HeaderSync, Inv, TypeInv, DataOK
  <2>3. /\ walExists' /\ wal' = <<Header>> /\ trail' = <<mem>>
        /\ snap' = mem /\ mem' = mem
    BY <1>1, <1>3, <2>2 DEF HeaderSync, HandleInv, FreshInv, SyncNow
  <2>4. Covers(<<Header>>, <<mem>>)
    BY <2>2, CoversFresh
  <2>5. Len(<<mem>>) = 1 /\ <<mem>>[1] = mem /\ Len(<<Header>>) = 1 /\ <<mem>> # <<>>
    OBVIOUS
  <2>6. QED
    BY <2>3, <2>4, <2>5 DEF Exact, Backed, Last
<1>4. QED
  BY <1>2, <1>3 DEF StartLog

\* A record written, applied and acknowledged, or taken back.
LEMMA RecordInStep ==
    ASSUME Inv, LogRecord \/ ApplyRecord
    PROVE  InStepInv'
<1> USE DEF InStepInv, Agreeing, Quiet, opVars, snapVars, walVars
<1> SUFFICES ASSUME clean' PROVE InStepInv'
  OBVIOUS
<1>1. /\ TypeInv /\ Phase /\ InStepInv /\ HandleInv
      /\ wal \in Seq(Chunk) /\ trail \in Seq(Index) /\ mark \in Nat
  BY DEF Inv, TypeInv, LogOK, HistoryOK, DataOK
<1>2. Len(wal) \in Nat /\ Len(trail) \in Nat
  BY <1>1, LenProperties
<1>3. CASE PutHead
  <2>1. /\ pc = "head" /\ pc' = "body" /\ wal' = Append(wal, Torn) /\ clean
        /\ UNCHANGED <<call, mark, mem, walOn, snap, trail, walExists>>
    BY <1>3 DEF PutHead, WriteFrameHead, Put
  <2>2. Exact /\ Len(wal) = mark /\ (walOn => mem = Last(trail)) /\ call = "mutate"
    BY <1>1, <2>1 DEF Phase
  <2>3. wal' \in Seq(Chunk) /\ Len(wal') = Len(wal) + 1
        /\ \A i \in 1..Len(wal) : wal'[i] = wal[i]
    BY <1>1, <2>1, PutChunk, MarkChunks
  <2>4. Backed'
    BY <1>1, <1>2, <2>1, <2>2, <2>3, BackedPrefix DEF Exact, Backed
  <2>5. QED
    BY <2>1, <2>2, <2>4 DEF Exact
<1>4. CASE PutBody
  <2>1. /\ pc = "body" /\ pc' = "sync" /\ wal' = [wal EXCEPT ![Len(wal)] = mut] /\ clean
        /\ UNCHANGED <<call, mark, mem, walOn, snap, trail, walExists>>
    BY <1>4 DEF PutBody, WriteFrameBody
  <2>2. /\ Backed /\ Len(trail) = mark /\ Len(wal) = mark + 1 /\ mut \in Chunk
        /\ (walOn => mem = Last(trail)) /\ call = "mutate"
    BY <1>1, <2>1 DEF Phase, Chunk
  <2>3. wal' \in Seq(Chunk) /\ Len(wal') = Len(wal)
        /\ \A i \in 1..(Len(wal) - 1) : wal'[i] = wal[i]
    BY <1>1, <2>1, <2>2, CompleteFrame
  <2>4. Backed'
    BY <1>1, <1>2, <2>1, <2>2, <2>3, BackedPrefix DEF Backed
  <2>5. QED
    BY <2>1, <2>2, <2>4
<1>5. CASE SyncRecord \/ ApplyRejected
  <2>1. /\ pc \in {"sync", "apply"} /\ pc' \in {"apply", "rollback"} /\ clean
        /\ UNCHANGED <<call, mark, mem, walOn, snap, trail, walExists, wal>>
    BY <1>5 DEF SyncRecord, SyncNow, ApplyRejected
  <2>2. Backed' = Backed
    BY <2>1, ExactSame
  <2>3. QED
    BY <1>1, <2>1, <2>2
<1>6. CASE ApplyOk
  <2>1. /\ pc = "apply" /\ Accepts(mem, mut) /\ mem' = Apply(mem, mut)
        /\ trail' = Append(trail, mem') /\ pc' = "idle" /\ clean /\ Restorable(mut)
        /\ UNCHANGED <<snap, walExists, wal>>
    BY <1>6 DEF ApplyOk, Return
  <2>2. /\ Backed /\ Len(trail) = mark /\ Len(wal) = mark + 1 /\ mut \in Mutation
        /\ wal[Len(wal)] = mut /\ mem = Last(trail) /\ mem \in Index
    BY <1>1, <2>1 DEF Phase, HandleInv, TypeInv, DataOK
  <2>3. Covers(wal, trail) /\ Len(trail) >= 1 /\ snap = trail[1]
    BY <2>2 DEF Backed, Covers
  <2>4. Covers(wal, trail')
    BY <1>1, <1>2, <2>1, <2>2, <2>3, CoversAppend
  <2>5. mem' \in Index
    BY <2>1, <2>2
  <2>6. /\ Len(trail') = Len(trail) + 1 /\ trail'[Len(trail) + 1] = mem'
        /\ trail'[1] = trail[1]
    BY <1>1, <1>2, <2>1, <2>3, <2>5, AppendProperties
  <2>7. Backed' /\ Len(wal') = Len(trail')
    BY <1>2, <2>1, <2>2, <2>3, <2>4, <2>6, EmptySeq DEF Backed
  <2>8. mem' = Last(trail')
    BY <2>6 DEF Last
  <2>9. QED
    BY <2>1, <2>7, <2>8 DEF Exact
<1>7. CASE Rollback
  <2>1. /\ pc = "rollback" /\ pc' = "rbSync" /\ wal' = SubSeq(wal, 1, mark) /\ clean
        /\ UNCHANGED <<call, mark, mem, walOn, snap, trail, walExists>>
    BY <1>7 DEF Rollback, SetLen
  <2>2. /\ Backed /\ Len(trail) = mark /\ Len(wal) = mark + 1
        /\ (walOn => mem = Last(trail)) /\ call = "mutate"
    BY <1>1, <2>1 DEF Phase
  <2>3. wal' \in Seq(Chunk) /\ Len(wal') = mark
        /\ \A i \in 1..mark : wal'[i] = wal[i]
    BY <1>1, <1>2, <2>1, <2>2, CutLog
  <2>4. Backed'
    BY <1>1, <1>2, <2>1, <2>2, <2>3, BackedPrefix DEF Backed
  <2>5. QED
    BY <2>1, <2>2, <2>3, <2>4 DEF Exact
<1>8. CASE RollbackSync
  <2>1. /\ pc = "rbSync" /\ pc' = "idle" /\ clean
        /\ UNCHANGED <<mem, walOn, snap, trail, walExists, wal>>
    BY <1>8 DEF RollbackSync, SyncNow, Return
  <2>2. Exact' = Exact
    BY <2>1, ExactSame
  <2>3. QED
    BY <1>1, <2>1, <2>2 DEF Phase
<1>9. QED
  BY <1>3, <1>4, <1>5, <1>6, <1>7, <1>8 DEF LogRecord, ApplyRecord

\* A load: it ends in step because it has passed through the whole log.
LEMMA LoadInStep ==
    ASSUME Inv, Recover
    PROVE  InStepInv'
<1> USE DEF InStepInv, Agreeing, Quiet, opVars, snapVars, walVars
<1> SUFFICES ASSUME clean' PROVE InStepInv'
  OBVIOUS
<1>1. Phase /\ InStepInv /\ LoadInv
  BY DEF Inv, TypeInv
<1>2. ASSUME NEW v \in {"none", "good", "bad"}, Parse(v) PROVE InStepInv'
  <2>1. /\ pc = "parse" /\ pc' \in {"down", "replay", "attach"} /\ clean
        /\ UNCHANGED <<walExists, wal, trail, snap>>
    BY <1>1, <1>2 DEF Parse, Abort, Phase
  <2>2. Exact' = Exact
    BY <2>1, ExactSame
  <2>3. QED
    BY <1>1, <2>1, <2>2
<1>3. CASE Replay \/ ReplayEnd
  <2>1. /\ pc = "replay" /\ pc' \in {"down", "replay", "attach"} /\ clean
        /\ UNCHANGED <<walExists, wal, trail, snap>>
    BY <1>1, <1>3 DEF Replay, ReplayEnd, Abort, Phase
  <2>2. Exact' = Exact
    BY <2>1, ExactSame
  <2>3. QED
    BY <1>1, <2>1, <2>2
<1>4. CASE Attach
  <2>1. Exact /\ Backed /\ walExists /\ call = "load" /\ pc = "attach"
    BY <1>1, <1>4 DEF Attach, Phase, Exact, Backed
  <2>2. /\ pc' = "idle" /\ trail' = run
        /\ UNCHANGED <<walExists, wal, snap, mem>>
    BY <1>4, <2>1 DEF Attach, Return
  <2>3. run = trail
    <3>1. run \in Seq(Index) /\ trail \in Seq(Index)
      BY DEF Inv, TypeInv, HistoryOK
    <3>2. Len(run) \in Nat /\ Len(trail) \in Nat /\ Len(wal) \in Nat
      BY <3>1, LenProperties DEF Inv, TypeInv, LogOK
    <3>3. Len(run) <= Len(wal) /\ Agree(run, trail) /\ Len(trail) <= Len(run)
          /\ Len(wal) = Len(trail)
      BY <1>1, <2>1 DEF LoadInv, Exact
    <3>4. Len(run) = Len(trail) /\ \A i \in 1..Len(run) : run[i] = trail[i]
      BY <3>2, <3>3 DEF Agree
    <3>5. QED
      BY <3>1, <3>4, SeqEqual
  <2>4. Exact' = Exact
    BY <2>2, <2>3, ExactSame
  <2>5. mem' = Last(trail')
    BY <1>1, <2>1, <2>2 DEF LoadInv
  <2>6. QED
    BY <2>1, <2>2, <2>4, <2>5
<1>5. QED
  BY <1>2, <1>3, <1>4 DEF Recover

\* I/O errors and crashes: what they leave is in step where `clean' says so.
LEMMA FaultInStep ==
    ASSUME Inv, IoFails \/ Drop \/ Kill \/ PowerLoss
    PROVE  InStepInv'
<1> USE DEF InStepInv, Agreeing, Quiet, opVars, snapVars, walVars
<1> SUFFICES ASSUME clean' PROVE InStepInv'
  OBVIOUS
<1>1. Phase /\ InStepInv
  BY DEF Inv, TypeInv
<1>2. clean /\ pc \in Quiet /\ Exact /\ walExists
  BY <1>1 DEF IoFails, Drop, Kill, PowerLoss, Exact, Backed
<1>3. UNCHANGED <<walExists, wal, trail, snap>>
  <2>1. CASE IoFails
    BY <1>2, <2>1 DEF IoFails, PutFails, Put
  <2>2. CASE Drop \/ Kill
    BY <2>2 DEF Drop, Kill, LoseProcess, WalKill
  <2>3. CASE PowerLoss
    BY <1>2, <2>3 DEF PowerLoss, LoseProcess, WalPowerLoss
  <2>4. QED
    BY <2>1, <2>2, <2>3
<1>4. Exact' = Exact
  BY <1>3, ExactSame
<1>5. CASE IoFails
  <2>1. /\ pc' = (IF call \in {"open", "load"} THEN "down" ELSE "idle")
        /\ (pc' = "idle" => mem' = mem)
        /\ walOn' = walOn
        /\ pc \notin {"down", "idle"}
    BY <1>5 DEF IoFails, Abort
  <2>2. pc' = "idle" => Agreeing
    BY <1>1, <1>2, <2>1 DEF Phase
  <2>3. QED
    BY <1>1, <1>2, <1>3, <1>4, <2>1, <2>2
<1>6. CASE Drop \/ Kill \/ PowerLoss
  BY <1>2, <1>4, <1>6 DEF Drop, Kill, PowerLoss, LoseProcess
<1>7. QED
  BY <1>5, <1>6

LEMMA StutterInStep == InStepInv /\ UNCHANGED vars => InStepInv'
<1> SUFFICES ASSUME InStepInv, UNCHANGED vars PROVE InStepInv'
  OBVIOUS
<1>1. Backed' = Backed /\ Exact' = Exact
  BY ExactSame DEF vars, walVars
<1>2. QED
  BY <1>1 DEF InStepInv, Agreeing, vars, walVars

LEMMA InvInductive == Spec => []Inv
<1>1. Init => Inv
  <2> SUFFICES ASSUME Init PROVE Inv
    OBVIOUS
  <2>1. HandleInv /\ FreshInv /\ LoadInv /\ InStepInv
    BY DEF Init, WalInit, HandleInv, FreshInv, LoadInv, InStepInv
  <2>2. QED
    BY TypeInit, <2>1 DEF Inv
<1>2. Inv /\ [Next]_vars => Inv'
  <2> SUFFICES ASSUME Inv, [Next]_vars PROVE Inv'
    OBVIOUS
  <2>1. TypeInv'
    BY BoolStep, LogStep, HistoryStep, DataStep DEF Inv, TypeInv
  <2>2. HandleInv' /\ FreshInv' /\ LoadInv'
    BY StartStep, LoadStep DEF Inv
  <2>3. InStepInv'
    BY CallInStep, StartLogInStep, RecordInStep, LoadInStep, FaultInStep, StutterInStep
       DEF Inv, Next, Proceed
  <2>4. QED
    BY <2>1, <2>2, <2>3 DEF Inv
<1>3. QED
  BY <1>1, <1>2, PTL DEF Spec

-----------------------------------------------------------------------------
(* The theorems *)

\* Between calls, and wherever a crash leaves the files untouched, the log
\* leads from the snapshot through exactly the acknowledged states and memory
\* holds the last of them: insert and delete with their rollback, checkpoint,
\* open_with and load keep it so.
THEOREM StaysInStep == Spec => []InStep
<1>1. Inv => InStep
  <2> SUFFICES ASSUME Inv, clean, pc \in Quiet
               PROVE  Exact /\ (pc = "idle" /\ walOn => mem = Last(trail))
    BY DEF InStep
  <2>1. Exact
    BY DEF Inv, InStepInv
  <2>2. pc = "idle" => Agreeing
    BY DEF Agreeing, Inv, TypeInv, Phase
  <2>3. QED
    BY <2>1, <2>2 DEF Inv, InStepInv
<1>2. QED
  BY InvInductive, <1>1, PTL

Restored ==
    LoadReturns /\ Backed =>
        /\ Len(trail) <= Len(trail')
        /\ SubSeq(trail', 1, Len(trail)) = trail
        /\ Exact => trail' = trail

\* What LoadResult says of the states that load passed through, in the words
\* of RecoveryKeepsAcked.
LEMMA LoadRestored == Inv /\ [Next]_vars => Restored
<1> SUFFICES ASSUME Inv, [Next]_vars, LoadReturns, Backed
             PROVE  /\ Len(trail) <= Len(run)
                    /\ SubSeq(run, 1, Len(trail)) = trail
                    /\ Exact => run = trail
  BY LoadResult DEF Inv, Restored
<1>1. /\ Len(trail) <= Len(run) /\ Len(run) <= Len(wal)
      /\ \A i \in 1..Len(trail) : run[i] = trail[i]
  BY LoadResult DEF Inv
<1>2. run \in Seq(Index) /\ trail \in Seq(Index)
  BY DEF Inv, TypeInv, HistoryOK
<1>3. Len(run) \in Nat /\ Len(trail) \in Nat
  BY <1>2, LenProperties
<1>4. SubSeq(run, 1, Len(trail)) = trail
  <2>1. /\ SubSeq(run, 1, Len(trail)) \in Seq(Index)
        /\ Len(SubSeq(run, 1, Len(trail))) = Len(trail)
        /\ \A i \in 1..Len(trail) : SubSeq(run, 1, Len(trail))[i] = run[i]
    BY <1>1, <1>2, <1>3, SubSeqProperties
  <2>2. QED
    BY <1>1, <1>2, <2>1, SeqEqual
<1>5. Exact => run = trail
  BY <1>1, <1>2, <1>3, SeqEqual DEF Exact
<1>6. QED
  BY <1>1, <1>4, <1>5

\* A load that returns an index has passed through every acknowledged state
\* that snapshot and log still lead to, in their order, and ends in the last
\* of them if the log holds nothing else (recovery::replay).
THEOREM LoadRestores == Spec => RecoveryKeepsAcked
  BY InvInductive, LoadRestored, PTL DEF Spec, RecoveryKeepsAcked, Restored

-----------------------------------------------------------------------------
(* Restarts where nothing fails *)

\* Callers keep the log on, and do nothing that snapshot and log need not
\* survive: no save beside the log, no index_mut, no open_with over files.
Faithful == Modes \subseteq {TRUE} /\ Events \cap {"save", "bypass", "reopen"} = {}

\* A load ends with its last record, or at the first acknowledged one that it
\* cannot bring back: snapshot and log lead through the first u - 1 states ...
Leads(u) ==
    /\ walExists /\ snap = trail[1] /\ wal[1] = Header
    /\ u - 1 <= Len(trail)
    /\ \A i \in 1..(u - 2) : /\ wal[i + 1] \in Readable
                             /\ Replayable(trail[i], wal[i + 1])
                             /\ trail[i + 1] = Apply(trail[i], wal[i + 1])

\* ... and the next record was acknowledged, but is too long or of another
\* dimension.
Spoiled(u) == Leads(u) /\ wal[u] \in Mutation /\ ~Restorable(wal[u])

\* A snapshot has been renamed and its log is not yet started afresh.
Renewing == {"dirSync", "create", "reset", "header", "headerSync"}

\* As long as nothing has failed, every handle has the log on, and snapshot
\* and log are in step, or are so up to a record that load cannot bring back,
\* except while open_with and checkpoint make them.
CalmInv ==
    faults = 0 =>
      /\ pc # "down" => walOn
      /\ call # "save"
      /\ call = "load" => pc \in {"parse", "replay", "attach"}
      /\ call # "open" /\ (pc # "down" \/ snap \in Index) /\ pc \notin Renewing =>
            \/ clean
            \/ \E u \in 2..Len(wal) : Spoiled(u) /\ (call = "mutate" => u <= mark)

\* Where replay stands in a log that leads that far.
Following(u) ==
    /\ Len(run) <= u - 1 /\ \A i \in 1..Len(run) : run[i] = trail[i]
    /\ pc = "attach" => Len(run) = u - 1 /\ ~FrameAt(wal, u)

Reading == call = "load" /\ pc \in {"parse", "replay", "attach"}

FollowInv ==
    Reading =>
      \A u \in 2..(Len(wal) + 1) :
         Spoiled(u) \/ (Leads(u) /\ u > Len(wal)) => Following(u)

LEMMA FollowStep == TypeInv /\ LoadInv /\ FollowInv /\ [Next]_vars => FollowInv'
<1> SUFFICES ASSUME TypeInv, LoadInv, FollowInv, [Next]_vars, Reading',
                    NEW u \in 2..(Len(wal') + 1),
                    Spoiled(u)' \/ (Leads(u)' /\ u > Len(wal'))
             PROVE  Following(u)'
  BY DEF FollowInv
<1> USE DEF opVars, snapVars, walVars, Reading
<1>1. /\ Phase /\ wal \in Seq(Chunk) /\ run \in Seq(Index) /\ trail \in Seq(Index)
      /\ mem \in Index \cup {NoIndex}
  BY DEF TypeInv, LogOK, HistoryOK, DataOK
<1>2. Len(wal) \in Nat /\ Len(run) \in Nat /\ Len(trail) \in Nat
  BY <1>1, LenProperties
<1>3. CASE UNCHANGED vars
  BY <1>3 DEF vars, FollowInv, Spoiled, Leads, Following, FrameAt
<1>4. ASSUME NEW w \in Modes, Load(w) PROVE Following(u)'
  <2>1. pc' = "parse" /\ run' = <<snap>> /\ snap' = snap /\ wal' = wal
    BY <1>1, <1>4 DEF Load, Start, Phase
  <2>2. Len(run') = 1 /\ run'[1] = snap
    BY <2>1
  <2>3. trail'[1] = snap
    BY <2>1 DEF Spoiled, Leads
  <2>4. u >= 2
    BY <1>2, <2>1
  <2>5. QED
    BY <2>1, <2>2, <2>3, <2>4 DEF Following
<1>5. CASE StartUp \/ BeginSave \/ BeginCheckpoint \/ Mutate
  BY <1>1, <1>4, <1>5 DEF StartUp, OpenWith, BeginSave, BeginCheckpoint, Mutate,
     BeginMutate, MutateUnlogged, Bypass, Start, Phase
<1>6. CASE WriteSnapshot \/ StartLog \/ LogRecord \/ ApplyRecord
  BY <1>1, <1>6 DEF WriteSnapshot, WriteTemp, Rename, DirSync, StartLog, CreateLog,
     ResetLog, PutHeader, HeaderSync, LogRecord, PutHead, PutBody, SyncRecord,
     ApplyRecord, ApplyOk, ApplyRejected, Rollback, RollbackSync, Return, Phase
<1>7. CASE Recover
  <2>1. /\ Reading /\ ~Attach
        /\ UNCHANGED <<walExists, wal, trail, snap>>
    BY <1>1, <1>7 DEF Recover, Parse, Replay, ReplayEnd, Attach, Abort, Return, Phase
  <2>2. /\ Leads(u) /\ u \in 2..(Len(wal) + 1)
        /\ Spoiled(u) \/ u > Len(wal)
    BY <2>1 DEF Spoiled, Leads
  <2>3. Following(u) /\ Len(run) <= u - 1 /\ \A i \in 1..Len(run) : run[i] = trail[i]
    BY <2>1, <2>2 DEF FollowInv, Following
  <2>4. Len(run) >= 1 /\ mem = Last(run)
    BY <2>1 DEF LoadInv
  <2>5. ASSUME NEW v \in {"none", "good", "bad"}, Parse(v) PROVE Following(u)'
    <3>1. walExists /\ wal # <<>> /\ wal # <<PartHeader>> /\ wal[1] = Header
      BY <2>2 DEF Leads
    <3>2. v = "good"
      BY <2>5, <3>1 DEF Parse, HeaderVerdicts
    <3>3. pc' = "replay" /\ run' = run
      BY <2>1, <2>5, <3>2 DEF Parse, Abort
    <3>4. QED
      BY <2>1, <2>3, <3>3 DEF Following
  <2>6. CASE Replay
    <3> DEFINE n == Len(run) + 1
    <3>1. /\ FrameAt(wal, n) /\ Replayable(mem, wal[n]) /\ pc' = "replay"
          /\ mem' = Apply(mem, wal[n]) /\ run' = Append(run, mem')
      BY <2>1, <2>6 DEF Replay, Abort
    <3>2. n \in 2..Len(wal) /\ wal[n] \in Readable
      BY <3>1 DEF FrameAt
    <3>3. n # u
      BY <2>2, <3>1, <3>2 DEF Spoiled, Restorable, Replayable
    <3>4. n <= u - 1
      BY <1>2, <2>2, <2>3, <3>3
    <3>5. mem = trail[Len(run)]
      BY <1>2, <2>3, <2>4 DEF Last
    <3>6. trail[n] = Apply(trail[Len(run)], wal[n])
      BY <1>2, <2>2, <2>4, <3>4 DEF Leads
    <3>7. mem' \in Index
      <4>1. mem \in Index
        BY <1>1, <1>2, <2>4, ElementOfSeq DEF Last
      <4>2. QED
        BY <3>1, <3>2, <4>1 DEF Replayable, Readable
    <3>8. /\ Len(run') = n /\ run'[n] = mem'
          /\ \A i \in 1..Len(run) : run'[i] = run[i]
      BY <1>1, <3>1, <3>7, AppendProperties
    <3>9. ASSUME NEW i \in 1..n PROVE run'[i] = trail[i]
      BY <1>2, <2>3, <3>1, <3>5, <3>6, <3>8, <3>9
    <3> HIDE DEF n
    <3>10. QED
      BY <2>1, <3>1, <3>4, <3>8, <3>9 DEF Following
  <2>7. CASE ReplayEnd
    <3>1. pc' = "attach" /\ run' = run /\ ~FrameAt(wal, Len(run) + 1)
      BY <2>7 DEF ReplayEnd
    <3>2. Len(run) = u - 1
      <4>1. SUFFICES ASSUME Len(run) < u - 1 PROVE FALSE
        BY <1>2, <2>2, <2>3
      <4>2. \A i \in 2..(Len(run) + 1) : wal[i] \in Readable
        <5>1. \A i \in 1..(u - 2) : wal[i + 1] \in Readable
          BY <2>2 DEF Leads
        <5>2. ASSUME NEW i \in 2..(Len(run) + 1) PROVE wal[i] \in Readable
          <6>1. i - 1 \in 1..(u - 2) /\ (i - 1) + 1 = i
            BY <1>2, <2>2, <4>1, <5>2
          <6>2. QED
            BY <5>1, <6>1
        <5>3. QED
          BY <5>2
      <4>3. Len(run) + 1 \in 2..Len(wal)
        BY <1>2, <2>2, <2>4, <4>1
      <4>4. QED
        BY <3>1, <4>2, <4>3 DEF FrameAt
    <3>3. ~FrameAt(wal, u)
      <4>1. Len(run) + 1 = u
        BY <1>2, <2>2, <3>2
      <4>2. QED
        BY <3>1, <4>1
    <3>4. FrameAt(wal', u) = FrameAt(wal, u)
      BY <2>1
    <3>5. QED
      BY <2>1, <2>3, <3>1, <3>2, <3>3, <3>4 DEF Following
  <2>8. QED
    BY <1>7, <2>1, <2>5, <2>6, <2>7 DEF Recover
<1>8. CASE IoFails \/ Drop \/ Kill \/ PowerLoss
  BY <1>8 DEF IoFails, Abort, Drop, Kill, PowerLoss, LoseProcess
<1>9. QED
  BY <1>3, <1>5, <1>6, <1>7, <1>8 DEF Next, Proceed

\* Only the chunks and states up to the record that spoils them matter.
LEMMA SpoiledSame ==
    ASSUME NEW u \in Nat, u >= 2, Spoiled(u), walExists', snap' = snap,
           \A i \in 1..u : wal'[i] = wal[i],
           u - 1 <= Len(trail'), \A i \in 1..(u - 1) : trail'[i] = trail[i]
    PROVE  Spoiled(u)'
<1>1. snap' = trail'[1] /\ wal'[1] = Header
  BY DEF Spoiled, Leads
<1>2. ASSUME NEW i \in 1..(u - 2)
      PROVE  /\ wal'[i + 1] \in Readable
             /\ Replayable(trail'[i], wal'[i + 1])
             /\ trail'[i + 1] = Apply(trail'[i], wal'[i + 1])
  <2>1. wal'[i + 1] = wal[i + 1] /\ trail'[i] = trail[i] /\ trail'[i + 1] = trail[i + 1]
    BY <1>2
  <2>2. QED
    BY <2>1 DEF Spoiled, Leads
<1>3. wal'[u] = wal[u]
  OBVIOUS
<1>4. QED
  BY <1>1, <1>2, <1>3 DEF Spoiled, Leads

\* A mutation is logged, applied or taken back behind the record that spoils
\* the log; one that load cannot bring back spoils it.
LEMMA RecordCalm ==
    ASSUME Inv, LogRecord \/ ApplyRecord,
           clean \/ \E u \in 2..Len(wal) : Spoiled(u) /\ u <= mark
    PROVE  \/ clean'
           \/ \E u \in 2..Len(wal') : Spoiled(u)' /\ u <= mark /\ mark = mark'
           \/ \E u \in 2..Len(wal') : Spoiled(u)' /\ pc' = "idle"
<1> USE DEF opVars, snapVars, walVars
<1>1. /\ TypeInv /\ Phase /\ InStepInv /\ HandleInv
      /\ wal \in Seq(Chunk) /\ trail \in Seq(Index) /\ mark \in Nat
  BY DEF Inv, TypeInv, LogOK, HistoryOK, DataOK
<1>2. Len(wal) \in Nat /\ Len(trail) \in Nat
  BY <1>1, LenProperties
<1>3. CASE PutHead
  <2>1. /\ wal' = Append(wal, Torn) /\ Len(wal) = mark
        /\ UNCHANGED <<clean, mark, snap, trail, walExists>>
    BY <1>1, <1>3 DEF PutHead, WriteFrameHead, Put, Phase
  <2>2. Len(wal') = Len(wal) + 1 /\ \A i \in 1..Len(wal) : wal'[i] = wal[i]
    BY <1>1, <2>1, PutChunk, MarkChunks
  <2>3. ASSUME NEW u \in 2..Len(wal), Spoiled(u), u <= mark
        PROVE  Spoiled(u)' /\ u \in 2..Len(wal')
    <3>1. walExists /\ u - 1 <= Len(trail) /\ u \in Nat /\ u >= 2
      BY <2>3 DEF Spoiled, Leads
    <3>2. \A i \in 1..u : wal'[i] = wal[i]
      BY <1>2, <2>2, <2>3
    <3>3. Spoiled(u)'
      BY <2>1, <2>3, <3>1, <3>2, SpoiledSame
    <3>4. QED
      BY <1>2, <2>2, <3>3
  <2>4. QED
    BY <2>1, <2>3
<1>4. CASE PutBody
  <2>1. /\ wal' = [wal EXCEPT ![Len(wal)] = mut] /\ Len(wal) = mark + 1 /\ mut \in Chunk
        /\ UNCHANGED <<clean, mark, snap, trail, walExists>>
    BY <1>1, <1>4 DEF PutBody, WriteFrameBody, Phase, Chunk
  <2>2. Len(wal') = Len(wal) /\ \A i \in 1..mark : wal'[i] = wal[i]
    BY <1>1, <1>2, <2>1, CompleteFrame
  <2>3. ASSUME NEW u \in 2..Len(wal), Spoiled(u), u <= mark
        PROVE  Spoiled(u)' /\ u \in 2..Len(wal')
    BY <1>1, <1>2, <2>1, <2>2, <2>3, SpoiledSame DEF Spoiled, Leads
  <2>4. QED
    BY <2>1, <2>3
<1>5. CASE SyncRecord \/ ApplyRejected
  <2>1. UNCHANGED <<clean, mark, snap, trail, walExists, wal>>
    BY <1>5 DEF SyncRecord, SyncNow, ApplyRejected
  <2>2. QED
    BY <2>1 DEF Spoiled, Leads
<1>6. CASE ApplyOk
  <2>1. /\ pc = "apply" /\ pc' = "idle" /\ Accepts(mem, mut) /\ mem' = Apply(mem, mut)
        /\ trail' = Append(trail, mem')
        /\ clean' = (clean /\ Restorable(mut))
        /\ UNCHANGED <<snap, walExists, wal>>
    BY <1>6 DEF ApplyOk, Return
  <2>2. mut \in Mutation /\ wal[Len(wal)] = mut /\ Len(wal) = mark + 1 /\ mem' \in Index
    BY <1>1, <2>1 DEF Phase, TypeInv, DataOK
  <2>3. Len(trail') = Len(trail) + 1 /\ \A i \in 1..Len(trail) : trail'[i] = trail[i]
    BY <1>1, <2>1, <2>2, AppendProperties
  <2>4. CASE clean /\ ~Restorable(mut)
    <3>1. Backed /\ Len(trail) = mark
      BY <1>1, <2>1, <2>4 DEF InStepInv
    <3>2. /\ walExists /\ snap = trail[1] /\ wal[1] = Header
          /\ Len(trail) >= 1 /\ Chain(trail, wal)
      BY <3>1 DEF Backed, Covers
    <3>3. PICK u \in 2..Len(wal) : u = Len(wal) /\ u = Len(trail) + 1
      BY <1>2, <2>2, <3>1, <3>2
    <3>4. Spoiled(u)
      <4>1. \A i \in 1..(u - 2) : i \in 1..(Len(trail) - 1)
        BY <1>2, <3>3
      <4>2. \A i \in 1..(u - 2) : /\ wal[i + 1] \in Readable
                                  /\ Replayable(trail[i], wal[i + 1])
                                  /\ trail[i + 1] = Apply(trail[i], wal[i + 1])
        BY <3>2, <4>1 DEF Chain
      <4>3. u - 1 <= Len(trail) /\ wal[u] = mut
        BY <1>2, <2>2, <3>3
      <4>4. QED
        BY <2>2, <2>4, <3>2, <4>2, <4>3 DEF Spoiled, Leads
    <3>5. Spoiled(u)'
      <4>1. u \in Nat /\ u >= 2 /\ u - 1 <= Len(trail') /\ walExists'
        BY <1>2, <2>1, <2>3, <3>2, <3>3
      <4>2. \A i \in 1..(u - 1) : trail'[i] = trail[i]
        BY <1>2, <2>3, <3>3
      <4>3. QED
        BY <2>1, <3>4, <4>1, <4>2, SpoiledSame
    <3>6. QED
      BY <2>1, <3>3, <3>5
  <2>5. ASSUME NEW u \in 2..Len(wal), Spoiled(u) PROVE Spoiled(u)' /\ u \in 2..Len(wal')
    <3>1. walExists /\ u - 1 <= Len(trail)
      BY <2>5 DEF Spoiled, Leads
    <3>2. QED
      BY <1>2, <2>1, <2>3, <2>5, <3>1, SpoiledSame
  <2>6. QED
    BY <2>1, <2>4, <2>5
<1>7. CASE Rollback
  <2>1. /\ wal' = SubSeq(wal, 1, mark) /\ Len(wal) = mark + 1
        /\ UNCHANGED <<clean, mark, snap, trail, walExists>>
    BY <1>1, <1>7 DEF Rollback, SetLen, Phase
  <2>2. Len(wal') = mark /\ \A i \in 1..mark : wal'[i] = wal[i]
    BY <1>1, <1>2, <2>1, CutLog
  <2>3. ASSUME NEW u \in 2..Len(wal), Spoiled(u), u <= mark
        PROVE  Spoiled(u)' /\ u \in 2..Len(wal')
    BY <1>1, <1>2, <2>1, <2>2, <2>3, SpoiledSame DEF Spoiled, Leads
  <2>4. QED
    BY <2>1, <2>3
<1>8. CASE RollbackSync
  <2>1. UNCHANGED <<clean, snap, trail, walExists, wal>> /\ pc' = "idle"
    BY <1>8 DEF RollbackSync, SyncNow, Return
  <2>2. QED
    BY <2>1 DEF Spoiled, Leads
<1>9. QED
  BY <1>3, <1>4, <1>5, <1>6, <1>7, <1>8 DEF LogRecord, ApplyRecord

\* Faults are counted and never forgotten.
LEMMA NothingFailed ==
    ASSUME TypeInv, [Next]_vars, faults' = 0
    PROVE  faults = 0 /\ ~(IoFails \/ Kill \/ PowerLoss)
<1>1. ~(faults' = faults + 1)
  BY DEF TypeInv, DataOK
<1>2. ~(IoFails \/ Kill \/ PowerLoss)
  BY <1>1 DEF IoFails, Kill, PowerLoss, Fault
<1>3. faults' = faults
  BY <1>2 DEF Next, Proceed, StartUp, Load, OpenWith, BeginSave, BeginCheckpoint,
     Mutate, BeginMutate, MutateUnlogged, Bypass, WriteSnapshot, WriteTemp, Rename,
     DirSync, StartLog, CreateLog, ResetLog, PutHeader, HeaderSync, LogRecord,
     PutHead, PutBody, SyncRecord, ApplyRecord, ApplyOk, ApplyRejected, Rollback,
     RollbackSync, Recover, Parse, Replay, ReplayEnd, Attach, Drop, vars
<1>4. QED
  BY <1>2, <1>3

\* Nothing but a fault, or a caller that is not Faithful, ends that.
LEMMA CalmStep ==
    Faithful /\ Inv /\ FollowInv /\ CalmInv /\ [Next]_vars => CalmInv'
<1> SUFFICES ASSUME Faithful, Inv, FollowInv, CalmInv, [Next]_vars, faults' = 0
             PROVE  CalmInv'
  BY DEF CalmInv
<1> USE DEF CalmInv, Renewing, opVars, snapVars, walVars
<1>1. /\ TypeInv /\ Phase /\ faults \in Nat /\ mem \in Index \cup {NoIndex}
      /\ pc = "down" <=> mem = NoIndex
      /\ wal \in Seq(Chunk) /\ mark \in Nat
  BY DEF Inv, TypeInv, DataOK, LogOK
<1>2. faults = 0 /\ ~(IoFails \/ Kill \/ PowerLoss) /\ Len(wal) \in Nat
  BY <1>1, NothingFailed, LenProperties
<1>3. UNCHANGED <<walExists, wal, trail, snap>> => \A u : Spoiled(u)' = Spoiled(u)
  BY DEF Spoiled, Leads
<1>4. CASE UNCHANGED vars
  BY <1>2, <1>3, <1>4 DEF vars
<1>5. CASE StartUp
  <2>1. PICK w \in Modes : Load(w) \/ \E s \in Bases : OpenWith(s, w)
    BY <1>5 DEF StartUp
  <2>2. w = TRUE /\ "reopen" \notin Events
    BY DEF Faithful
  <2>3. CASE Load(w)
    <3>1. /\ pc = "down" /\ snap \in Index /\ walOn' /\ call' = "load" /\ pc' = "parse"
          /\ clean' = clean /\ UNCHANGED <<walExists, wal, trail, snap>>
      BY <2>2, <2>3 DEF Load, Start
    <3>2. call = "none"
      BY <1>1, <3>1 DEF Phase
    <3>3. QED
      BY <1>2, <1>3, <3>1, <3>2
  <2>4. CASE \E s \in Bases : OpenWith(s, w)
    <3>1. walOn' /\ call' = "open" /\ pc' = "temp"
      BY <2>2, <2>4 DEF OpenWith, Start
    <3>2. QED
      BY <3>1
  <2>5. QED
    BY <2>1, <2>3, <2>4
<1>6. CASE BeginSave \/ BeginCheckpoint \/ Mutate
  <2>1. "save" \notin Events /\ "bypass" \notin Events
    BY DEF Faithful
  <2>2. /\ pc = "idle" /\ walOn /\ call = "none"
        /\ clean \/ \E u \in 2..Len(wal) : Spoiled(u)
    BY <1>1, <1>2, <1>6 DEF BeginSave, BeginCheckpoint, Mutate, BeginMutate,
       MutateUnlogged, Bypass, Phase
  <2>3. CASE BeginCheckpoint
    BY <1>3, <2>2, <2>3 DEF BeginCheckpoint, Start
  <2>4. CASE \E m \in Mutation : BeginMutate(m)
    <3>1. /\ UNCHANGED <<walExists, wal, trail, snap, clean, walOn>> /\ mark' = Len(wal)
          /\ call' = "mutate" /\ pc' = "head"
      BY <2>4 DEF BeginMutate, Start
    <3>2. \A u \in 2..Len(wal) : u <= mark'
      BY <1>2, <3>1
    <3>3. QED
      BY <1>3, <2>2, <3>1, <3>2
  <2>5. QED
    BY <1>6, <2>1, <2>2, <2>3, <2>4 DEF BeginSave, Mutate, MutateUnlogged, Bypass
<1>7. CASE WriteSnapshot
  <2>1. CASE WriteTemp
    BY <1>1, <1>2, <1>3, <2>1 DEF WriteTemp, Phase
  <2>2. CASE Rename \/ DirSync
    BY <1>1, <1>2, <2>2 DEF Rename, DirSync, Return, Phase
  <2>3. QED
    BY <1>7, <2>1, <2>2 DEF WriteSnapshot
<1>8. CASE StartLog
  BY <1>1, <1>2, <1>8 DEF StartLog, CreateLog, ResetLog, PutHeader, HeaderSync,
     Return, Phase
<1>9. CASE LogRecord \/ ApplyRecord
  <2>1. /\ pc \in {"head", "body", "sync", "apply", "rollback", "rbSync"}
        /\ call = "mutate" /\ UNCHANGED walOn
        /\ \/ call' = "mutate" /\ pc' \notin {"down", "idle"}
           \/ call' = "none" /\ pc' = "idle"
    BY <1>1, <1>9 DEF LogRecord, PutHead, PutBody, SyncRecord, ApplyRecord,
       ApplyOk, ApplyRejected, Rollback, RollbackSync, Return, Phase
  <2>2. walOn /\ (clean \/ \E u \in 2..Len(wal) : Spoiled(u) /\ u <= mark)
    BY <1>2, <2>1
  <2>3. \/ clean'
        \/ \E u \in 2..Len(wal') : Spoiled(u)' /\ u <= mark /\ mark = mark'
        \/ \E u \in 2..Len(wal') : Spoiled(u)' /\ pc' = "idle"
    BY <1>9, <2>2, RecordCalm
  <2>4. pc' = "idle" => call' = "none"
    BY <2>1
  <2>5. QED
    BY <2>1, <2>2, <2>3, <2>4
<1>10. CASE Recover
  <2>1. /\ call = "load" /\ pc \in {"parse", "replay", "attach"} /\ walOn
        /\ UNCHANGED <<snap, walOn, clean>>
        /\ snap \in Index
    BY <1>1, <1>2, <1>10 DEF Recover, Parse, Replay, ReplayEnd, Attach, CreateEmpty,
       Phase, Inv, LoadInv, Abort, Return
  <2>2. clean \/ \E u \in 2..Len(wal) : Spoiled(u)
    BY <1>2, <2>1
  <2>3. CASE Attach
    <3>1. walExists
      BY <1>1, <2>1, <2>2, <2>3 DEF Attach, Inv, InStepInv, Quiet, Exact, Backed,
         Spoiled, Leads
    <3>2. pc' = "idle" /\ call' = "none" /\ trail' = run /\ walExists' /\ wal' = wal
      BY <2>3, <3>1 DEF Attach, Return
    <3>3. ASSUME NEW u \in 2..Len(wal), Spoiled(u) PROVE Spoiled(u)'
      <4>1. Following(u)
        BY <1>2, <2>1, <3>3 DEF FollowInv, Reading
      <4>2. Len(run) = u - 1 /\ \A i \in 1..(u - 1) : run[i] = trail[i]
        BY <2>3, <4>1 DEF Attach, Following
      <4>3. u \in Nat /\ u >= 2
        BY <3>3
      <4>4. u - 1 <= Len(trail') /\ \A i \in 1..(u - 1) : trail'[i] = trail[i]
        BY <3>2, <4>2, <4>3
      <4>5. QED
        BY <2>1, <3>2, <3>3, <4>3, <4>4, SpoiledSame
    <3>4. QED
      BY <2>1, <2>2, <3>2, <3>3
  <2>4. CASE ~Attach
    <3>1. /\ UNCHANGED <<walExists, wal, trail>>
          /\ \/ call' = "load" /\ pc' \in {"parse", "replay", "attach"}
             \/ call' = "none" /\ pc' = "down"
      BY <1>1, <1>10, <2>1, <2>4 DEF Recover, Parse, Replay, ReplayEnd, Abort, Phase
    <3>2. QED
      BY <1>3, <2>1, <2>2, <3>1
  <2>5. QED
    BY <2>3, <2>4
<1>11. CASE Drop
  <2>1. /\ pc = "idle" /\ call = "none" /\ call' = "none" /\ pc' = "down"
        /\ UNCHANGED <<walExists, wal, trail, snap, clean>>
    BY <1>1, <1>11 DEF Drop, LoseProcess, WalKill, Phase
  <2>2. QED
    BY <1>2, <1>3, <2>1
<1>12. QED
  BY <1>2, <1>4, <1>5, <1>6, <1>7, <1>8, <1>9, <1>10, <1>11 DEF Next, Proceed

\* Exact is to lead through the whole log.
LEMMA ExactLeads ==
    ASSUME Inv, Exact
    PROVE  Leads(Len(wal) + 1) /\ Len(wal) >= 1
<1>1. /\ walExists /\ snap = trail[1] /\ wal[1] = Header /\ Chain(trail, wal)
      /\ Len(wal) = Len(trail) /\ Len(trail) >= 1
  BY DEF Exact, Backed, Covers
<1>2. Len(wal) \in Nat
  BY LenProperties DEF Inv, TypeInv, LogOK
<1>3. (Len(wal) + 1) - 2 = Len(trail) - 1 /\ (Len(wal) + 1) - 1 = Len(trail)
  BY <1>1, <1>2
<1>4. QED
  BY <1>1, <1>3 DEF Leads, Chain

\* Where a log stops being restorable is one place.
LEMMA OneStop ==
    ASSUME TypeInv, NEW u \in 2..(Len(wal) + 1), NEW v \in 2..(Len(wal) + 1),
           StopsAt(wal, u), Leads(v), Spoiled(v) \/ v > Len(wal)
    PROVE  u = v
<1>1. Len(wal) \in Nat
  BY LenProperties DEF TypeInv, LogOK
<1>2. \A i \in 2..(v - 1) : Restorable(wal[i])
  <2>1. ASSUME NEW i \in 2..(v - 1) PROVE Restorable(wal[i])
    <3>1. i - 1 \in 1..(v - 2) /\ (i - 1) + 1 = i
      BY <1>1, <2>1
    <3>2. wal[i] \in Readable /\ Replayable(trail[i - 1], wal[i])
      BY <3>1 DEF Leads
    <3>3. QED
      BY <3>2 DEF Restorable, Replayable
  <2>2. QED
    BY <2>1
<1>3. ~(u < v)
  <2>1. SUFFICES ASSUME u < v PROVE FALSE
    OBVIOUS
  <2>2. u \in 2..(v - 1) /\ u <= Len(wal)
    BY <1>1, <2>1
  <2>3. QED
    BY <1>2, <2>2 DEF StopsAt
<1>4. ~(v < u)
  <2>1. SUFFICES ASSUME v < u PROVE FALSE
    OBVIOUS
  <2>2. v \in 2..(u - 1) /\ ~(v > Len(wal))
    BY <1>1, <2>1
  <2>3. QED
    BY <2>2 DEF StopsAt, Spoiled
<1>5. QED
  BY <1>1, <1>3, <1>4

\* A load of a log that leads to u ends there: it is refused if the record at
\* u can be read, and returns the state before u otherwise.
LEMMA LoadStops ==
    ASSUME Inv, FollowInv, Reading, Recover, call' # "load",
           NEW u \in 2..(Len(wal) + 1), Leads(u), Spoiled(u) \/ u > Len(wal)
    PROVE  IF u <= Len(wal) /\ wal[u] \in Readable
             THEN pc' = "down"
             ELSE pc' = "idle" /\ mem' = trail[u - 1]
<1> USE DEF opVars, Reading
<1>1. /\ Following(u) /\ Len(run) <= u - 1 /\ \A i \in 1..Len(run) : run[i] = trail[i]
      /\ walExists /\ wal[1] = Header
  BY DEF FollowInv, Following, Leads
<1>2. /\ wal \in Seq(Chunk) /\ Len(wal) \in Nat /\ Len(run) \in Nat
      /\ Len(run) >= 1 /\ mem = Last(run) /\ Len(wal) >= 1
  <2>1. wal \in Seq(Chunk) /\ Len(wal) \in Nat /\ Len(run) \in Nat
    BY LenProperties DEF Inv, TypeInv, LogOK, HistoryOK
  <2>2. Len(run) >= 1 /\ mem = Last(run)
    BY DEF Inv, LoadInv
  <2>3. QED
    BY <2>1, <2>2
<1>3. \A i \in 2..(u - 1) : wal[i] \in Readable
  <2>1. ASSUME NEW i \in 2..(u - 1) PROVE wal[i] \in Readable
    <3>1. i - 1 \in 1..(u - 2) /\ (i - 1) + 1 = i
      BY <1>2, <2>1
    <3>2. QED
      BY <3>1 DEF Leads
  <2>2. QED
    BY <2>1
<1>4. ASSUME NEW v \in {"none", "good", "bad"}, Parse(v)
      PROVE  pc' = "down" /\ u <= Len(wal) /\ wal[u] \in Readable
  <2>1. wal # <<>> /\ wal # <<PartHeader>>
    BY <1>1, <1>2
  <2>2. v = "good"
    BY <1>1, <1>4, <2>1 DEF Parse, HeaderVerdicts
  <2>3. DecodeFails(wal) /\ pc' = "down"
    BY <1>4, <2>2 DEF Parse, Abort
  <2>4. PICK n \in 2..Len(wal) : wal[n] = Zeros /\ \A i \in 2..(n - 1) : wal[i] \in Readable
    BY <2>3 DEF DecodeFails
  <2>5. Zeros \notin Mutation
    BY DEF Mark
  <2>6. n > u
    BY <1>2, <1>3, <2>4, <2>5 DEF Spoiled, Readable
  <2>7. u \in 2..(n - 1) /\ u <= Len(wal)
    BY <1>2, <2>6
  <2>8. QED
    BY <2>3, <2>4, <2>7
<1>5. ASSUME Replay PROVE pc' = "down" /\ u <= Len(wal) /\ wal[u] \in Readable
  <2> DEFINE n == Len(run) + 1
  <2>1. FrameAt(wal, n) /\ ~Replayable(mem, wal[n]) /\ pc' = "down"
    BY <1>5 DEF Replay, Abort
  <2>2. n \in 2..Len(wal) /\ wal[n] \in Readable
    BY <2>1 DEF FrameAt
  <2>3. n >= u
    <3>1. SUFFICES ASSUME Len(run) <= u - 2 PROVE FALSE
      BY <1>2, <2>2
    <3>2. Len(run) \in 1..(u - 2)
      BY <1>2, <3>1
    <3>3. Replayable(trail[Len(run)], wal[Len(run) + 1]) /\ mem = trail[Len(run)]
      BY <1>1, <1>2, <3>2 DEF Leads, Last
    <3>4. QED
      BY <2>1, <3>3
  <2>4. n = u
    BY <1>1, <1>2, <2>2, <2>3
  <2>5. QED
    BY <2>1, <2>2, <2>4
<1>6. ~ReplayEnd
  BY DEF ReplayEnd
<1>7. ASSUME Attach
      PROVE  pc' = "idle" /\ mem' = trail[u - 1] /\ ~(u <= Len(wal) /\ wal[u] \in Readable)
  <2>1. pc = "attach" /\ pc' = "idle" /\ mem' = mem
    BY <1>1, <1>7 DEF Attach, Return
  <2>2. Len(run) = u - 1 /\ ~FrameAt(wal, u)
    BY <1>1, <2>1 DEF Following
  <2>3. mem = trail[u - 1]
    BY <1>1, <1>2, <2>2 DEF Last
  <2>4. ~(u <= Len(wal) /\ wal[u] \in Readable)
    <3>1. SUFFICES ASSUME u <= Len(wal), wal[u] \in Readable PROVE FALSE
      OBVIOUS
    <3>2. u \in 2..Len(wal) /\ \A i \in 2..u : wal[i] \in Readable
      BY <1>2, <1>3, <3>1
    <3>3. QED
      BY <2>2, <3>2 DEF FrameAt
  <2>5. QED
    BY <2>1, <2>3, <2>4
<1>8. QED
  BY <1>4, <1>5, <1>6, <1>7 DEF Recover

\* What RestartRestores says of a step.
Restarted ==
    faults' = 0 /\ call = "load" /\ call' # "load" =>
        \A u \in 2..(Len(wal) + 1) : StopsAt(wal, u) =>
            IF u <= Len(wal) /\ wal[u] \in Readable
              THEN pc' = "down"
              ELSE /\ pc' = "idle"
                   /\ u - 1 <= Len(trail) /\ mem' = trail[u - 1]
                   /\ u > Len(wal) => mem' = Last(trail) /\ Exact'

\* Where nothing fails and callers keep the log, a load returns exactly the
\* index that the previous process had acknowledged, and snapshot and log
\* stay in step with it: no restart loses a mutation or applies one twice.
\* If a mutation was acknowledged that load cannot bring back, every load is
\* refused, or ends before the first such one, as its record is readable or
\* too long.
THEOREM RestartsRestore == Faithful => (Spec => RestartRestores)
<1> SUFFICES ASSUME Faithful PROVE Spec => RestartRestores
  OBVIOUS
<1>1. Init => CalmInv /\ FollowInv
  BY DEF Init, CalmInv, FollowInv, Reading, IndexAssumption
<1>2. Inv /\ FollowInv /\ CalmInv /\ [Next]_vars => CalmInv' /\ FollowInv'
  BY CalmStep, FollowStep DEF Inv
<1>3. Inv /\ FollowInv /\ CalmInv /\ Inv' /\ CalmInv' /\ [Next]_vars => Restarted
  <2> SUFFICES ASSUME Inv, FollowInv, CalmInv, Inv', CalmInv', [Next]_vars,
                      faults' = 0, call = "load", call' # "load",
                      NEW u \in 2..(Len(wal) + 1), StopsAt(wal, u)
               PROVE  IF u <= Len(wal) /\ wal[u] \in Readable
                        THEN pc' = "down"
                        ELSE /\ pc' = "idle"
                             /\ u - 1 <= Len(trail) /\ mem' = trail[u - 1]
                             /\ u > Len(wal) => mem' = Last(trail) /\ Exact'
    BY DEF Restarted
  <2>1. /\ TypeInv /\ Phase /\ faults = 0 /\ InStepInv /\ Len(wal) \in Nat
        /\ ~(IoFails \/ Kill \/ PowerLoss)
    BY NothingFailed, LenProperties DEF Inv, TypeInv, LogOK
  <2>2. Reading /\ pc # "down" /\ pc \notin Renewing
    BY <2>1 DEF CalmInv, Reading, Renewing
  <2>3. clean \/ \E v \in 2..Len(wal) : Spoiled(v)
    BY <2>1, <2>2 DEF CalmInv
  <2>4. Recover
    BY <2>1, <2>2 DEF Reading, Next, Proceed, vars, opVars, StartUp, Load, OpenWith,
       BeginSave, BeginCheckpoint, Mutate, BeginMutate, MutateUnlogged, Bypass,
       WriteSnapshot, WriteTemp, Rename, DirSync, StartLog, CreateLog, ResetLog,
       PutHeader, HeaderSync, LogRecord, PutHead, PutBody, SyncRecord, ApplyRecord,
       ApplyOk, ApplyRejected, Rollback, RollbackSync, Drop
  <2>5. clean => Exact
    BY <2>1, <2>2 DEF InStepInv, Quiet, Reading
  <2>6. Leads(u) /\ (Spoiled(u) \/ (u > Len(wal) /\ clean))
    <3>1. CASE clean
      <4>1. Leads(Len(wal) + 1) /\ Len(wal) + 1 \in 2..(Len(wal) + 1) /\ Len(wal) + 1 > Len(wal)
        BY <2>1, <2>5, <3>1, ExactLeads
      <4>2. u = Len(wal) + 1
        BY <2>1, <4>1, OneStop
      <4>3. QED
        BY <3>1, <4>1, <4>2
    <3>2. CASE \E v \in 2..Len(wal) : Spoiled(v)
      <4>1. PICK v \in 2..Len(wal) : Spoiled(v)
        BY <3>2
      <4>2. u = v
        <5>1. v \in 2..(Len(wal) + 1) /\ Leads(v)
          BY <2>1, <4>1 DEF Spoiled
        <5>2. QED
          BY <2>1, <4>1, <5>1, OneStop
      <4>3. QED
        BY <4>1, <4>2 DEF Spoiled
    <3>3. QED
      BY <2>3, <3>1, <3>2
  <2>7. IF u <= Len(wal) /\ wal[u] \in Readable
          THEN pc' = "down"
          ELSE pc' = "idle" /\ mem' = trail[u - 1]
    BY <2>2, <2>4, <2>6, LoadStops
  <2>8. ASSUME u > Len(wal) PROVE mem' = Last(trail) /\ Exact'
    <3>1. ~(u <= Len(wal)) /\ pc' = "idle"
      BY <2>1, <2>7, <2>8
    <3>2. clean
      <4>1. u = Len(wal) + 1
        BY <2>1, <2>8
      <4>2. SUFFICES ASSUME NEW v \in 2..Len(wal), Spoiled(v) PROVE FALSE
        BY <2>3
      <4>3. v \in 2..(Len(wal) + 1) /\ Leads(v)
        BY <2>1, <4>2 DEF Spoiled
      <4>4. u = v
        BY <2>1, <4>2, <4>3, OneStop
      <4>5. QED
        BY <2>1, <4>1, <4>2, <4>4
    <3>3. Exact /\ Backed
      BY <2>5, <3>2 DEF Exact
    <3>4. trail' = trail
      BY <2>2, <3>1, <3>3, LoadRestored DEF Reading, LoadReturns, Restored
    <3>5. call' = "none"
      BY <3>1 DEF Inv, TypeInv, Phase
    <3>6. walOn' /\ clean'
      <4>1. walOn'
        BY <3>1 DEF CalmInv
      <4>2. clean' = clean
        BY <2>4 DEF Recover, Parse, Replay, ReplayEnd, Attach
      <4>3. QED
        BY <3>2, <4>1, <4>2
    <3>7. Exact' /\ mem' = Last(trail')
      BY <3>1, <3>5, <3>6 DEF Inv, InStepInv, Quiet, Agreeing
    <3>8. QED
      BY <3>4, <3>7
  <2>9. u - 1 <= Len(trail)
    BY <2>6 DEF Leads
  <2>10. QED
    BY <2>1, <2>7, <2>8, <2>9
<1>4. QED
  BY InvInductive, <1>1, <1>2, <1>3, PTL DEF Spec, RestartRestores, Restarted
=============================================================================
