-------------------------- MODULE AtomicWriteProofs --------------------------
(***************************************************************************)
(* Theorems about AtomicWrite, for any number of savers, values and names. *)
(***************************************************************************)
EXTENDS AtomicWrite, SequenceTheorems, TLAPS

USE ValueAssumption, UnsyncedAssumption, AtomicBoundAssumption

-----------------------------------------------------------------------------
(* The invariant *)

Content == Value \cup {Partial, NoFile}

\* AtomicTypeOK but for flushed, in two parts: what savers keep, and files.
SaverOK ==
    /\ step \in [Saver -> Steps]
    /\ image \in [Saver -> Value] /\ name \in [Saver -> Names]
    /\ at \in [Saver -> Nat] /\ result \in [Saver -> Results]
    /\ faults \in Nat

FileOK ==
    /\ temp \in [Names -> Content]
    /\ history \in Seq(Content) /\ Len(history) >= 1
    /\ durable \in 1..Len(history)
    /\ soft \subseteq 1..Len(history)
    /\ author \in Seq(Saver \cup {NoFile}) /\ Len(author) = Len(history)

FlagOK == flushed \in [Saver -> BOOLEAN]

\* Where a saver stands: it has replaced the target exactly when only its
\* directory sync is left, and it renames an unsynced file only under Never.
SaveInv ==
    \A p \in Saver :
        /\ at[p] # 0 <=> step[p] = "dirSync"
        /\ at[p] <= Len(history)
        /\ step[p] = "rename" => (flushed[p] <=> p \notin Unsynced)

\* Only savers under Never leave data a power loss may take.
SoftInv == \A k \in soft : author[k] \in Unsynced

\* A save replaces the target and never takes it away.
TargetThere == \A k \in 2..Len(history) : history[k] # NoFile

LEMMA SaverStep == SaverOK /\ FileOK /\ [Next]_vars => SaverOK'
<1> SUFFICES ASSUME SaverOK, FileOK, [Next]_vars PROVE SaverOK'
  OBVIOUS
<1> USE DEF SaverOK, Steps, Results, Leave, Goto, Fault, fileVars
<1>1. CASE UNCHANGED vars
  BY <1>1 DEF vars
<1>2. ASSUME NEW p \in Saver, NEW v \in Value, NEW n \in Names, Begin(p, v, n)
      PROVE  SaverOK'
  BY <1>2 DEF Begin
<1>3. ASSUME NEW p \in Saver, CreateTemp(p) PROVE SaverOK'
  BY <1>3 DEF CreateTemp
<1>4. ASSUME NEW p \in Saver, WriteTemp(p) \/ SyncTemp(p) PROVE SaverOK'
  BY <1>4 DEF WriteTemp, SyncTemp
<1>5. ASSUME NEW p \in Saver, Rename(p) PROVE SaverOK'
  <2>1. temp[name[p]] \in Content
    BY DEF FileOK
  <2>2. Len(history') \in Nat
    BY <1>5, <2>1, AppendProperties DEF Rename, FileOK
  <2>3. QED
    BY <1>5, <2>2 DEF Rename
<1>6. ASSUME NEW p \in Saver, SyncDir(p) PROVE SaverOK'
  BY <1>6 DEF SyncDir
<1>7. ASSUME NEW p \in Saver, Fails(p) PROVE SaverOK'
  BY <1>7 DEF Fails
<1>8. ASSUME NEW p \in Saver, RemoveTemp(p) \/ RemoveFails(p) \/ Kill(p) PROVE SaverOK'
  BY <1>8 DEF RemoveTemp, RemoveFails, Kill
<1>9. CASE PowerLoss
  BY <1>9 DEF PowerLoss
<1>10. QED
  BY <1>1, <1>2, <1>3, <1>4, <1>5, <1>6, <1>7, <1>8, <1>9 DEF Next

\* What a power loss leaves of the target: some of history, and perhaps a
\* last image without its data.
LEMMA LostContent ==
    ASSUME FileOK, PowerLoss
    PROVE  \E k \in durable..Len(history) :
              /\ history' \in Seq(Content) /\ Len(history') = k /\ durable' = k
              /\ \A i \in 1..(k - 1) : history'[i] = history[i]
              /\ history'[k] = history[k] \/ (k \in soft /\ history'[k] = Partial)
<1>1. history \in Seq(Content) /\ Len(history) \in Nat /\ durable \in 1..Len(history)
      /\ durable' = Len(history')
  BY LenProperties DEF FileOK, PowerLoss
<1>2. PICK k \in durable..Len(history) :
         \/ history' = SubSeq(history, 1, k)
         \/ k \in soft /\ history' = Append(SubSeq(history, 1, k - 1), Partial)
  BY DEF PowerLoss
<1>3. CASE history' = SubSeq(history, 1, k)
  BY <1>1, <1>2, <1>3, SubSeqProperties
<1>4. CASE k \in soft /\ history' = Append(SubSeq(history, 1, k - 1), Partial)
  <2> DEFINE h == SubSeq(history, 1, k - 1)
  <2>1. h \in Seq(Content) /\ Len(h) = k - 1 /\ \A i \in 1..(k - 1) : h[i] = history[i]
    BY <1>1, <1>2, SubSeqProperties
  <2>2. Partial \in Content
    BY DEF Content
  <2> HIDE DEF h
  <2>3. Append(h, Partial) \in Seq(Content) /\ Len(Append(h, Partial)) = k
        /\ Append(h, Partial)[k] = Partial
        /\ \A i \in 1..(k - 1) : Append(h, Partial)[i] = h[i]
    BY <1>1, <1>2, <2>1, <2>2, AppendProperties
  <2>4. history' = Append(h, Partial)
    BY <1>4 DEF h
  <2>5. QED
    BY <1>1, <1>4, <2>1, <2>3, <2>4
<1>5. QED
  BY <1>2, <1>3, <1>4

LEMMA FileStep == SaverOK /\ FileOK /\ [Next]_vars => FileOK'
<1> SUFFICES ASSUME SaverOK, FileOK, [Next]_vars PROVE FileOK'
  OBVIOUS
<1>1. /\ temp \in [Names -> Content] /\ history \in Seq(Content)
      /\ Len(history) \in Nat /\ {NoFile, Partial} \subseteq Content
      /\ Value \subseteq Content
  BY LenProperties DEF FileOK, Content
<1> USE DEF fileVars
<1>2. CASE UNCHANGED vars
  BY <1>2 DEF vars, FileOK
<1>3. ASSUME NEW p \in Saver, NEW v \in Value, NEW n \in Names, Begin(p, v, n)
      PROVE  FileOK'
  BY <1>3 DEF Begin, FileOK
<1>4. ASSUME NEW p \in Saver, CreateTemp(p) \/ RemoveTemp(p) \/ WriteTemp(p)
      PROVE  FileOK'
  <2>1. temp' \in [Names -> Content]
    <3>1. image[p] \in Content
      BY <1>1 DEF SaverOK
    <3>2. temp' = temp \/ \E c \in Content : temp' = [temp EXCEPT ![name[p]] = c]
      BY <1>1, <1>4, <3>1 DEF CreateTemp, RemoveTemp, WriteTemp
    <3>3. QED
      BY <1>1, <3>2
  <2>2. QED
    BY <1>4, <2>1 DEF CreateTemp, RemoveTemp, WriteTemp, FileOK
<1>5. ASSUME NEW p \in Saver, SyncTemp(p) \/ Fails(p) \/ RemoveFails(p) \/ Kill(p)
      PROVE  FileOK'
  BY <1>5 DEF SyncTemp, Fails, RemoveFails, Kill, FileOK
<1>6. ASSUME NEW p \in Saver, Rename(p) PROVE FileOK'
  <2>1. temp[name[p]] \in Content
    BY <1>1 DEF SaverOK
  <2>2. history' \in Seq(Content) /\ Len(history') = Len(history) + 1
    BY <1>1, <1>6, <2>1, AppendProperties DEF Rename
  <2>3. temp' \in [Names -> Content]
    BY <1>1, <1>6 DEF Rename
  <2>4. soft' \subseteq soft \cup {Len(history')} /\ durable' = durable
    BY <1>6 DEF Rename
  <2>6. author' \in Seq(Saver \cup {NoFile}) /\ Len(author') = Len(author) + 1
    <3>1. author \in Seq(Saver \cup {NoFile}) /\ p \in Saver \cup {NoFile}
      BY DEF FileOK
    <3>2. QED
      BY <1>6, <3>1, AppendProperties DEF Rename
  <2>5. QED
    <3>1. soft' \subseteq 1..Len(history')
      BY <1>1, <2>2, <2>4 DEF FileOK
    <3>2. durable' \in 1..Len(history')
      BY <1>1, <2>2, <2>4 DEF FileOK
    <3>3. QED
      BY <1>1, <2>2, <2>3, <2>6, <3>1, <3>2 DEF FileOK
<1>7. ASSUME NEW p \in Saver, SyncDir(p) PROVE FileOK'
  BY <1>1, <1>7 DEF SyncDir, FileOK
<1>8. CASE PowerLoss
  <2>1. temp' \in [Names -> Content]
    BY <1>1, <1>8 DEF PowerLoss
  <2>2. PICK k \in durable..Len(history) :
          history' \in Seq(Content) /\ Len(history') = k /\ durable' = k
    BY <1>8, LostContent
  <2>3. author' = SubSeq(author, 1, k) /\ k \in 1..Len(author)
    BY <1>1, <1>8, <2>2 DEF PowerLoss, FileOK
  <2>4. author' \in Seq(Saver \cup {NoFile}) /\ Len(author') = k
    BY <1>1, <2>3, SubSeqProperties DEF FileOK
  <2>5. QED
    BY <1>1, <1>8, <2>1, <2>2, <2>4 DEF PowerLoss, FileOK
<1>9. QED
  BY <1>2, <1>3, <1>4, <1>5, <1>6, <1>7, <1>8 DEF Next

LEMMA FlagStep == FlagOK /\ [Next]_vars => FlagOK'
<1> SUFFICES ASSUME FlagOK, [Next]_vars PROVE FlagOK'
  OBVIOUS
<1> USE DEF FlagOK, fileVars
<1>1. UNCHANGED flushed \/ \E p \in Saver, b \in BOOLEAN : flushed' = [flushed EXCEPT ![p] = b]
  <2>1. \A p \in Saver : (p \notin Unsynced) \in BOOLEAN
    BY Zenon
  <2>2. \A p \in Saver : SyncTemp(p) =>
          \E b \in BOOLEAN : flushed' = [flushed EXCEPT ![p] = b]
    BY <2>1, Zenon DEF SyncTemp
  <2>3. \A p \in Saver, v \in Value, n \in Names : Begin(p, v, n) =>
          \E b \in BOOLEAN : flushed' = [flushed EXCEPT ![p] = b]
    BY Zenon DEF Begin
  <2>4. \A p \in Saver :
          CreateTemp(p) \/ WriteTemp(p) \/ Rename(p) \/ SyncDir(p) \/ Fails(p)
            \/ RemoveTemp(p) \/ RemoveFails(p) \/ Kill(p) => UNCHANGED flushed
    BY Zenon DEF CreateTemp, WriteTemp, Rename, SyncDir, Fails, RemoveTemp, RemoveFails, Kill
  <2>5. PowerLoss \/ UNCHANGED vars => UNCHANGED flushed
    BY Zenon DEF PowerLoss, vars
  <2>6. QED
    BY <2>2, <2>3, <2>4, <2>5, Zenon DEF Next
<1>2. QED
  BY <1>1, Zenon

LEMMA SaveStep ==
    SaverOK /\ FileOK /\ FlagOK /\ SaveInv /\ [Next]_vars => SaveInv'
<1> SUFFICES ASSUME SaverOK, FileOK, FlagOK, SaveInv, [Next]_vars,
                    NEW q \in Saver
             PROVE  /\ at'[q] # 0 <=> step'[q] = "dirSync"
                    /\ at'[q] <= Len(history')
                    /\ step'[q] = "rename" => (flushed'[q] <=> q \notin Unsynced)
  BY DEF SaveInv
<1> USE DEF SaverOK, FlagOK, fileVars, Goto, Leave
<1>1. /\ at[q] # 0 <=> step[q] = "dirSync"
      /\ at[q] <= Len(history)
      /\ step[q] = "rename" => (flushed[q] <=> q \notin Unsynced)
      /\ Len(history) \in Nat /\ at[q] \in Nat
  BY LenProperties DEF SaveInv, FileOK
<1>2. CASE UNCHANGED vars
  BY <1>1, <1>2 DEF vars
<1>3. ASSUME NEW p \in Saver, NEW v \in Value, NEW n \in Names, Begin(p, v, n)
      PROVE  /\ at'[q] # 0 <=> step'[q] = "dirSync"
             /\ at'[q] <= Len(history')
             /\ step'[q] = "rename" => (flushed'[q] <=> q \notin Unsynced)
  BY <1>1, <1>3 DEF Begin
<1>4. ASSUME NEW p \in Saver, CreateTemp(p) \/ WriteTemp(p) \/ SyncTemp(p)
      PROVE  /\ at'[q] # 0 <=> step'[q] = "dirSync"
             /\ at'[q] <= Len(history')
             /\ step'[q] = "rename" => (flushed'[q] <=> q \notin Unsynced)
  <2>1. CASE CreateTemp(p)
    BY <1>1, <2>1 DEF CreateTemp
  <2>2. CASE WriteTemp(p)
    BY <1>1, <2>2 DEF WriteTemp
  <2>3. CASE SyncTemp(p)
    BY <1>1, <2>3 DEF SyncTemp
  <2>4. QED
    BY <1>4, <2>1, <2>2, <2>3
<1>5. ASSUME NEW p \in Saver, Rename(p)
      PROVE  /\ at'[q] # 0 <=> step'[q] = "dirSync"
             /\ at'[q] <= Len(history')
             /\ step'[q] = "rename" => (flushed'[q] <=> q \notin Unsynced)
  <2>1. temp[name[p]] \in Content /\ history \in Seq(Content)
    BY DEF FileOK
  <2>2. Len(history') = Len(history) + 1
    BY <1>5, <2>1, AppendProperties DEF Rename
  <2>3. QED
    BY <1>1, <1>5, <2>2 DEF Rename
<1>6. ASSUME NEW p \in Saver, SyncDir(p) \/ Fails(p) \/ RemoveTemp(p)
                                \/ RemoveFails(p) \/ Kill(p)
      PROVE  /\ at'[q] # 0 <=> step'[q] = "dirSync"
             /\ at'[q] <= Len(history')
             /\ step'[q] = "rename" => (flushed'[q] <=> q \notin Unsynced)
  BY <1>1, <1>6 DEF SyncDir, Fails, RemoveTemp, RemoveFails, Kill
<1>7. CASE PowerLoss
  <2>1. Len(history') \in Nat
    BY <1>1, <1>7, LostContent, LenProperties DEF FileOK
  <2>2. QED
    BY <1>7, <2>1 DEF PowerLoss
<1>8. QED
  BY <1>2, <1>3, <1>4, <1>5, <1>6, <1>7 DEF Next

LEMMA SoftStep == SaverOK /\ FileOK /\ SaveInv /\ SoftInv /\ [Next]_vars => SoftInv'
<1> SUFFICES ASSUME SaverOK, FileOK, SaveInv, SoftInv, [Next]_vars PROVE SoftInv'
  OBVIOUS
<1>1. /\ author \in Seq(Saver \cup {NoFile}) /\ Len(author) = Len(history)
      /\ Len(history) \in Nat /\ soft \subseteq 1..Len(history)
  BY LenProperties DEF FileOK
<1>2. ASSUME NEW p \in Saver, Rename(p) PROVE SoftInv'
  <2>1. p \in Saver \cup {NoFile} /\ author' = Append(author, p)
        /\ history' = Append(history, temp[name[p]])
    BY <1>2 DEF Rename
  <2>2. /\ author'[Len(history) + 1] = p
        /\ \A k \in 1..Len(history) : author'[k] = author[k]
    BY <1>1, <2>1, AppendProperties
  <2>3. soft' = soft \/ (soft' = soft \cup {Len(history) + 1} /\ p \in Unsynced)
    <3>1. history \in Seq(Content) /\ temp[name[p]] \in Content
      BY DEF SaverOK, FileOK
    <3>2. Len(history') = Len(history) + 1
      BY <2>1, <3>1, AppendProperties
    <3>3. flushed[p] <=> p \notin Unsynced
      BY <1>2 DEF Rename, SaveInv
    <3>4. QED
      BY <1>2, <3>2, <3>3 DEF Rename
  <2>4. QED
    BY <1>1, <2>2, <2>3 DEF SoftInv
<1>3. CASE PowerLoss
  BY <1>3 DEF PowerLoss, SoftInv
<1>4. CASE UNCHANGED <<soft, author>>
  BY <1>4 DEF SoftInv
<1>5. QED
  BY <1>2, <1>3, <1>4 DEF Next, vars, fileVars, Begin, CreateTemp, WriteTemp, SyncTemp,
     SyncDir, Fails, RemoveTemp, RemoveFails, Kill

-----------------------------------------------------------------------------
(* Temporary files *)

LEMMA OwnStep == SaverOK /\ FileOK /\ TempIsOwn /\ [Next]_vars => TempIsOwn'
<1> SUFFICES ASSUME SaverOK, FileOK, TempIsOwn, [Next]_vars PROVE TempIsOwn'
  OBVIOUS
<1> USE DEF SaverOK, TempIsOwn, Writing, fileVars, Goto, Leave, Content
<1>1. temp \in [Names -> Content]
  BY DEF FileOK
<1>2. CASE UNCHANGED vars
  BY <1>2 DEF vars
<1>3. ASSUME NEW p \in Saver, NEW v \in Value, NEW n \in Names, Begin(p, v, n)
      PROVE  TempIsOwn'
  BY <1>3 DEF Begin
<1>4. ASSUME NEW p \in Saver, CreateTemp(p) PROVE TempIsOwn'
  BY <1>1, <1>4 DEF CreateTemp
<1>5. ASSUME NEW p \in Saver, WriteTemp(p) PROVE TempIsOwn'
  BY <1>1, <1>5 DEF WriteTemp
<1>6. ASSUME NEW p \in Saver, SyncTemp(p) \/ SyncDir(p) PROVE TempIsOwn'
  <2>1. CASE SyncTemp(p)
    BY <2>1 DEF SyncTemp
  <2>2. CASE SyncDir(p)
    BY <2>2 DEF SyncDir
  <2>3. QED
    BY <1>6, <2>1, <2>2
<1>7. ASSUME NEW p \in Saver, Rename(p) \/ RemoveTemp(p) PROVE TempIsOwn'
  <2>1. /\ Writing(p) /\ name' = name /\ image' = image
        /\ temp' = [temp EXCEPT ![name[p]] = NoFile]
        /\ step' = [step EXCEPT ![p] = step'[p]] /\ step'[p] \in {"idle", "dirSync"}
    BY <1>7 DEF Rename, RemoveTemp
  <2>2. ASSUME NEW q \in Saver, Writing(q)'
        PROVE  /\ Writing(q) /\ step'[q] = step[q] /\ name[q] # name[p]
               /\ temp'[name[q]] = temp[name[q]]
    <3>1. q # p
      BY <2>1, <2>2
    <3>2. step'[q] = step[q] /\ Writing(q)
      BY <2>1, <2>2, <3>1
    <3>3. name[q] # name[p]
      BY <2>1, <3>1, <3>2
    <3>4. QED
      BY <1>1, <2>1, <3>2, <3>3
  <2>3. QED
    BY <2>1, <2>2
<1>8. ASSUME NEW p \in Saver, Fails(p) \/ RemoveFails(p) \/ Kill(p) PROVE TempIsOwn'
  BY <1>8 DEF Fails, RemoveFails, Kill
<1>9. CASE PowerLoss
  BY <1>9 DEF PowerLoss
<1>10. QED
  BY <1>2, <1>3, <1>4, <1>5, <1>6, <1>7, <1>8, <1>9 DEF Next

-----------------------------------------------------------------------------
(* The target *)

\* What a save adds to the history: its own image, whole, under its name.
LEMMA RenameAdds ==
    ASSUME SaverOK, FileOK, TempIsOwn, NEW p \in Saver, Rename(p)
    PROVE  /\ Len(history') = Len(history) + 1
           /\ history'[Len(history) + 1] = image[p]
           /\ \A k \in 1..Len(history) : /\ history'[k] = history[k]
                                         /\ author'[k] = author[k]
           /\ image[p] \notin {Partial, NoFile}
           /\ durable' = durable
<1>1. temp[name[p]] = image[p] /\ image[p] \in Value
  BY DEF Rename, TempIsOwn, SaverOK
<1>2. image[p] \in Content /\ image[p] \notin {Partial, NoFile} /\ durable' = durable
  BY <1>1 DEF Content, Rename
<1>3. /\ history \in Seq(Content) /\ Len(author) = Len(history)
      /\ author \in Seq(Saver \cup {NoFile}) /\ p \in Saver \cup {NoFile}
      /\ history' = Append(history, image[p]) /\ author' = Append(author, p)
  BY <1>1 DEF FileOK, Rename
<1>4. /\ Len(history') = Len(history) + 1
      /\ history'[Len(history) + 1] = image[p]
      /\ \A k \in 1..Len(history) : history'[k] = history[k]
  BY <1>2, <1>3, AppendProperties
<1>5. \A k \in 1..Len(history) : author'[k] = author[k]
  BY <1>3, AppendProperties
<1>6. QED
  BY <1>2, <1>4, <1>5

\* What a power loss leaves besides: the authors of what stays.
LEMMA LostAuthors ==
    ASSUME FileOK, PowerLoss
    PROVE  \A k \in 1..Len(history') : k \in 1..Len(history) /\ author'[k] = author[k]
<1>1. PICK k \in durable..Len(history) : Len(history') = k
  BY LostContent
<1>2. /\ author \in Seq(Saver \cup {NoFile}) /\ Len(author) = Len(history)
      /\ Len(history) \in Nat /\ durable \in 1..Len(history)
      /\ author' = SubSeq(author, 1, k)
  BY <1>1, LenProperties DEF FileOK, PowerLoss
<1>3. QED
  BY <1>1, <1>2, SubSeqProperties

LEMMA ThereStep ==
    SaverOK /\ FileOK /\ TempIsOwn /\ TargetThere /\ [Next]_vars => TargetThere'
<1> SUFFICES ASSUME SaverOK, FileOK, TempIsOwn, TargetThere, [Next]_vars
             PROVE  TargetThere'
  OBVIOUS
<1> USE DEF TargetThere, fileVars
<1>1. Len(history) \in Nat /\ durable \in 1..Len(history)
  BY LenProperties DEF FileOK
<1>2. ASSUME NEW p \in Saver, Rename(p) PROVE TargetThere'
  BY <1>1, <1>2, RenameAdds
<1>3. CASE PowerLoss
  BY <1>1, <1>3, LostContent
<1>4. QED
  BY <1>2, <1>3 DEF Next, vars, Begin, CreateTemp, WriteTemp, SyncTemp, SyncDir, Fails,
     RemoveTemp, RemoveFails, Kill

LEMMA WholeStep ==
    SaverOK /\ FileOK /\ SoftInv /\ TempIsOwn /\ TargetWhole /\ [Next]_vars => TargetWhole'
<1> SUFFICES ASSUME SaverOK, FileOK, SoftInv, TempIsOwn, TargetWhole, [Next]_vars
             PROVE  TargetWhole'
  OBVIOUS
<1> USE DEF TargetWhole, fileVars
<1>1. Len(history) \in Nat /\ durable \in 1..Len(history)
  BY LenProperties DEF FileOK
<1>2. ASSUME NEW p \in Saver, Rename(p) PROVE TargetWhole'
  BY <1>1, <1>2, RenameAdds
<1>3. ASSUME NEW p \in Saver, SyncDir(p) PROVE TargetWhole'
  BY <1>1, <1>3 DEF SyncDir
<1>4. CASE PowerLoss
  <2>1. PICK k \in durable..Len(history) :
           /\ Len(history') = k /\ durable' = k
           /\ \A i \in 1..(k - 1) : history'[i] = history[i]
           /\ history'[k] = history[k] \/ (k \in soft /\ history'[k] = Partial)
    BY <1>4, LostContent
  <2>2. ASSUME NEW i \in 1..Len(history'), history'[i] = Partial
        PROVE  author'[i] \in Unsynced /\ i <= durable'
    <3>1. i \in 1..Len(history) /\ author'[i] = author[i] /\ i <= durable'
      BY <1>1, <1>4, <2>1, <2>2, LostAuthors
    <3>2. history[i] = Partial \/ i \in soft
      BY <1>1, <2>1, <2>2, <3>1
    <3>3. QED
      BY <3>1, <3>2 DEF SoftInv
  <2>3. QED
    BY <2>2
<1>5. QED
  BY <1>2, <1>3, <1>4 DEF Next, vars, Begin, CreateTemp, WriteTemp, SyncTemp, Fails,
     RemoveTemp, RemoveFails, Kill

-----------------------------------------------------------------------------
(* The theorems *)

Inv == SaverOK /\ FileOK /\ FlagOK /\ SaveInv /\ SoftInv
       /\ TempIsOwn /\ TargetThere /\ TargetWhole

LEMMA InvInductive == Spec => []Inv
<1>1. Init => Inv
  <2> SUFFICES ASSUME Init PROVE Inv
    OBVIOUS
  <2>1. FlagOK
    BY Zenon DEF Init, FlagOK
  <2>2. SaverOK /\ FileOK
    BY DEF Init, SaverOK, FileOK, Steps, Results, Content
  <2>3. SaveInv /\ SoftInv /\ TempIsOwn /\ TargetThere /\ TargetWhole
    BY DEF Init, SaveInv, SoftInv, TempIsOwn, TargetThere, TargetWhole, Writing
  <2>4. QED
    BY <2>1, <2>2, <2>3 DEF Inv
<1>2. Inv /\ [Next]_vars => Inv'
  BY SaverStep, FileStep, FlagStep, SaveStep, SoftStep, OwnStep, ThereStep,
     WholeStep DEF Inv
<1>3. QED
  BY <1>1, <1>2, PTL DEF Spec

\* Type correctness of write_atomic's savers and files; no save ever leaves
\* the target missing.
THEOREM AtomicTypeCorrect == Spec => []AtomicTypeOK
<1>1. Inv => AtomicTypeOK
  BY EmptySeq DEF Inv, SaverOK, FileOK, FlagOK, TargetThere, AtomicTypeOK, Content
<1>2. QED
  BY InvInductive, <1>1, PTL

\* However many savers run and whatever names the clock gives them,
\* create_new alone keeps their temporary files apart until the rename.
THEOREM TempStaysOwn == Spec => []TempIsOwn
<1>1. Inv => TempIsOwn
  BY DEF Inv
<1>2. QED
  BY InvInductive, <1>1, PTL

\* The target never holds half an image, but for one whose own saver runs
\* under Never and whose data a power loss took.
THEOREM TargetStaysWhole == Spec => []TargetWhole
<1>1. Inv => TargetWhole
  BY DEF Inv
<1>2. QED
  BY InvInductive, <1>1, PTL

\* write_atomic implements the register: each system call is a step of the
\* register or none.
THEOREM AtomicImplementsRegister == Spec => IsRegister
<1> USE DEF Register!Next, Register!vars, Register!Call, Register!Replace,
            Register!ReturnOk, Register!GiveUp
<1>1. Init => Register!Init
  BY DEF Init, Register!Init
<1>2. ASSUME Inv, [Next]_vars PROVE [Register!Next]_Register!vars
  <2> USE DEF Goto, Leave, fileVars
  <2>1. SaverOK /\ FileOK /\ SaveInv /\ TempIsOwn
    BY <1>2 DEF Inv
  <2>2. /\ step \in [Saver -> Steps] /\ at \in [Saver -> Nat]
        /\ \A p \in Saver : at[p] # 0 <=> step[p] = "dirSync"
    BY <2>1 DEF SaverOK, SaveInv
  <2>3. CASE UNCHANGED vars
    BY <2>3 DEF vars
  <2>4. ASSUME NEW p \in Saver, NEW v \in Value, NEW n \in Names, Begin(p, v, n)
        PROVE  Register!Call(p)
    BY <2>2, <2>4 DEF Begin
  <2>5. ASSUME NEW p \in Saver, CreateTemp(p)
        PROVE  Register!GiveUp(p) \/ UNCHANGED Register!vars
    BY <2>2, <2>5 DEF CreateTemp
  <2>6. ASSUME NEW p \in Saver, WriteTemp(p) \/ SyncTemp(p)
        PROVE  UNCHANGED Register!vars
    BY <2>2, <2>6 DEF WriteTemp, SyncTemp
  <2>7. ASSUME NEW p \in Saver, Rename(p)
        PROVE  image[p] \in Value /\ Register!Replace(p, image[p])
    BY <2>1, <2>2, <2>7 DEF Rename, SaverOK, SaveInv, TempIsOwn
  <2>8. ASSUME NEW p \in Saver, SyncDir(p)
        PROVE  Register!ReturnOk(p)
    BY <2>1, <2>2, <2>8 DEF SyncDir, SaveInv, FileOK
  <2>9. ASSUME NEW p \in Saver, Fails(p)
        PROVE  Register!GiveUp(p) \/ UNCHANGED Register!vars
    BY <2>2, <2>9 DEF Fails
  <2>10. ASSUME NEW p \in Saver, RemoveTemp(p) \/ RemoveFails(p) \/ Kill(p)
         PROVE  Register!GiveUp(p)
    BY <2>2, <2>10 DEF RemoveTemp, RemoveFails, Kill
  <2>11. CASE PowerLoss
    BY <2>11 DEF PowerLoss, Register!PowerLoss
  <2>12. QED
    BY <1>2, <2>3, <2>4, <2>5, <2>6, <2>7, <2>8, <2>9, <2>10, <2>11 DEF Next
<1>3. QED
  BY InvInductive, <1>1, <1>2, PTL DEF Spec, IsRegister, Register!Spec
=============================================================================
