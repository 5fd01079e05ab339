------------------------- MODULE StoredIndexRecovery -------------------------
(***************************************************************************)
(* No load is silently wrong (StoredIndex), for every index and record,    *)
(* every width of numbers, every codec, policy and bound: the files of a   *)
(* handle always are a damaged snapshot of what was saved and a log of     *)
(* which parts may be missing, and of such files load returns what was     *)
(* saved with the first of the mutations made since.                       *)
(***************************************************************************)
EXTENDS StoredIndex, SnapshotProofs

Logged == [rec : Mutations, start : Nat, whole : BOOLEAN]

\* Where the frame of an entry ends.
Behind(e) == BehindFrame(e.start, e.rec)

\* How many rows an index comes to have.
RowBound == MaxRows + MaxAppends - 1

\* What was saved last, and what the process has in memory: that, with some
\* of the mutations made since.
IndexInv ==
    /\ \E b \in Bases : base \in EvenIndexesOf(b.dim)
    /\ Len(base.rows) <= RowBound
    /\ entries # <<>> => Len(base.rows) < MaxRows
    /\ pc \in {"new", "up", "loaded"} =>
          /\ mem \in IndexesOf(base.dim)
          /\ Len(mem.rows) <= Len(base.rows) + Len(entries)
          /\ entries = <<>> => mem.rows = base.rows
    /\ pc = "new" => mem = base

\* The snapshot is the one of base, until it is damaged.
SnapInv ==
    pc # "new" => \E g :
        Written(g, base, packed) /\ Hurt(snapFile, g) /\ (harm # "snapshot" => snapFile = g)

\* Every entry starts where the log has a cell.  One that starts in front of
\* the end of the one before it was written whole, behind the harm.
Places(f, es) ==
    /\ \A i \in 1..Len(es) : es[i].start < Len(f)
    /\ \A i, j \in 1..Len(es) :
         j = i + 1 /\ es[j].start < Behind(es[i]) => Behind(es[j]) <= Len(f)
    /\ es # <<>> => Len(f) > Len(WalHeader)

\* Until some harm is done the log holds every entry, one behind the other.
Unharmed(f, es) ==
    /\ Len(f) >= Len(WalHeader)
    /\ \A i \in 1..Len(es) :
         es[i].start >= Len(WalHeader) /\ Behind(es[i]) <= Len(f)
    /\ \A i, j \in 1..Len(es) : j = i + 1 => es[j].start >= Behind(es[i])

LogInv ==
    \/ logFile = None /\ entries = <<>> /\ pc # "up"
    \/ /\ logFile # None /\ LogHolds(logFile, entries)
       /\ Places(logFile, entries)
       /\ harm = "none" => Unharmed(logFile, entries)

RecoveryInv ==
    /\ entries \in Seq(Logged) /\ Len(entries) <= MaxAppends
    /\ pc \in Pcs /\ (pc # "down" => config \in Configs)
    /\ IndexInv /\ SnapInv /\ LogInv
    /\ RecoversPrefix

-----------------------------------------------------------------------------
(* Mutations of an index *)

\* A delete leaves a part of the rows (Vec::retain).
LEMMA RetainedDef ==
    ASSUME NEW R, NEW rows \in Seq(R), NEW id
    PROVE  \A i \in 0..Len(rows) :
               Retained(rows, id)[i] \in Seq(R) /\ Len(Retained(rows, id)[i]) <= i
<1> DEFINE L == Len(rows)
           step == [ix \in (1..L) \X Seq(R) |->
                      IF rows[ix[1]].id = id THEN ix[2] ELSE Append(ix[2], rows[ix[1]])]
<1>1. L \in Nat /\ \A i \in 1..L : rows[i] \in R
  BY LenProperties, ElementOfSeq
<1>2. <<>> \in Seq(R)
  OBVIOUS
<1> HIDE DEF L
<1>3. step \in [(1..L) \X Seq(R) -> Seq(R)]
  BY <1>1, AppendProperties
<1>4. PICK g \in [0..L -> Seq(R)] : Follows(g, <<>>, L, step)
  <2> HIDE DEF step
  <2> QED BY <1>1, <1>2, <1>3, FiniteRecursion, Zenon
<1>5. \A i \in 1..L : g[i] = IF rows[i].id = id THEN g[i - 1] ELSE Append(g[i - 1], rows[i])
  <2> TAKE i \in 1..L
  <2>1. <<i, g[i - 1]>> \in (1..L) \X Seq(R)
    BY <1>1
  <2>2. g[i] = step[<<i, g[i - 1]>>]
    BY <1>4 DEF Follows
  <2> QED BY <2>1, <2>2
<1>6. g = [i \in 0..L |-> IF i = 0 THEN <<>>
                          ELSE IF rows[i].id = id THEN g[i - 1] ELSE Append(g[i - 1], rows[i])]
  <2>1. ASSUME NEW i \in 0..L
        PROVE  g[i] = IF i = 0 THEN <<>>
                      ELSE IF rows[i].id = id THEN g[i - 1] ELSE Append(g[i - 1], rows[i])
    <3>1. CASE i = 0
      BY <1>4, <3>1 DEF Follows
    <3>2. CASE i # 0
      <4>1. i \in 1..L
        BY <1>1, <3>2
      <4> QED BY <1>5, <3>2, <4>1, Zenon
    <3> QED BY <3>1, <3>2
  <2>2. g = [i \in 0..L |-> g[i]]
    OBVIOUS
  <2> QED BY <2>1, <2>2
<1> DEFINE h == Retained(rows, id)
<1>7. h = [i \in 0..L |-> IF i = 0 THEN <<>>
                          ELSE IF rows[i].id = id THEN h[i - 1] ELSE Append(h[i - 1], rows[i])]
  BY <1>6, Zenon DEF Retained, L
<1> HIDE DEF h
<1>8. h[0] = <<>>
  BY <1>1, <1>7
<1>9. \A i \in 1..L : h[i] = IF rows[i].id = id THEN h[i - 1] ELSE Append(h[i - 1], rows[i])
  <2> TAKE i \in 1..L
  <2>1. i \in 0..L /\ i # 0
    BY <1>1
  <2> QED BY <1>7, <2>1, Zenon
<1>10. \A i \in 0..L : h[i] \in Seq(R) /\ Len(h[i]) <= i
  <2> DEFINE S == {i \in Nat : h[i] \in Seq(R) /\ Len(h[i]) <= i}
  <2>1. 0 \in S
    <3>1. <<>> \in Seq(R) /\ Len(<<>>) = 0
      BY EmptySeq
    <3>2. h[0] \in Seq(R) /\ Len(h[0]) <= 0
      <4> HIDE DEF S, step
      <4> QED BY <1>8, <3>1
    <3> QED BY <3>2
  <2>2. \A i \in 1..L : i - 1 \in S => i \in S
    <3> SUFFICES ASSUME NEW i \in 1..L, h[i - 1] \in Seq(R), Len(h[i - 1]) <= i - 1
                 PROVE  i \in Nat /\ h[i] \in Seq(R) /\ Len(h[i]) <= i
      OBVIOUS
    <3>1. PICK s \in Seq(R), r \in R : s = h[i - 1] /\ r = rows[i]
      BY <1>1
    <3>2. Append(s, r) \in Seq(R) /\ Len(Append(s, r)) = Len(s) + 1 /\ Len(s) \in Nat
      BY AppendProperties, LenProperties
    <3>3. h[i] = s \/ h[i] = Append(s, r)
      BY <1>9, <3>1
    <3>4. i \in Nat /\ Len(s) <= i - 1
      BY <1>1, <3>1
    <3>5. Len(s) <= i /\ Len(Append(s, r)) <= i
      BY <3>2, <3>4
    <3> QED BY <3>1, <3>2, <3>3, <3>4, <3>5
  <2>3. \A i \in 0..L : i \in S
    <3> HIDE DEF S
    <3> QED BY <1>1, <2>1, <2>2, UpTo
  <2> QED BY <2>3
<1> QED BY <1>10 DEF h, L

\* The rows an index may have.
AnyRows == [id : Words(W64), vector : Vectors]

\* An index that is Even is an index, and conversely.
LEMMA EvenTyped ==
    ASSUME NEW dim \in Nat
    PROVE  /\ EvenIndexesOf(dim) \subseteq IndexesOf(dim)
           /\ \A ix \in IndexesOf(dim) : Even(ix) => ix \in EvenIndexesOf(dim)
<1>1. Rows(dim) \subseteq AnyRows
  BY DEF Rows, AnyRows, Vectors
<1>2. Seq(Rows(dim)) \subseteq Seq(AnyRows)
  BY <1>1, SeqMonotonic
<1>3. EvenIndexesOf(dim) \subseteq IndexesOf(dim)
  <2>1. EvenIndexesOf(dim) = [dim : {dim}, metric : MetricTags, rows : Seq(Rows(dim))]
    BY Zenon DEF EvenIndexesOf, Rows
  <2>2. IndexesOf(dim) = [dim : {dim}, metric : MetricTags, rows : Seq(AnyRows)]
    BY Zenon DEF IndexesOf, AnyRows
  <2> QED BY <1>2, <2>1, <2>2
<1>4. ASSUME NEW ix \in IndexesOf(dim), Even(ix) PROVE ix \in EvenIndexesOf(dim)
  <2>1. PICK rows \in Seq(AnyRows), metric \in MetricTags :
          /\ rows = ix.rows /\ metric = ix.metric /\ ix.dim = dim
          /\ ix = [dim |-> dim, metric |-> metric, rows |-> rows]
    BY DEF IndexesOf, AnyRows
  <2>2. PICK n \in Nat : n = Len(rows) /\ DOMAIN rows = 1..n
    BY LenProperties
  <2>3. \A i \in 1..n : rows[i] \in Rows(dim)
    <3> TAKE i \in 1..n
    <3>1. PICK row \in AnyRows : row = rows[i]
      BY <2>2, ElementOfSeq
    <3>2. row.vector \in Seq(Words(W32)) /\ Len(row.vector) = dim
      BY <1>4, <2>1, <2>2, <3>1 DEF Even, AnyRows, Vectors
    <3>3. row.vector \in [1..dim -> Words(W32)]
      BY <3>2
    <3>4. row = [id |-> row.id, vector |-> row.vector] /\ row.id \in Words(W64)
      BY DEF AnyRows
    <3> QED BY <3>1, <3>3, <3>4 DEF Rows
  <2>4. rows \in Seq(Rows(dim))
    <3>1. rows = [i \in 1..n |-> rows[i]]
      BY <2>2
    <3>2. rows \in [1..n -> Rows(dim)]
      BY <2>3, <3>1
    <3> QED BY <3>2
  <2> QED BY <2>1, <2>4 DEF EvenIndexesOf, Rows
<1> QED BY <1>3, <1>4

\* What load_from makes of an index that is Even is one, with its rows.
LEMMA ReloadedTyped ==
    ASSUME NEW dim \in Nat, NEW ix \in EvenIndexesOf(dim)
    PROVE  /\ Reloaded(ix) \in EvenIndexesOf(dim) /\ Reloaded(ix) \in IndexesOf(dim)
           /\ Reloaded(ix).rows = ix.rows /\ Reloaded(ix).dim = dim
<1>1. PICK metric \in MetricTags, rows \in Seq(Rows(dim)) :
        /\ ix = [dim |-> dim, metric |-> metric, rows |-> rows]
  BY DEF EvenIndexesOf, Rows
<1>2. Reloaded(ix) = [dim |-> dim, metric |-> Cosine, rows |-> rows] /\ ix.rows = rows
  BY <1>1 DEF Reloaded
<1>3. Cosine \in MetricTags
  BY DEF Cosine, MetricTags
<1>4. Reloaded(ix) \in EvenIndexesOf(dim)
  BY <1>2, <1>3 DEF EvenIndexesOf, Rows
<1> QED BY <1>2, <1>4, EvenTyped

\* A mutation leaves an index of the same dimension, one row longer at most.
LEMMA ApplyTyped ==
    ASSUME NEW dim \in Nat, NEW ix \in IndexesOf(dim), NEW r \in Mutations
    PROVE  /\ ApplyRecord(ix, r) \in IndexesOf(dim)
           /\ Len(ApplyRecord(ix, r).rows) <= Len(ix.rows) + 1
<1>1. PICK rows \in Seq(AnyRows), n \in Nat, metric \in MetricTags :
        /\ rows = ix.rows /\ n = Len(rows) /\ ix.dim = dim
        /\ ix = [dim |-> dim, metric |-> metric, rows |-> rows]
  BY LenProperties DEF IndexesOf, AnyRows
<1>2. ASSUME NEW s \in Seq(AnyRows), Len(s) <= n + 1
      PROVE  /\ [ix EXCEPT !.rows = s] \in IndexesOf(dim)
             /\ Len([ix EXCEPT !.rows = s].rows) <= Len(ix.rows) + 1
  BY <1>1, <1>2 DEF IndexesOf, AnyRows
<1>3. ix \in IndexesOf(dim) /\ Len(ix.rows) <= Len(ix.rows) + 1
  BY <1>1
<1>4. CASE r.id.kind # VID_U64
  <2>1. ApplyRecord(ix, r) = ix
    BY <1>4 DEF ApplyRecord, Insert, Delete
  <2> QED BY <1>3, <2>1
<1>5. CASE r.id.kind = VID_U64 /\ r.op = OP_INSERT
  <2>1. r \in Inserts
    BY <1>5 DEF Mutations, Deletes, OP_INSERT, OP_DELETE
  <2>2. r.id \in Ids /\ r.vector \in Vectors
    BY <2>1 DEF Inserts
  <2>3. r.id.bits \in Words(W64)
    BY <1>5, <2>2 DEF Ids, VID_U64, VID_BYTES
  <2>4. PICK row \in AnyRows : row = [id |-> r.id.bits, vector |-> r.vector]
    BY <2>2, <2>3 DEF AnyRows
  <2>5. PICK s \in Seq(AnyRows) : s = Append(rows, row) /\ Len(s) = n + 1
    <3>1. Append(rows, row) \in Seq(AnyRows) /\ Len(Append(rows, row)) = Len(rows) + 1
      BY AppendProperties
    <3> QED BY <1>1, <3>1
  <2>6. ApplyRecord(ix, r) = [ix EXCEPT !.rows = s]
    BY <1>1, <1>5, <2>4, <2>5 DEF ApplyRecord, Insert
  <2>7. Len(s) <= n + 1
    BY <2>5
  <2> QED BY <1>2, <2>6, <2>7
<1>6. CASE r.id.kind = VID_U64 /\ r.op # OP_INSERT
  <2>1. PICK s : s = Retained(rows, r.id.bits)[n]
    OBVIOUS
  <2>2. s \in Seq(AnyRows) /\ Len(s) <= n
    <3>1. n \in 0..Len(rows)
      BY <1>1
    <3> QED BY <2>1, <3>1, RetainedDef
  <2>3. ApplyRecord(ix, r) = [ix EXCEPT !.rows = s]
    BY <1>1, <1>6, <2>1 DEF ApplyRecord, Delete
  <2>4. Len(s) <= n + 1
    BY <2>2, LenProperties
  <2> QED BY <1>2, <2>2, <2>3, <2>4
<1> QED BY <1>4, <1>5, <1>6

\* One mutation more, one row more.
LEMMA OneMore ==
    ASSUME NEW a \in Nat, NEW b \in Nat, NEW c \in Nat, NEW j \in Nat, a <= b + 1, b <= c + (j - 1)
    PROVE  a <= c + j
OBVIOUS

\* So do the mutations of a log, one after the other.
LEMMA ApplyAllTyped ==
    ASSUME NEW dim \in Nat, NEW ix \in IndexesOf(dim), NEW rs \in Seq(Mutations)
    PROVE  /\ ApplyAll(ix, rs) \in IndexesOf(dim)
           /\ Len(ApplyAll(ix, rs).rows) <= Len(ix.rows) + Len(rs)
           /\ Len(rs) = 0 => ApplyAll(ix, rs) = ix
<1> DEFINE L == Len(rs)
           V == IndexesOf(dim)
           step == [nx \in (1..L) \X V |-> ApplyRecord(nx[2], rs[nx[1]])]
<1>1. L \in Nat /\ \A i \in 1..L : rs[i] \in Mutations
  BY LenProperties, ElementOfSeq
<1>2. ix \in V /\ Len(ix.rows) \in Nat
  BY LenProperties DEF IndexesOf
<1> HIDE DEF L
<1>3. \A x \in V, i \in 1..L : /\ ApplyRecord(x, rs[i]) \in V
                                /\ Len(ApplyRecord(x, rs[i]).rows) <= Len(x.rows) + 1
  BY <1>1, ApplyTyped
<1>3a. \A x \in V : Len(x.rows) \in Nat
  BY LenProperties DEF IndexesOf
<1> HIDE DEF V
<1>4. step \in [(1..L) \X V -> V]
  BY <1>3
<1>5. PICK g \in [0..L -> V] : Follows(g, ix, L, step)
  <2> HIDE DEF step
  <2> QED BY <1>1, <1>2, <1>4, FiniteRecursion, Zenon
<1>6. \A i \in 1..L : g[i] = ApplyRecord(g[i - 1], rs[i])
  <2> TAKE i \in 1..L
  <2>1. <<i, g[i - 1]>> \in (1..L) \X V
    BY <1>1
  <2>2. g[i] = step[<<i, g[i - 1]>>]
    BY <1>5 DEF Follows
  <2> QED BY <2>1, <2>2
<1>7. g = [i \in 0..L |-> IF i = 0 THEN ix ELSE ApplyRecord(g[i - 1], rs[i])]
  <2>1. ASSUME NEW i \in 0..L
        PROVE  g[i] = IF i = 0 THEN ix ELSE ApplyRecord(g[i - 1], rs[i])
    <3>1. CASE i = 0
      BY <1>5, <3>1 DEF Follows
    <3>2. CASE i # 0
      <4>1. i \in 1..L
        BY <1>1, <3>2
      <4> QED BY <1>6, <3>2, <4>1
    <3> QED BY <3>1, <3>2
  <2>2. g = [i \in 0..L |-> g[i]]
    OBVIOUS
  <2> QED BY <2>1, <2>2
<1> DEFINE h == Applying(ix, rs)
<1>8. h = [i \in 0..L |-> IF i = 0 THEN ix ELSE ApplyRecord(h[i - 1], rs[i])]
  BY <1>7 DEF Applying, L
<1> HIDE DEF h
<1>9. h[0] = ix
  BY <1>1, <1>8
<1>10. \A i \in 1..L : h[i] = ApplyRecord(h[i - 1], rs[i])
  BY <1>1, <1>8
<1>11. \A i \in 0..L : h[i] \in V /\ Len(h[i].rows) <= Len(ix.rows) + i
  <2> DEFINE S == {i \in Nat : h[i] \in V /\ Len(h[i].rows) <= Len(ix.rows) + i}
  <2>1. 0 \in S
    BY <1>2, <1>9
  <2>2. \A i \in 1..L : i - 1 \in S => i \in S
    <3> SUFFICES ASSUME NEW i \in 1..L, h[i - 1] \in V,
                        Len(h[i - 1].rows) <= Len(ix.rows) + (i - 1)
                 PROVE  i \in Nat /\ h[i] \in V /\ Len(h[i].rows) <= Len(ix.rows) + i
      OBVIOUS
    <3>1. h[i] \in V /\ Len(h[i].rows) <= Len(h[i - 1].rows) + 1
      BY <1>3, <1>10
    <3>2. Len(h[i].rows) \in Nat /\ Len(h[i - 1].rows) \in Nat /\ i \in Nat
      BY <1>1, <1>3a, <3>1
    <3>3. PICK a \in Nat, b \in Nat, c \in Nat :
            /\ a = Len(h[i].rows) /\ b = Len(h[i - 1].rows) /\ c = Len(ix.rows)
            /\ a <= b + 1 /\ b <= c + (i - 1)
      BY <1>2, <3>1, <3>2
    <3>4. a <= c + i
      <4>1. PICK j \in Nat : j = i /\ b <= c + (j - 1)
        BY <3>2, <3>3
      <4>2. a <= c + j
        BY <3>3, <4>1, OneMore
      <4> QED BY <4>1, <4>2
    <3> QED BY <3>1, <3>2, <3>3, <3>4
  <2>3. \A i \in 0..L : i \in S
    <3> HIDE DEF S
    <3> QED BY <1>1, <2>1, <2>2, UpTo
  <2> QED BY <2>3
<1>12. L \in 0..L
  BY <1>1
<1> QED BY <1>9, <1>11, <1>12 DEF h, L, ApplyAll, V

-----------------------------------------------------------------------------
(* A log that grows, and one that comes to harm *)

\* The length in front, the checksum behind it, then the body
\* (commit_record).
LEMMA FrameLaid ==
    ASSUME NEW r \in Mutations
    PROVE  /\ Frame(r) \in Seq(Cells) /\ Len(Frame(r)) = 2 * W32 + Len(Encode(r))
           /\ Holds(Frame(r), 0, LE(Len(Encode(r)), W32))
           /\ Holds(Frame(r), W32, Crc(Encode(r)))
           /\ Holds(Frame(r), 2 * W32, Encode(r))
<1>1. PICK w \in Nat \ {0} : w = W32
  BY Widths
<1>2. PICK body \in Seq(Digits), n \in Nat \ {0} :
        body = Encode(r) /\ n = Len(body) /\ body # <<>>
  BY EncodeTyped
<1>3. PICK len \in Seq(Digits) : len = LE(n, W32) /\ Len(len) = w
  BY <1>1, LETyped
<1>4. PICK crc \in Seq(Cells) : crc = Crc(body) /\ Len(crc) = w
  <2>1. body \in Seq(Plain)
    BY SeqMonotonic DEF Plain
  <2> QED BY <1>1, <2>1, CrcTyped
<1>5. len \in Seq(Cells) /\ body \in Seq(Cells)
  BY SeqMonotonic DEF Cells, Plain
<1>6. PICK head \in Seq(Cells) : head = len \o crc /\ Joins(Cells, len, crc, head)
  BY <1>5, Joined, Zenon
<1>7. PICK F \in Seq(Cells) : F = head \o body /\ Joins(Cells, head, body, F)
  BY <1>5, Joined, Zenon
<1>8. Frame(r) = F
  BY <1>2, <1>3, <1>4, <1>6, <1>7 DEF Frame
<1>9. Len(head) = 2 * w /\ Len(F) = 2 * w + n /\ Extends(head, len) /\ Extends(F, head)
  BY <1>1, <1>2, <1>3, <1>4, <1>6, <1>7 DEF Joins
<1>10. ASSUME NEW k \in 1..w PROVE F[0 + k] = len[k] /\ F[w + k] = crc[k]
  <2>1. k \in 1..Len(len) /\ k \in 1..Len(crc) /\ k \in 1..Len(head) /\ w + k \in 1..Len(head)
    BY <1>1, <1>3, <1>4, <1>9
  <2>2. F[k] = len[k] /\ 0 + k = k
    BY <1>9, <2>1, SMTT(30) DEF Extends
  <2>3. F[w + k] = crc[k]
    BY <1>3, <1>6, <1>9, <2>1 DEF Extends, Joins
  <2> QED BY <2>2, <2>3
<1>11. \A k \in 1..n : F[2 * w + k] = body[k]
  BY <1>2, <1>7, <1>9 DEF Joins
<1> QED BY <1>1, <1>2, <1>3, <1>4, <1>8, <1>9, <1>10, <1>11 DEF Holds

\* The cells of a frame.
FrameCells(F, r) ==
    /\ F \in Seq(Cells) /\ Len(F) = 2 * W32 + Len(Encode(r))
    /\ \A k \in 1..W32 : F[k] \in Digits /\ F[W32 + k] = <<Base, k, Encode(r)>>
    /\ \A k \in 1..Len(Encode(r)) : F[2 * W32 + k] \in Digits

LEMMA FrameMade ==
    ASSUME NEW r \in Mutations
    PROVE  FrameCells(Frame(r), r)
<1>1. PICK w \in Nat \ {0} : w = W32
  BY Widths
<1>2. PICK body \in Seq(Digits), n \in Nat \ {0} :
        body = Encode(r) /\ n = Len(body) /\ body # <<>>
  BY EncodeTyped
<1>3. PICK len \in Seq(Digits) : len = LE(n, W32) /\ Len(len) = w
  BY <1>1, LETyped
<1>4. PICK F \in Seq(Cells) :
        /\ F = Frame(r) /\ Len(F) = 2 * w + n
        /\ Holds(F, 0, len) /\ Holds(F, w, Crc(body)) /\ Holds(F, 2 * w, body)
  <2> HIDE DEF Holds
  <2> QED BY <1>1, <1>2, <1>3, FrameLaid
<1>5. Len(Crc(body)) = w /\ body \in Seq(Cells)
  <2>1. body \in Seq(Plain) /\ body \in Seq(Cells)
    BY SeqMonotonic DEF Plain, Cells
  <2> QED BY <1>1, <2>1, CrcTyped
<1>6. ASSUME NEW k \in 1..w PROVE F[k] \in Digits /\ F[w + k] = <<Base, k, body>>
  <2>1. F[0 + k] = len[k] /\ 0 + k = k
    BY <1>3, <1>4 DEF Holds
  <2>2. len[k] \in Digits
    BY <1>3, ElementOfSeq
  <2>3. F[w + k] = Crc(body)[k]
    BY <1>4, <1>5 DEF Holds
  <2>4. Crc(body)[k] = <<Base, k, body>>
    BY <1>1, <1>2, <1>5, CrcCells
  <2> QED BY <2>1, <2>2, <2>3, <2>4
<1>7. ASSUME NEW k \in 1..n PROVE F[2 * w + k] \in Digits
  <2>1. F[2 * w + k] = body[k]
    BY <1>2, <1>4 DEF Holds
  <2>2. body[k] \in Digits
    BY <1>2, ElementOfSeq
  <2> QED BY <2>1, <2>2
<1> QED BY <1>1, <1>2, <1>4, <1>6, <1>7 DEF FrameCells

\* g is f with the first k cells of F behind it.
Grown(g, f, F, k) ==
    /\ g \in Seq(Cells) /\ Len(g) = Len(f) + k /\ Extends(g, f)
    /\ \A p \in 1..k : g[Len(f) + p] = F[p]

\* The first cell of a checksum is in its frame.
LEMMA InFrame ==
    ASSUME NEW a \in Nat, NEW w \in Nat \ {0}, NEW d \in Nat, d # 0, NEW c \in Nat, a + 2 * w + d <= c
    PROVE  a + w + 1 \in 1..c
OBVIOUS

\* g and es2 are what the append of r makes of the log f and its entries es:
\* behind harm only whole frames are appended.
Appended(f, es, r, k, e, g, es2) ==
    /\ k = Len(Frame(r)) \/ Unharmed(f, es)
    /\ Grown(g, f, Frame(r), k)
    /\ e.rec = r /\ e.start = Len(f) /\ es2 = Append(es, e)

\* An append, that of a killed process included, leaves the log as it has
\* to be.
LEMMA LogGrows ==
    ASSUME NEW es \in Seq(Logged), NEW f,
           LogHolds(f, es), Places(f, es),
           NEW r \in Mutations, Len(Encode(r)) < Pow[W32],
           NEW k \in 1..Len(Frame(r)), NEW e \in Logged, NEW g, NEW es2,
           Appended(f, es, r, k, e, g, es2)
    PROVE  /\ es2 \in Seq(Logged) /\ Len(es2) = Len(es) + 1
           /\ LogHolds(g, es2) /\ Places(g, es2)
           /\ Unharmed(f, es) /\ k = Len(Frame(r)) => Unharmed(g, es2)
<1>0. /\ k = Len(Frame(r)) \/ Unharmed(f, es)
      /\ Grown(g, f, Frame(r), k)
      /\ e.rec = r /\ e.start = Len(f) /\ es2 = Append(es, e)
  BY DEF Appended
<1> USE <1>0
<1>1. PICK w \in Nat \ {0} : w = W32
  BY Widths
<1>2. PICK n \in Nat : n = Len(es)
  BY LenProperties
<1>3. PICK c \in Nat : c = Len(f)
  BY LenProperties DEF LogHolds
<1>4. e.rec = r /\ e.start = c /\ es2 = Append(es, e)
  BY <1>3
<1>5. /\ es2 \in Seq(Logged) /\ Len(es2) = n + 1
      /\ \A i \in 1..n : es2[i] = es[i]
      /\ es2[n + 1] = e
  <2>1. /\ Append(es, e) \in Seq(Logged) /\ Len(Append(es, e)) = Len(es) + 1
        /\ \A i \in 1..Len(es) : Append(es, e)[i] = es[i]
        /\ Append(es, e)[Len(es) + 1] = e
    BY AppendProperties
  <2> QED BY <1>2, <1>4, <2>1
<1>6. PICK b \in Nat \ {0}, l \in Nat \ {0} :
        b = Len(Encode(r)) /\ l = Len(Frame(r)) /\ l = 2 * w + b
  <2>1. Len(Encode(r)) \in Nat \ {0}
    BY EncodeTyped
  <2>2. Len(Frame(r)) = 2 * w + Len(Encode(r))
    BY <1>1, FrameMade DEF FrameCells
  <2> QED BY <1>1, <2>1, <2>2
<1>7. k \in Nat /\ 1 <= k /\ k <= l
  BY <1>6
<1>8. Len(g) = c + k /\ g \in Seq(Cells)
  BY <1>3 DEF Grown
<1>9. \A i \in 1..n : Behind(es[i]) \in Nat /\ es[i].start \in Nat /\ es[i].start < c
  <2> TAKE i \in 1..n
  <2>1. es[i].start \in Nat /\ es[i].rec \in Mutations
    BY <1>2 DEF LogHolds
  <2>2. Len(Encode(es[i].rec)) \in Nat
    BY <2>1, EncodeTyped
  <2>3. Behind(es[i]) \in Nat
    <3>1. PICK a \in Nat, d \in Nat : a = es[i].start /\ d = Len(Encode(es[i].rec))
      BY <2>1, <2>2
    <3>2. a + 2 * w + d \in Nat
      OBVIOUS
    <3> QED BY <1>1, <3>1, <3>2 DEF Behind, BehindFrame
  <2> QED BY <1>2, <1>3, <2>1, <2>3 DEF Places
<1>10. Behind(e) = c + l
  BY <1>1, <1>4, <1>6 DEF Behind, BehindFrame
<1>11. \A i \in 1..(n + 1) : i \in 1..n \/ i = n + 1
  OBVIOUS
<1>12. n # 0 => c > Len(WalHeader)
  <2>1. n # 0 => es # <<>>
    BY <1>2
  <2> QED BY <1>3, <2>1 DEF Places
<1>13. \A i \in 1..(n + 1) :
         es2[i].rec \in Mutations /\ es2[i].start \in Nat
         /\ Len(Encode(es2[i].rec)) < Pow[W32]
  BY <1>2, <1>4, <1>5, <1>11 DEF LogHolds
<1>14. \A i, j \in 1..(n + 1) : i < j => es2[i].start < es2[j].start
  <2> TAKE i, j \in 1..(n + 1)
  <2> HAVE i < j
  <2>1. i \in 1..n
    OBVIOUS
  <2>2. CASE j \in 1..n
    BY <1>2, <1>5, <2>1, <2>2 DEF LogHolds
  <2>3. CASE j = n + 1
    BY <1>4, <1>5, <1>9, <2>1, <2>3
  <2> QED BY <1>11, <2>2, <2>3
<1>15. \A i \in 1..(n + 1) : i # 1 => es2[i].start > Len(WalHeader)
  <2> TAKE i \in 1..(n + 1)
  <2> HAVE i # 1
  <2>1. CASE i \in 1..n
    BY <1>2, <1>5, <2>1 DEF LogHolds
  <2>2. CASE i = n + 1
    BY <1>4, <1>5, <1>12, <2>2
  <2> QED BY <1>11, <2>1, <2>2
<1>16. ASSUME NEW p \in 1..Len(g), NEW x \in 1..W32, NEW s \in Seq(Cells), g[p] = <<Base, x, s>>
       PROVE  \E i \in 1..(n + 1) : p = es2[i].start + W32 + x /\ s = Encode(es2[i].rec)
  <2>1. CASE p <= c
    <3>1. p \in 1..Len(f)
      BY <1>3, <1>8, <2>1
    <3>2. f[p] = <<Base, x, s>>
      BY <1>16, <3>1 DEF Grown, Extends
    <3>3. PICK i \in 1..n : p = es[i].start + W32 + x /\ s = Encode(es[i].rec)
      BY <1>2, <3>1, <3>2 DEF LogHolds
    <3>4. i \in 1..(n + 1)
      OBVIOUS
    <3> QED BY <1>5, <3>3, <3>4
  <2>2. CASE p > c
    <3>1. PICK q \in 1..k : p = c + q
      <4>1. p - c \in 1..k /\ p = c + (p - c)
        BY <1>7, <1>8, <2>2
      <4> QED BY <4>1
    <3>2. g[p] = Frame(r)[q]
      BY <1>3, <3>1 DEF Grown
    <3>3. Frame(r)[q] \notin Digits
      BY <1>16, <3>2, NoDigit
    <3>4. FrameCells(Frame(r), r)
      BY FrameMade
    <3>5. q \notin 1..w
      BY <1>1, <3>3, <3>4 DEF FrameCells
    <3>6. ~(q > 2 * w)
      <4> SUFFICES ASSUME q > 2 * w PROVE FALSE
        OBVIOUS
      <4>1. q - 2 * w \in 1..b /\ q = 2 * w + (q - 2 * w)
        BY <1>6, <1>7
      <4> QED BY <1>1, <1>6, <3>3, <3>4, <4>1 DEF FrameCells
    <3>7. PICK y \in 1..w : q = w + y
      <4>1. q - w \in 1..w /\ q = w + (q - w)
        BY <1>7, <3>5, <3>6
      <4> QED BY <4>1
    <3>8. Frame(r)[q] = <<Base, y, Encode(r)>>
      BY <1>1, <3>4, <3>7 DEF FrameCells
    <3>9. x = y /\ s = Encode(r)
      BY <1>16, <3>2, <3>8
    <3>10. p = e.start + W32 + x
      BY <1>1, <1>4, <3>1, <3>7, <3>9
    <3>11. n + 1 \in 1..(n + 1)
      OBVIOUS
    <3> QED BY <1>4, <1>5, <3>9, <3>10, <3>11
  <2>3. p <= c \/ p > c
    <3>1. p \in Nat
      BY <1>7, <1>8
    <3> QED BY <3>1
  <2> QED BY <2>1, <2>2, <2>3, Zenon
<1>17. n # 0 => \/ c >= Behind(es[n])
                \/ k = l
  <2> SUFFICES ASSUME n # 0, Unharmed(f, es), k # l PROVE c >= Behind(es[n])
    BY <1>6
  <2>1. n \in 1..Len(es)
    BY <1>2
  <2> QED BY <1>3, <2>1 DEF Unharmed
<1>18. ASSUME NEW i \in 1..(n + 1), NEW j \in 1..(n + 1), j = i + 1
       PROVE  \/ es2[j].start >= Behind(es2[i])
              \/ /\ g[es2[j].start + W32 + 1] = <<Base, 1, Encode(es2[j].rec)>>
                 /\ \A m \in 1..(n + 1) : m > j => es2[m].start >= Behind(es2[j])
  <2>0. i \in 1..n /\ es2[i] = es[i]
    BY <1>5, <1>18
  <2>1. CASE j = n + 1
    <3>1. i = n
      BY <1>18, <2>1
    <3>2. CASE c >= Behind(es[n])
      BY <1>4, <1>5, <2>0, <2>1, <3>1, <3>2
    <3>3. CASE k = l
      <4>1. g[c + (w + 1)] = Frame(r)[w + 1]
        <5>1. w + 1 \in 1..k
          BY <1>1, <1>6, <3>3
        <5> QED BY <1>3, <5>1 DEF Grown
      <4>2. Frame(r)[w + 1] = <<Base, 1, Encode(r)>>
        <5>1. 1 \in 1..W32
          BY <1>1
        <5> QED BY <1>1, <5>1, FrameMade DEF FrameCells
      <4>3. c + w + 1 = c + (w + 1)
        OBVIOUS
      <4>4. g[e.start + W32 + 1] = <<Base, 1, Encode(e.rec)>>
        BY <1>1, <1>4, <4>1, <4>2, <4>3
      <4>5. \A m \in 1..(n + 1) : ~(m > j)
        BY <2>1
      <4> QED BY <1>5, <2>1, <4>4, <4>5
    <3>4. n # 0
      BY <2>0
    <3> QED BY <1>17, <3>2, <3>3, <3>4
  <2>2. CASE j \in 1..n
    <3>1. es2[j] = es[j]
      BY <1>5, <2>2
    <3>2. CASE es[j].start >= Behind(es[i])
      BY <2>0, <3>1, <3>2
    <3>3. CASE ~(es[j].start >= Behind(es[i]))
      <4>1. es[j].start < Behind(es[i])
        <5>1. PICK x \in Nat, y \in Nat : x = es[j].start /\ y = Behind(es[i])
          BY <1>9, <2>0, <2>2
        <5> QED BY <3>3, <5>1
      <4>2. Behind(es[j]) <= c
        BY <1>2, <1>3, <1>18, <2>0, <2>2, <4>1 DEF Places
      <4>3. /\ f[es[j].start + W32 + 1] = <<Base, 1, Encode(es[j].rec)>>
            /\ \A m \in 1..n : m > j => es[m].start >= Behind(es[j])
        <5>1. ~(es[j].start >= BehindFrame(es[i].start, es[i].rec))
          BY <3>3 DEF Behind
        <5>2. \/ es[j].start >= BehindFrame(es[i].start, es[i].rec)
              \/ /\ f[es[j].start + W32 + 1] = <<Base, 1, Encode(es[j].rec)>>
                 /\ \A m \in 1..Len(es) :
                      m > j => es[m].start >= BehindFrame(es[j].start, es[j].rec)
          BY <1>2, <1>18, <2>0, <2>2 DEF LogHolds
        <5> QED BY <1>2, <5>1, <5>2 DEF Behind
      <4>4. es[j].start + W32 + 1 \in 1..Len(f)
        <5>1. PICK a \in Nat, d \in Nat : a = es[j].start /\ d = Len(Encode(es[j].rec)) /\ d # 0
          <6>1. es[j].start \in Nat /\ es[j].rec \in Mutations
            BY <1>2, <2>2 DEF LogHolds
          <6> QED BY <6>1, EncodeTyped
        <5>2. a + 2 * w + d <= c
          BY <1>1, <4>2, <5>1 DEF Behind, BehindFrame
        <5>3. a + w + 1 \in 1..c
          BY <5>1, <5>2, InFrame
        <5> QED BY <1>1, <1>3, <5>1, <5>3
      <4>5. g[es[j].start + W32 + 1] = f[es[j].start + W32 + 1]
        BY <4>4 DEF Grown, Extends
      <4>6. \A m \in 1..(n + 1) : m > j => es2[m].start >= Behind(es[j])
        <5> TAKE m \in 1..(n + 1)
        <5> HAVE m > j
        <5>1. CASE m \in 1..n
          BY <1>5, <4>3, <5>1
        <5>2. CASE m = n + 1
          BY <1>4, <1>5, <4>2, <5>2
        <5> QED BY <1>11, <5>1, <5>2
      <4> QED BY <3>1, <4>3, <4>5, <4>6
    <3> QED BY <3>2, <3>3
  <2> QED BY <1>11, <2>1, <2>2
<1>19. LogHolds(g, es2)
  <2>1. 1..Len(es2) = 1..(n + 1)
    BY <1>5
  <2>2. ASSUME NEW p \in 1..Len(g), NEW x \in 1..W32, NEW s \in Seq(Cells), g[p] = <<Base, x, s>>
        PROVE  \E i \in 1..Len(es2) : p = es2[i].start + W32 + x /\ s = Encode(es2[i].rec)
    <3>1. PICK i \in 1..(n + 1) : p = es2[i].start + W32 + x /\ s = Encode(es2[i].rec)
      BY <1>16, <2>2
    <3> QED BY <2>1, <3>1
  <2>3. ASSUME NEW i \in 1..Len(es2), NEW j \in 1..Len(es2), j = i + 1
        PROVE  \/ es2[j].start >= Behind(es2[i])
               \/ /\ g[es2[j].start + W32 + 1] = <<Base, 1, Encode(es2[j].rec)>>
                  /\ \A m \in 1..Len(es2) : m > j => es2[m].start >= Behind(es2[j])
    <3>1. i \in 1..(n + 1) /\ j \in 1..(n + 1)
      BY <2>1
    <3>2. CASE es2[j].start >= Behind(es2[i])
      BY <3>2
    <3>3. CASE /\ g[es2[j].start + W32 + 1] = <<Base, 1, Encode(es2[j].rec)>>
               /\ \A m \in 1..(n + 1) : m > j => es2[m].start >= Behind(es2[j])
      <4>1. \A m \in 1..Len(es2) : m > j => es2[m].start >= Behind(es2[j])
        BY <2>1, <3>3
      <4> QED BY <3>3, <4>1
    <3> QED BY <1>18, <2>3, <3>1, <3>2, <3>3, Zenon
  <2>4. /\ \A i \in 1..Len(es2) :
             es2[i].rec \in Mutations /\ es2[i].start \in Nat
             /\ Len(Encode(es2[i].rec)) < Pow[W32]
        /\ \A i, j \in 1..Len(es2) : i < j => es2[i].start < es2[j].start
        /\ \A i \in 1..Len(es2) : i # 1 => es2[i].start > Len(WalHeader)
    BY <1>13, <1>14, <1>15, <2>1, Zenon
  <2> QED BY <1>8, <2>2, <2>3, <2>4, Zenon DEF LogHolds, Behind
<1>20. ASSUME NEW i \in 1..(n + 1) PROVE es2[i].start < c + k
  <2>1. CASE i \in 1..n
    BY <1>5, <1>7, <1>9, <2>1, SMTT(30)
  <2>2. CASE i = n + 1
    BY <1>4, <1>5, <1>7, <2>2
  <2> QED BY <1>11, <2>1, <2>2
<1>21. ASSUME NEW i \in 1..(n + 1), NEW j \in 1..(n + 1), j = i + 1,
              es2[j].start < Behind(es2[i])
       PROVE  Behind(es2[j]) <= c + k
  <2>0. i \in 1..n /\ es2[i] = es[i]
    BY <1>5, <1>21
  <2>1. CASE j \in 1..n
    <3>1. es2[j] = es[j]
      BY <1>5, <2>1
    <3>2. Behind(es[j]) <= c
      BY <1>2, <1>3, <1>21, <2>0, <2>1, <3>1 DEF Places
    <3>3. PICK x \in Nat : x = Behind(es[j])
      BY <1>9, <2>1
    <3>4. x <= c + k
      BY <1>7, <3>2, <3>3
    <3> QED BY <3>1, <3>3, <3>4
  <2>2. CASE j = n + 1
    <3>1. i = n /\ c < Behind(es[n])
      BY <1>4, <1>5, <1>21, <2>0, <2>2
    <3>2. k = l
      BY <1>9, <1>17, <2>0, <3>1
    <3> QED BY <1>5, <1>10, <2>2, <3>2
  <2> QED BY <1>11, <2>1, <2>2
<1>22. PICK hl \in Nat : hl = Len(WalHeader) /\ hl = w + 1
  BY <1>1, HeaderLength
<1>23. c + k > hl
  <2>1. CASE k = l
    BY <1>6, <1>22, <2>1
  <2>2. CASE Unharmed(f, es)
    BY <1>3, <1>7, <1>22, <2>2 DEF Unharmed
  <2> QED BY <1>6, <2>1, <2>2
<1>24. Places(g, es2)
  BY <1>5, <1>8, <1>20, <1>21, <1>22, <1>23 DEF Places
<1>25. ASSUME Unharmed(f, es), k = l PROVE Unharmed(g, es2)
  <2>1. c >= hl
    BY <1>3, <1>22, <1>25 DEF Unharmed
  <2>2. ASSUME NEW i \in 1..(n + 1) PROVE es2[i].start >= hl /\ Behind(es2[i]) <= c + k
    <3>1. CASE i \in 1..n
      <4>1. es[i].start >= hl /\ Behind(es[i]) <= c
        BY <1>2, <1>3, <1>22, <1>25, <3>1 DEF Unharmed
      <4> QED BY <1>5, <1>7, <1>9, <3>1, <4>1
    <3>2. CASE i = n + 1
      BY <1>4, <1>5, <1>10, <1>25, <2>1, <3>2
    <3> QED BY <1>11, <3>1, <3>2
  <2>3. ASSUME NEW i \in 1..(n + 1), NEW j \in 1..(n + 1), j = i + 1
        PROVE  es2[j].start >= Behind(es2[i])
    <3>0. i \in 1..n /\ es2[i] = es[i]
      BY <1>5, <2>3
    <3>1. CASE j \in 1..n
      BY <1>2, <1>5, <1>25, <2>3, <3>0, <3>1 DEF Unharmed
    <3>2. CASE j = n + 1
      BY <1>2, <1>3, <1>4, <1>5, <1>25, <3>0, <3>2 DEF Unharmed
    <3> QED BY <1>11, <3>1, <3>2
  <2>4. c + k >= hl
    BY <1>7, <2>1
  <2> QED BY <1>5, <1>8, <1>22, <2>2, <2>3, <2>4 DEF Unharmed
<1> QED BY <1>2, <1>5, <1>6, <1>19, <1>24, <1>25

\* es2 are the first m entries of es, held whole or not.
Kept(es2, es, m) ==
    /\ Len(es2) = m
    /\ \A i \in 1..m : es2[i].rec = es[i].rec /\ es2[i].start = es[i].start

\* g is what harm left of the first n cells of f: some of them may be
\* digits now, and digits may have come behind them.
Harmed(g, f, n) ==
    /\ g \in Seq(Cells) /\ n <= Len(g)
    /\ \A p \in 1..Len(g) : g[p] \in Digits \/ (p <= n /\ g[p] = f[p])

\* A log that a kill, a power loss or a damaged medium cuts, or changes a
\* cell of, still holds the entries of which something is left.
LEMMA LogHarmed ==
    ASSUME NEW es \in Seq(Logged), NEW f,
           LogHolds(f, es), Unharmed(f, es),
           NEW n \in 0..Len(f), NEW m \in 0..Len(es),
           \A i \in 1..Len(es) : es[i].start < n <=> i <= m,
           NEW es2 \in Seq(Logged), Kept(es2, es, m), NEW g, Harmed(g, f, n)
    PROVE  LogHolds(g, es2) /\ Places(g, es2)
<1>1. PICK l \in Nat, c \in Nat : l = Len(es) /\ c = Len(f)
  BY LenProperties DEF LogHolds
<1>2. m \in Nat /\ n \in Nat /\ \A i \in 1..m : i \in 1..l
  BY <1>1
<1>3. /\ Len(es2) = m
      /\ \A i \in 1..m : es2[i].rec = es[i].rec /\ es2[i].start = es[i].start
  BY DEF Kept
<1>4. PICK d \in Nat : d = Len(g) /\ n <= d
  BY LenProperties DEF Harmed
<1>5. \A i \in 1..m : es[i].start \in Nat /\ es[i].start < n
  <2> TAKE i \in 1..m
  <2>1. i \in 1..l /\ i <= m
    BY <1>2
  <2> QED BY <1>1, <2>1 DEF LogHolds
<1>6. \A i \in 1..m : Behind(es2[i]) = Behind(es[i])
  BY <1>3 DEF Behind
<1>7. /\ \A i \in 1..m :
           es2[i].rec \in Mutations /\ es2[i].start \in Nat
           /\ Len(Encode(es2[i].rec)) < Pow[W32]
      /\ \A i \in 1..m : i # 1 => es2[i].start > Len(WalHeader)
  BY <1>1, <1>2, <1>3 DEF LogHolds
<1>8. \A i, j \in 1..m : i < j => es2[i].start < es2[j].start
  BY <1>1, <1>2, <1>3 DEF LogHolds
<1>9. ASSUME NEW p \in 1..Len(g), NEW x \in 1..W32, NEW s \in Seq(Cells), g[p] = <<Base, x, s>>
      PROVE  \E i \in 1..m : p = es2[i].start + W32 + x /\ s = Encode(es2[i].rec)
  <2>1. p <= n /\ g[p] = f[p]
    BY <1>9, NoDigit DEF Harmed
  <2>2. p \in 1..Len(f)
    BY <1>1, <1>2, <1>4, <2>1
  <2>2a. f[p] = <<Base, x, s>>
    BY <1>9, <2>1
  <2>3. PICK i \in 1..l : p = es[i].start + W32 + x /\ s = Encode(es[i].rec)
    BY <1>1, <2>2, <2>2a DEF LogHolds
  <2>4. es[i].start < n
    <3>1. PICK a \in Nat : a = es[i].start
      BY <1>1 DEF LogHolds
    <3>2. PICK w \in Nat : w = W32 /\ p = a + w + x /\ x \in 1..w
      BY <2>3, <3>1, Widths
    <3>3. a < n
      BY <1>2, <2>1, <3>2, SMTT(30)
    <3> QED BY <3>1, <3>3
  <2>5. i \in 1..m
    BY <1>1, <1>2, <2>4
  <2> QED BY <1>3, <2>3, <2>5
<1>10. \A i, j \in 1..m : j = i + 1 => es2[j].start >= Behind(es2[i])
  <2> TAKE i, j \in 1..m
  <2> HAVE j = i + 1
  <2>1. es[j].start >= Behind(es[i])
    BY <1>1, <1>2 DEF Unharmed
  <2> QED BY <1>3, <1>6, <2>1
<1>11. LogHolds(g, es2)
  <2>1. g \in Seq(Cells)
    BY DEF Harmed
  <2> QED BY <1>3, <1>7, <1>8, <1>9, <1>10, <2>1 DEF LogHolds, Behind
<1>12. \A i \in 1..m : es2[i].start < d
  BY <1>2, <1>3, <1>4, <1>5, SMTT(30)
<1>13. \A i, j \in 1..m : ~(j = i + 1 /\ es2[j].start < Behind(es2[i]))
  <2> TAKE i, j \in 1..m
  <2> SUFFICES ASSUME j = i + 1, es2[j].start < Behind(es2[i]) PROVE FALSE
    OBVIOUS
  <2>1. es2[j].start >= Behind(es2[i])
    BY <1>10
  <2>2. PICK a \in Nat, b \in Nat : a = es2[j].start /\ b = Behind(es2[i])
    <3>1. es2[i].start \in Nat /\ es2[j].start \in Nat /\ es2[i].rec \in Mutations
      BY <1>7
    <3>2. PICK x \in Nat, y \in Nat, w \in Nat :
            x = es2[i].start /\ y = Len(Encode(es2[i].rec)) /\ w = W32
      BY <3>1, EncodeTyped, Widths
    <3>3. x + 2 * w + y \in Nat
      OBVIOUS
    <3> QED BY <3>1, <3>2, <3>3 DEF Behind, BehindFrame
  <2> QED BY <2>1, <2>2, SMTT(30)
<1>14. es2 # <<>> => d > Len(WalHeader)
  <2> SUFFICES ASSUME es2 # <<>> PROVE d > Len(WalHeader)
    OBVIOUS
  <2>1. m # 0
    BY <1>3, EmptySeq
  <2>2. 1 \in 1..m /\ 1 \in 1..l
    <3>1. 1 \in 1..m
      BY <1>2, <2>1
    <3> QED BY <1>2, <3>1
  <2>3. es[1].start >= Len(WalHeader) /\ es[1].start < n /\ es[1].start \in Nat
    BY <1>1, <1>5, <2>2 DEF Unharmed
  <2>4. Len(WalHeader) \in Nat
    BY HeaderLength, Widths
  <2> QED BY <1>2, <1>4, <2>3, <2>4
<1>15. Places(g, es2)
  BY <1>3, <1>4, <1>12, <1>13, <1>14 DEF Places
<1> QED BY <1>11, <1>15

\* As entries start one behind the other, those that start in the first n
\* cells are the first of them.
LEMMA FirstAreKept ==
    ASSUME NEW es \in Seq(Logged), NEW f, LogHolds(f, es),
           NEW n \in Nat
    PROVE  \E m \in 0..Len(es) : \A i \in 1..Len(es) : es[i].start < n <=> i <= m
<1> DEFINE Cut(l, m) == \A i \in 1..l : es[i].start < n <=> i <= m
           S == {l \in Nat : \E m \in 0..l : Cut(l, m)}
<1>1. PICK L \in Nat : L = Len(es)
  BY LenProperties
<1>2. /\ \A i \in 1..L : es[i].start \in Nat
      /\ \A i, j \in 1..L : i < j => es[i].start < es[j].start
  BY <1>1 DEF LogHolds
<1>3. 0 \in S
  <2>1. 0 \in 0..0 /\ Cut(0, 0)
    OBVIOUS
  <2> HIDE DEF Cut
  <2> QED BY <2>1
<1>4. ASSUME NEW l \in 1..L, l - 1 \in S PROVE l \in S
  <2>1. PICK m \in 0..(l - 1) : Cut(l - 1, m)
    BY <1>4
  <2>2. l \in Nat /\ l - 1 \in Nat
    BY <1>1
  <2>3. CASE es[l].start < n
    <3>1. Cut(l, l)
      <4> TAKE i \in 1..l
      <4>1. i <= l /\ i \in 1..L
        BY <1>1, <2>2
      <4>2. es[i].start < n
        <5>1. CASE i = l
          BY <2>3, <5>1
        <5>2. CASE i # l
          <6>1. i < l
            BY <2>2, <4>1, <5>2
          <6>2. PICK a \in Nat, b \in Nat : a = es[i].start /\ b = es[l].start /\ a < b
            BY <1>2, <4>1, <6>1
          <6> QED BY <2>3, <6>2, SMTT(30)
        <5> QED BY <5>1, <5>2
      <4> QED BY <4>1, <4>2
    <3> HIDE DEF Cut
    <3> QED BY <2>2, <3>1
  <2>4. CASE ~(es[l].start < n)
    <3>1. Cut(l, m)
      <4> TAKE i \in 1..l
      <4>1. i \in 1..(l - 1) \/ i = l
        BY <2>2
      <4>2. ~(l <= m)
        BY <2>2
      <4> QED BY <2>1, <2>4, <4>1, <4>2
    <3>2. m \in 0..l
      BY <2>2
    <3> HIDE DEF Cut
    <3> QED BY <2>2, <3>1, <3>2
  <2> QED BY <2>3, <2>4
<1>5. L \in S
  <2>1. \A i \in 0..L : i \in S
    <3> HIDE DEF S
    <3> QED BY <1>1, <1>3, <1>4, UpTo
  <2>2. L \in 0..L
    BY <1>1
  <2> QED BY <2>1, <2>2
<1> QED BY <1>1, <1>5

\* So they are a sequence again.
LEMMA RemainingKept ==
    ASSUME entries \in Seq(Logged), NEW f, LogHolds(f, entries),
           NEW n \in Nat
    PROVE  \E m \in 0..Len(entries) :
              /\ \A i \in 1..Len(entries) : entries[i].start < n <=> i <= m
              /\ Remaining(n) \in Seq(Logged) /\ Kept(Remaining(n), entries, m)
<1>1. PICK L \in Nat : L = Len(entries) /\ DOMAIN entries = 1..L
  BY LenProperties
<1>2. PICK m \in 0..L : \A i \in 1..L : entries[i].start < n <=> i <= m
  BY <1>1, FirstAreKept
<1>3. m \in Nat /\ {j \in DOMAIN entries : entries[j].start < n} = 1..m
  BY <1>1, <1>2
<1>4. PICK r : r = Remaining(n)
  OBVIOUS
<1>5. r = [i \in 1..m |-> [entries[i] EXCEPT !.whole = @ /\ EntryEnd(entries[i]) <= n]]
  BY <1>3, <1>4 DEF Remaining
<1>6. ASSUME NEW i \in 1..m
      PROVE  r[i] \in Logged /\ r[i].rec = entries[i].rec /\ r[i].start = entries[i].start
  <2>1. entries[i] \in Logged
    <3>1. i \in 1..L
      BY <1>1, <1>2
    <3> QED BY <1>1, <3>1, ElementOfSeq
  <2>2. PICK b \in BOOLEAN : b = (entries[i].whole /\ EntryEnd(entries[i]) <= n)
    OBVIOUS
  <2>3. r[i] = [entries[i] EXCEPT !.whole = b]
    BY <1>5, <2>2
  <2> QED BY <2>1, <2>3 DEF Logged
<1>7. r \in [1..m -> Logged]
  BY <1>5, <1>6
<1>8. r \in Seq(Logged) /\ Len(r) = m
  BY <1>3, <1>7
<1>9. Kept(r, entries, m)
  BY <1>6, <1>8 DEF Kept
<1> QED BY <1>1, <1>2, <1>4, <1>8, <1>9

-----------------------------------------------------------------------------
(* What the steps of the invariant rest on *)

\* What no run can evaluate: a codec's output has a length, and "no file"
\* is not a file.
Outside == CodecsAreFinite /\ None \notin Seq(Cells)

\* The index that was saved last fits a snapshot, and a mutation fits it.
LEMMA BaseFits ==
    ASSUME RecoveryInv
    PROVE  /\ base.dim \in Nat /\ base.dim < Pow[W32]
           /\ base \in EvenIndexesOf(base.dim) /\ Len(base.rows) \in Nat
           /\ Storable(base.dim, Len(base.rows))
           /\ Records \subseteq Mutations
           /\ Len(entries) \in Nat /\ MaxRows \in Nat /\ MaxAppends \in Nat
<1>1. PICK b \in Bases : base \in EvenIndexesOf(b.dim)
  BY DEF RecoveryInv, IndexInv
<1>2. base.dim = b.dim /\ Len(base.rows) \in Nat
  BY <1>1, LenProperties DEF EvenIndexesOf
<1>3. /\ b.dim \in Nat /\ b.dim < Pow[W32] /\ Records \subseteq Mutations
      /\ \A n \in 0..(MaxRows + MaxAppends - 1) : Storable(b.dim, n)
  BY <1>1, IndexAssumption
<1>4. MaxRows \in Nat /\ MaxAppends \in Nat
  BY StoredAssumption
<1>5. Len(base.rows) <= MaxRows + MaxAppends - 1
  BY DEF RecoveryInv, IndexInv, RowBound
<1>6. Len(base.rows) \in 0..(MaxRows + MaxAppends - 1)
  BY <1>2, <1>4, <1>5
<1>7. Len(entries) \in Nat
  BY LenProperties DEF RecoveryInv
<1> QED BY <1>1, <1>2, <1>3, <1>4, <1>6, <1>7

\* A snapshot as it was written is one with no damage.
LEMMA WrittenIsFile ==
    ASSUME CodecsAreFinite, NEW dim \in Nat, NEW ix \in EvenIndexesOf(dim),
           NEW g, NEW kind, Written(g, ix, kind)
    PROVE  g \in Seq(Cells) /\ Hurt(g, g)
<1>1. PICK rows \in Seq(Rows(dim)), n \in Nat, metric \in MetricTags :
        n = Len(rows) /\ ix = [dim |-> dim, metric |-> metric, rows |-> rows]
  BY LenProperties DEF EvenIndexesOf, Rows
<1>2. PICK raw \in Seq(Digits) : raw = SaveTo(ix)
  BY PayloadSaved
<1>3. ASSUME NEW version \in Nat, NEW region \in Seq(Plain), g = File(ix, version, region)
      PROVE  g \in Seq(Cells)
  <2>1. FileParts(g, version, dim, Len(rows), region)
    BY <1>1, <1>3, FileHolds
  <2> QED BY <2>1 DEF FileParts
<1>4. g \in Seq(Cells)
  <2>1. CASE \E scheme : scheme.kind \in Kinds /\ g = Snapshot(ix, scheme)
    <3>1. PICK scheme : scheme.kind \in Kinds /\ g = Snapshot(ix, scheme)
      BY <2>1
    <3>2. PICK region \in Seq(Plain) : region = Region(raw, scheme)
      BY <3>1, RegionWritten DEF RegionParts
    <3>3. g = File(ix, 2, region)
      BY <1>2, <3>1, <3>2 DEF Snapshot, CURRENT_VERSION
    <3> QED BY <1>3, <3>3
  <2>2. CASE g = LegacySnapshot(ix)
    <3>1. raw \in Seq(Plain)
      BY SeqMonotonic DEF Plain
    <3> QED BY <1>2, <1>3, <2>2, <3>1 DEF LegacySnapshot
  <2> QED BY <2>1, <2>2 DEF Written
<1>5. Len(g) <= Len(g)
  BY <1>4, LenProperties
<1> QED BY <1>4, <1>5 DEF Damaged, Hurt

\* One cell may become a digit, and the file may be cut.
LEMMA DamageDone ==
    ASSUME NEW g \in Seq(Cells)
    PROVE  /\ \A i \in DOMAIN g, d \in Digits :
                [g EXCEPT ![i] = d] \in Seq(Cells) /\ Hurt([g EXCEPT ![i] = d], g)
           /\ \A n \in 0..(Len(g) - 1) : Hurt(SubSeq(g, 1, n), g)
<1>1. PICK l \in Nat : l = Len(g) /\ DOMAIN g = 1..l
  BY LenProperties
<1>2. ASSUME NEW i \in DOMAIN g, NEW d \in Digits
      PROVE  [g EXCEPT ![i] = d] \in Seq(Cells) /\ Hurt([g EXCEPT ![i] = d], g)
  <2>1. PICK f : f = [g EXCEPT ![i] = d]
    OBVIOUS
  <2>2. d \in Cells /\ \A p \in 1..l : g[p] \in Cells
    BY <1>1, ElementOfSeq DEF Cells, Plain
  <2>3. /\ f = [p \in 1..l |-> f[p]]
        /\ \A p \in 1..l : f[p] = g[p] \/ (p = i /\ f[p] = d)
    BY <1>1, <2>1
  <2>4. f \in [1..l -> Cells]
    BY <2>2, <2>3
  <2>5. f \in Seq(Cells) /\ Len(f) = l
    BY <2>4
  <2>6. i \in Nat
    BY <1>1
  <2> QED BY <1>1, <2>1, <2>3, <2>5, <2>6 DEF Damaged, Hurt
<1>3. ASSUME NEW n \in 0..(Len(g) - 1) PROVE Hurt(SubSeq(g, 1, n), g)
  <2>1. n \in Nat /\ n <= Len(g)
    BY <1>1
  <2>2. PICK f : f = SubSeq(g, 1, n)
    OBVIOUS
  <2>3. f \in Seq(Cells) /\ Len(f) = n /\ \A p \in 1..n : f[p] = g[p]
    BY <2>1, <2>2, FirstPart
  <2>4. 0 \in Nat
    OBVIOUS
  <2> QED BY <2>1, <2>2, <2>3, <2>4 DEF Damaged, Hurt
<1> QED BY <1>2, <1>3

\* A new log holds no mutation.
LEMMA NewLog ==
    ASSUME NEW dim \in Nat
    PROVE  /\ WalHeader \in Seq(Cells) /\ LogHolds(WalHeader, <<>>)
           /\ Places(WalHeader, <<>>) /\ Unharmed(WalHeader, <<>>)
<1>1. PICK h \in Seq(Digits), n \in Nat : h = WalHeader /\ n = Len(h)
  BY HeaderLength, LenProperties
<1>2. h \in Seq(Cells)
  BY SeqMonotonic DEF Cells, Plain
<1>3. PICK e : e = <<>> /\ Len(e) = 0
  <2>1. <<>> \in Seq(Nat) /\ Len(<<>>) = 0
    BY EmptySeq
  <2> QED BY <2>1
<1>4. \A p \in 1..Len(h), k \in 1..W32, s \in Seq(Cells) : h[p] # <<Base, k, s>>
  BY ElementOfSeq, NoDigit
<1>5. LogHolds(h, e)
  BY <1>2, <1>3, <1>4 DEF LogHolds
<1>6. Places(h, e) /\ Unharmed(h, e)
  BY <1>1, <1>3 DEF Places, Unharmed
<1> QED BY <1>1, <1>2, <1>3, <1>5, <1>6

-----------------------------------------------------------------------------
(* One lemma for every kind of step *)

\* A handle is made of one of the indexes a caller has.
LEMMA RecoveryInit ==
    ASSUME Outside, Init
    PROVE  RecoveryInv
<1>1. mem \in Bases /\ base = mem /\ entries = <<>> /\ pc = "new" /\ logFile = None
  BY DEF Init
<1>2. /\ mem.dim \in Nat /\ mem \in EvenIndexesOf(mem.dim) /\ mem \in IndexesOf(mem.dim)
      /\ Len(mem.rows) < MaxRows
  BY <1>1, IndexAssumption, EvenTyped
<1>3. Len(mem.rows) \in Nat /\ MaxRows \in Nat /\ MaxAppends \in Nat
  BY <1>2, LenProperties, StoredAssumption DEF IndexesOf
<1>4. entries \in Seq(Logged) /\ Len(entries) = 0
  BY <1>1, EmptySeq
<1>5. Len(mem.rows) <= RowBound /\ Len(mem.rows) <= Len(base.rows) + Len(entries)
  BY <1>1, <1>2, <1>3, <1>4 DEF RowBound
<1>6. IndexInv
  BY <1>1, <1>2, <1>5 DEF IndexInv
<1>7. SnapInv /\ LogInv /\ RecoversPrefix
  BY <1>1 DEF SnapInv, LogInv, RecoversPrefix
<1>8. config \in Configs
  BY DEF Init
<1> QED BY <1>1, <1>3, <1>4, <1>6, <1>7, <1>8 DEF RecoveryInv, Pcs

\* open_with and checkpoint write a new snapshot and a new log.
LEMMA RecoveryWriteBoth ==
    ASSUME Outside, RecoveryInv, WriteBoth, pc = "new" \/ (pc = "up" /\ Even(mem))
    PROVE  RecoveryInv'
<1>1. /\ base' = mem /\ packed' = config.scheme.kind
      /\ mem' = mem /\ entries' = <<>> /\ harm' = "none" /\ pc' = "up"
      /\ snapFile' = Snapshot(mem, config.scheme) /\ logFile' = WalHeader
  BY DEF WriteBoth
<1>2. base.dim \in Nat /\ Len(base.rows) \in Nat /\ MaxRows \in Nat /\ MaxAppends \in Nat
  BY BaseFits
<1>3. /\ mem \in EvenIndexesOf(base.dim) /\ mem \in IndexesOf(base.dim)
      /\ mem.dim = base.dim
  <2>1. mem \in IndexesOf(base.dim) /\ (pc = "new" => mem = base)
    BY DEF RecoveryInv, IndexInv
  <2>2. mem.dim = base.dim
    BY <2>1 DEF IndexesOf
  <2>3. mem \in EvenIndexesOf(base.dim)
    BY <1>2, <2>1, BaseFits, EvenTyped
  <2> QED BY <2>1, <2>2, <2>3
<1>4. Len(mem.rows) <= RowBound
  <2>1. CASE entries = <<>>
    BY <2>1 DEF RecoveryInv, IndexInv
  <2>2. CASE entries # <<>>
    <3>1. /\ Len(mem.rows) <= Len(base.rows) + Len(entries)
          /\ Len(base.rows) < MaxRows /\ Len(entries) <= MaxAppends
      BY <2>2 DEF RecoveryInv, IndexInv
    <3>2. Len(mem.rows) \in Nat /\ Len(entries) \in Nat
      BY <1>3, BaseFits, LenProperties DEF IndexesOf
    <3> QED BY <1>2, <3>1, <3>2 DEF RowBound
  <2> QED BY <2>1, <2>2
<1>5. Len(mem.rows) \in Nat
  BY <1>3, LenProperties DEF IndexesOf
<1>6. entries' \in Seq(Logged) /\ Len(entries') = 0
  BY <1>1, EmptySeq
<1>7. IndexInv'
  <2>1. \E b \in Bases : base' \in EvenIndexesOf(b.dim)
    <3>1. PICK b \in Bases : base \in EvenIndexesOf(b.dim)
      BY DEF RecoveryInv, IndexInv
    <3>2. b.dim = base.dim
      BY <3>1 DEF EvenIndexesOf
    <3> QED BY <1>1, <1>3, <3>1, <3>2
  <2>2. mem' \in IndexesOf(base'.dim) /\ mem' = base'
    BY <1>1, <1>3
  <2>3. Len(base'.rows) <= RowBound /\ Len(mem'.rows) <= Len(base'.rows) + Len(entries')
    BY <1>1, <1>4, <1>5, <1>6
  <2> QED BY <1>1, <2>1, <2>2, <2>3 DEF IndexInv, RowBound
<1>8. config \in Configs /\ config' = config
  BY DEF RecoveryInv, WriteBoth
<1>9. SnapInv'
  <2>1. Written(snapFile', base', packed')
    BY <1>1, <1>8, StoredAssumption DEF Written
  <2>2. Hurt(snapFile', snapFile')
    BY <1>1, <1>2, <1>3, <2>1, WrittenIsFile DEF Outside
  <2> QED BY <2>1, <2>2 DEF SnapInv
<1>10. LogInv'
  <2>1. /\ logFile' \in Seq(Cells) /\ LogHolds(logFile', entries')
        /\ Places(logFile', entries') /\ Unharmed(logFile', entries')
    BY <1>1, <1>2, <1>3, NewLog
  <2>2. logFile' # None
    BY <2>1 DEF Outside
  <2> QED BY <2>1, <2>2 DEF LogInv
<1> QED BY <1>1, <1>2, <1>6, <1>7, <1>9, <1>10, <1>8 DEF RecoveryInv, RecoversPrefix, Pcs

\* What a mutation that is logged, and one whose append is cut short, do to
\* the log.
LEMMA LoggedStep ==
    ASSUME Outside, RecoveryInv, NEW r \in Records, MayAppend(r), NEW k \in 1..Len(Frame(r)),
           k = Len(Frame(r)) \/ harm = "none",
           NEW whole \in BOOLEAN, entries' = NewEntry(r, whole),
           logFile' = logFile \o SubSeq(Frame(r), 1, k),
           base' = base, harm' # "none" \/ (harm = "none" /\ k = Len(Frame(r)))
    PROVE  /\ LogInv' /\ entries' \in Seq(Logged) /\ Len(entries') = Len(entries) + 1
           /\ Len(entries') <= MaxAppends /\ entries' # <<>>
           /\ Len(base.rows) < MaxRows
<1>1. /\ pc = "up" /\ Len(entries) < MaxAppends /\ Len(mem.rows) < MaxRows
      /\ Len(Encode(r)) < Pow[W32]
  BY DEF MayAppend, Bounded
<1>2. PICK dim \in Nat : dim = base.dim /\ r \in Mutations
  BY BaseFits
<1>3. PICK f \in Seq(Cells), es \in Seq(Logged) :
        /\ f = logFile /\ es = entries /\ LogHolds(f, es) /\ Places(f, es)
        /\ harm = "none" => Unharmed(f, es)
  BY <1>1, <1>2 DEF RecoveryInv, LogInv, LogHolds
<1>4. PICK F \in Seq(Cells), n \in Nat : F = Frame(r) /\ n = Len(F)
  BY <1>2, FrameMade, LenProperties DEF FrameCells
<1>5. PICK part \in Seq(Cells) :
        part = SubSeq(F, 1, k) /\ Len(part) = k /\ \A i \in 1..k : part[i] = F[i]
  <2>1. k \in Nat /\ k <= Len(F)
    BY <1>4
  <2>2. /\ SubSeq(F, 1, k) \in Seq(Cells) /\ Len(SubSeq(F, 1, k)) = k
        /\ \A i \in 1..k : SubSeq(F, 1, k)[i] = F[i]
    BY <2>1, FirstPart
  <2> QED BY <2>2
<1>6. PICK g \in Seq(Cells) : g = f \o part /\ Joins(Cells, f, part, g)
  BY Joined, Zenon
<1>7. logFile' = g
  BY <1>3, <1>4, <1>5, <1>6
<1>8. Grown(g, f, Frame(r), k)
  BY <1>4, <1>5, <1>6 DEF Grown, Joins
<1>9. PICK e \in Logged, es2 \in {Append(es, [rec |-> r, start |-> Len(f), whole |-> whole])} :
        /\ e = [rec |-> r, start |-> Len(f), whole |-> whole] /\ e.rec = r /\ e.start = Len(f)
        /\ es2 = Append(es, e)
  <2>1. [rec |-> r, start |-> Len(f), whole |-> whole] \in Logged
    BY <1>2, LenProperties DEF Logged
  <2> QED BY <2>1
<1>10. entries' = es2
  BY <1>3, <1>9 DEF NewEntry
<1>11. k = Len(Frame(r)) \/ Unharmed(f, es)
  BY <1>3
<1>12. /\ es2 \in Seq(Logged) /\ Len(es2) = Len(es) + 1
       /\ LogHolds(g, es2) /\ Places(g, es2)
       /\ Unharmed(f, es) /\ k = Len(Frame(r)) => Unharmed(g, es2)
  <2>1. LogHolds(f, es) /\ Places(f, es)
    BY <1>3
  <2>2. r \in Mutations /\ Len(Encode(r)) < Pow[W32]
    BY <1>1, <1>2
  <2>3. Appended(f, es, r, k, e, g, es2)
    BY <1>8, <1>9, <1>11 DEF Appended
  <2> QED BY <2>1, <2>2, <2>3, LogGrows, SMTT(30)
<1>13. harm' = "none" => Unharmed(g, es2)
  BY <1>3, <1>12
<1>14. LogInv'
  <2>1. g # None
    BY DEF Outside
  <2> QED BY <1>2, <1>7, <1>10, <1>12, <1>13, <2>1 DEF LogInv
<1>15. Len(es2) <= MaxAppends /\ es2 # <<>>
  <2>1. Len(es) \in Nat /\ Len(es) < MaxAppends /\ MaxAppends \in Nat
    BY <1>1, <1>3, BaseFits
  <2>2. Len(es2) <= MaxAppends /\ Len(es2) # 0
    BY <1>12, <2>1
  <2> QED BY <2>2, EmptySeq
<1>16. Len(base.rows) < MaxRows
  <2>1. CASE entries = <<>>
    BY <1>1, <2>1 DEF RecoveryInv, IndexInv
  <2>2. CASE entries # <<>>
    BY <2>2 DEF RecoveryInv, IndexInv
  <2> QED BY <2>1, <2>2
<1> QED BY <1>2, <1>3, <1>10, <1>12, <1>14, <1>15, <1>16

\* insert and delete: logged, then applied.
LEMMA RecoveryMutate ==
    ASSUME Outside, RecoveryInv, NEW r \in Records, Mutate(r)
    PROVE  RecoveryInv'
<1>1. /\ MayAppend(r) /\ pc = "up" /\ pc' = pc /\ config' = config /\ snapFile' = snapFile
      /\ base' = base /\ packed' = packed /\ harm' = harm /\ entries' = NewEntry(r, TRUE)
      /\ mem' = ApplyRecord(mem, r) /\ logFile' = logFile \o Frame(r)
  BY DEF Mutate, MayAppend
<1>2. PICK dim \in Nat : dim = base.dim /\ r \in Mutations
  BY BaseFits
<1>3. PICK F \in Seq(Cells), k \in Nat : F = Frame(r) /\ k = Len(F) /\ k # 0
  <2>1. Frame(r) \in Seq(Cells) /\ Len(Frame(r)) = 2 * W32 + Len(Encode(r))
    BY <1>2, FrameMade DEF FrameCells
  <2>2. Len(Encode(r)) \in Nat \ {0}
    BY <1>2, EncodeTyped
  <2> QED BY <2>1, <2>2, Widths
<1>4. SubSeq(F, 1, k) = F
  <2>1. PICK part \in Seq(Cells) :
          part = SubSeq(F, 1, k) /\ Len(part) = k /\ \A i \in 1..k : part[i] = F[i]
    BY <1>3, FirstPart
  <2>2. part = F
    BY <1>3, <2>1, SeqEqual
  <2> QED BY <2>1, <2>2
<1>5. /\ LogInv' /\ entries' \in Seq(Logged) /\ Len(entries') = Len(entries) + 1
      /\ Len(entries') <= MaxAppends /\ entries' # <<>>
      /\ Len(base.rows) < MaxRows
  <2>1. k \in 1..Len(Frame(r)) /\ k = Len(Frame(r))
    BY <1>3
  <2>2. logFile' = logFile \o SubSeq(Frame(r), 1, k)
    BY <1>1, <1>3, <1>4
  <2>3. harm' # "none" \/ (harm = "none" /\ k = Len(Frame(r)))
    BY <1>1, <1>3
  <2>4. TRUE \in BOOLEAN
    OBVIOUS
  <2> QED BY <1>1, <2>1, <2>2, <2>3, <2>4, LoggedStep
<1>6. IndexInv'
  <2>1. mem \in IndexesOf(dim) /\ Len(mem.rows) <= Len(base.rows) + Len(entries)
    BY <1>1, <1>2 DEF RecoveryInv, IndexInv
  <2>2. mem' \in IndexesOf(dim) /\ Len(mem'.rows) <= Len(mem.rows) + 1
    BY <1>1, <1>2, <2>1, ApplyTyped
  <2>3. /\ Len(mem.rows) \in Nat /\ Len(mem'.rows) \in Nat
        /\ Len(base.rows) \in Nat /\ Len(entries) \in Nat
    BY <2>1, <2>2, BaseFits, LenProperties DEF IndexesOf
  <2>4. Len(mem'.rows) <= Len(base.rows) + (Len(entries) + 1)
    <3>1. PICK a \in Nat, b \in Nat, c \in Nat, d \in Nat :
            /\ a = Len(mem'.rows) /\ b = Len(mem.rows) /\ c = Len(base.rows) /\ d = Len(entries)
            /\ a <= b + 1 /\ b <= c + d
      BY <2>1, <2>2, <2>3
    <3>2. a <= c + (d + 1)
      <4>1. a <= b + 1 /\ b <= c + ((d + 1) - 1)
        BY <3>1
      <4>2. d + 1 \in Nat
        OBVIOUS
      <4> QED BY <4>1, <4>2, OneMore
    <3> QED BY <3>1, <3>2
  <2>5. /\ \E b \in Bases : base \in EvenIndexesOf(b.dim)
        /\ Len(base.rows) <= RowBound
    BY DEF RecoveryInv, IndexInv
  <2> QED BY <1>1, <1>2, <1>5, <2>2, <2>4, <2>5 DEF IndexInv, RowBound
<1>7. SnapInv'
  BY <1>1 DEF RecoveryInv, SnapInv
<1> QED BY <1>1, <1>5, <1>6, <1>7 DEF RecoveryInv, RecoversPrefix

\* A process that is killed in an append leaves what it had written.
LEMMA RecoveryKill ==
    ASSUME Outside, RecoveryInv, NEW r \in Records, NEW k \in 1..Len(Frame(r)), KillInAppend(r, k)
    PROVE  RecoveryInv'
<1>1. /\ MayAppend(r) /\ pc = "up" /\ pc' = "down" /\ snapFile' = snapFile /\ harm = "none"
      /\ base' = base /\ packed' = packed /\ entries' = NewEntry(r, k = Len(Frame(r)))
      /\ logFile' = logFile \o SubSeq(Frame(r), 1, k)
      /\ harm' = (IF k = Len(Frame(r)) THEN "none" ELSE "torn")
  BY DEF KillInAppend, MayAppend
<1>2. PICK whole \in BOOLEAN : whole = (k = Len(Frame(r)))
  OBVIOUS
<1>3. /\ LogInv' /\ entries' \in Seq(Logged) /\ Len(entries') = Len(entries) + 1
      /\ Len(entries') <= MaxAppends /\ entries' # <<>>
      /\ Len(base.rows) < MaxRows
  <2>1. entries' = NewEntry(r, whole)
    BY <1>1, <1>2
  <2>2. harm' # "none" \/ (harm = "none" /\ k = Len(Frame(r)))
    BY <1>1
  <2> QED BY <1>1, <2>1, <2>2, LoggedStep
<1>4. IndexInv'
  BY <1>1, <1>3 DEF RecoveryInv, IndexInv, RowBound
<1>5. SnapInv'
  BY <1>1 DEF RecoveryInv, SnapInv
<1> QED BY <1>1, <1>3, <1>4, <1>5 DEF RecoveryInv, RecoversPrefix, Pcs

\* What a harm to the first n cells of the log leaves is in order.
LEMMA HarmedStep ==
    ASSUME Outside, RecoveryInv, harm = "none", logFile # None, NEW n \in 0..Len(logFile),
           NEW m \in 0..Len(entries),
           \A i \in 1..Len(entries) : entries[i].start < n <=> i <= m,
           NEW es2 \in Seq(Logged), Kept(es2, entries, m),
           NEW g, Harmed(g, logFile, n),
           logFile' = g, entries' = es2, base' = base, harm' # "none"
    PROVE  /\ LogInv' /\ entries' \in Seq(Logged) /\ Len(entries') <= MaxAppends
           /\ entries' # <<>> => Len(base.rows) < MaxRows
<1>1. PICK dim \in Nat : dim = base.dim
  BY BaseFits
<1>2. PICK es \in Seq(Logged), l \in Nat :
        es = entries /\ l = Len(es) /\ l <= MaxAppends
  BY <1>1, LenProperties DEF RecoveryInv
<1>3. PICK f \in Seq(Cells) : f = logFile /\ LogHolds(f, es) /\ Unharmed(f, es)
  <2>1. LogHolds(logFile, entries) /\ Unharmed(logFile, entries)
    BY DEF RecoveryInv, LogInv
  <2>2. logFile \in Seq(Cells)
    BY <2>1 DEF LogHolds
  <2> QED BY <1>1, <1>2, <2>1, <2>2
<1>4. n \in 0..Len(f) /\ m \in 0..Len(es) /\ Kept(es2, es, m) /\ Harmed(g, f, n)
  BY <1>2, <1>3
<1>5. \A i \in 1..Len(es) : es[i].start < n <=> i <= m
  BY <1>2
<1>6. LogHolds(g, es2) /\ Places(g, es2)
  BY <1>1, <1>3, <1>4, <1>5, LogHarmed
<1>7. g # None
  BY DEF Outside, Harmed
<1>8. LogInv'
  BY <1>1, <1>6, <1>7 DEF LogInv
<1>9. Len(es2) = m
  BY DEF Kept
<1>10. Len(es2) <= MaxAppends
  BY <1>2, <1>4, <1>9, BaseFits
<1>11. es2 # <<>> => Len(base.rows) < MaxRows
  <2> SUFFICES ASSUME es2 # <<>> PROVE Len(base.rows) < MaxRows
    OBVIOUS
  <2>1. m # 0
    BY <1>9, EmptySeq
  <2>2. Len(es) # 0
    BY <1>2, <1>4, <2>1
  <2>3. entries # <<>>
    BY <1>2, <2>2, EmptySeq
  <2> QED BY <2>3 DEF RecoveryInv, IndexInv
<1> QED BY <1>1, <1>8, <1>10, <1>11

\* A cut takes the entries behind it.
LEMMA CutStep ==
    ASSUME Outside, RecoveryInv, harm = "none", logFile # None, NEW n \in 0..Len(logFile),
           NEW g, Harmed(g, logFile, n),
           logFile' = g, entries' = Remaining(n), base' = base, harm' # "none"
    PROVE  /\ LogInv' /\ entries' \in Seq(Logged) /\ Len(entries') <= MaxAppends
           /\ entries' # <<>> => Len(base.rows) < MaxRows
<1>1. PICK dim \in Nat : dim = base.dim
  BY BaseFits
<1>2. entries \in Seq(Logged) /\ LogHolds(logFile, entries)
  BY <1>1 DEF RecoveryInv, LogInv
<1>3. n \in Nat
  BY <1>2, LenProperties DEF LogHolds
<1>4. PICK m \in 0..Len(entries) :
        /\ \A i \in 1..Len(entries) : entries[i].start < n <=> i <= m
        /\ Remaining(n) \in Seq(Logged) /\ Kept(Remaining(n), entries, m)
  BY <1>1, <1>2, <1>3, RemainingKept
<1>5. PICK es2 \in Seq(Logged) : es2 = Remaining(n)
  BY <1>1, <1>4
<1> QED BY <1>4, <1>5, HarmedStep

\* A power loss leaves the first cells of the log, and perhaps zeros.
LEMMA RecoveryPowerLoss ==
    ASSUME Outside, RecoveryInv, NEW k \in 0..(IF logFile = None THEN 0 ELSE Len(logFile)),
           NEW zeros \in 0..MaxZeros, PowerLoss(k, zeros)
    PROVE  RecoveryInv'
<1>1. /\ harm = "none" /\ logFile # None /\ pc # "new" /\ pc' = "down"
      /\ logFile' = SubSeq(logFile, 1, k) \o [i \in 1..zeros |-> <<0>>]
      /\ entries' = Remaining(k) /\ harm' \in {"torn", "zeros"}
      /\ snapFile' = snapFile /\ base' = base /\ packed' = packed
  BY DEF PowerLoss
<1>2. PICK f \in Seq(Cells), n \in Nat : f = logFile /\ n = Len(f)
  BY <1>1, LenProperties DEF RecoveryInv, LogInv, LogHolds
<1>3. k \in Nat /\ k <= n /\ zeros \in Nat
  BY <1>1, <1>2, StoredAssumption
<1>4. PICK a \in Seq(Cells) :
        a = SubSeq(f, 1, k) /\ Len(a) = k /\ \A i \in 1..k : a[i] = f[i]
  <2>1. /\ SubSeq(f, 1, k) \in Seq(Cells) /\ Len(SubSeq(f, 1, k)) = k
        /\ \A i \in 1..k : SubSeq(f, 1, k)[i] = f[i]
    BY <1>2, <1>3, FirstPart
  <2> QED BY <2>1
<1>5. PICK z \in Seq(Digits) : z = [i \in 1..zeros |-> <<0>>] /\ Len(z) = zeros
  <2>1. [i \in 1..zeros |-> <<0>>] \in Seq(Digits) /\ Len([i \in 1..zeros |-> <<0>>]) = zeros
    BY <1>3, ZeroTyped
  <2> QED BY <2>1
<1>6. z \in Seq(Cells)
  BY SeqMonotonic DEF Cells, Plain
<1>7. PICK g \in Seq(Cells) : g = a \o z /\ Joins(Cells, a, z, g)
  BY <1>6, Joined, Zenon
<1>8. Harmed(g, f, k)
  <2>1. Len(g) = k + zeros
    BY <1>4, <1>5, <1>7 DEF Joins
  <2>2. ASSUME NEW p \in 1..Len(g) PROVE g[p] \in Digits \/ (p <= k /\ g[p] = f[p])
    <3>1. CASE p <= k
      <4>1. p \in 1..Len(a) /\ p \in 1..k
        BY <1>3, <1>4, <2>1, <3>1
      <4>2. g[p] = a[p]
        BY <1>7, <4>1 DEF Joins, Extends
      <4> QED BY <1>4, <3>1, <4>1, <4>2
    <3>2. CASE ~(p <= k)
      <4>1. PICK q \in 1..Len(z) : p = Len(a) + q
        <5>1. p - k \in 1..zeros /\ p = k + (p - k)
          BY <1>3, <2>1, <3>2
        <5> QED BY <1>4, <1>5, <5>1
      <4>2. g[p] = z[q]
        BY <1>7, <4>1 DEF Joins
      <4> QED BY <4>2, ElementOfSeq
    <3> QED BY <3>1, <3>2
  <2>3. k <= Len(g)
    BY <1>3, <2>1
  <2> QED BY <2>2, <2>3 DEF Harmed
<1>9. k \in 0..Len(logFile) /\ Harmed(g, logFile, k) /\ logFile' = g
  BY <1>1, <1>2, <1>3, <1>4, <1>5, <1>7, <1>8
<1>10. /\ LogInv' /\ entries' \in Seq(Logged) /\ Len(entries') <= MaxAppends
       /\ entries' # <<>> => Len(base.rows) < MaxRows
  <2>1. harm' # "none"
    BY <1>1
  <2> QED BY <1>1, <1>9, <2>1, CutStep
<1>11. IndexInv'
  BY <1>1, <1>10 DEF RecoveryInv, IndexInv, RowBound
<1>12. SnapInv'
  BY <1>1 DEF RecoveryInv, SnapInv
<1> QED BY <1>1, <1>10, <1>11, <1>12 DEF RecoveryInv, RecoversPrefix, Pcs

\* The medium of a log is damaged while the machine is off.
LEMMA RecoveryDamageLog ==
    ASSUME Outside, RecoveryInv, DamageLog
    PROVE  RecoveryInv'
<1>1. /\ harm = "none" /\ logFile # None /\ pc = "down" /\ pc' = "down" /\ harm' = "log"
      /\ snapFile' = snapFile /\ base' = base /\ packed' = packed /\ mem' = mem
  BY DEF DamageLog, handleVars
<1>2. PICK f \in Seq(Cells), l \in Nat : f = logFile /\ l = Len(f) /\ DOMAIN f = 1..l
  BY <1>1, LenProperties DEF RecoveryInv, LogInv, LogHolds
<1> DEFINE LogKept ==
         /\ LogInv' /\ entries' \in Seq(Logged) /\ Len(entries') <= MaxAppends
         /\ entries' # <<>> => Len(base.rows) < MaxRows
<1>3. LogKept
  <2>1. ASSUME NEW i \in DOMAIN logFile, NEW d \in DamageValues,
               logFile' = [logFile EXCEPT ![i] = <<d>>], entries' = entries
        PROVE  LogKept
    <3>1. PICK x \in Digits : x = <<d>>
      BY StoredAssumption
    <3>2. PICK g \in Seq(Cells) : g = logFile' /\ g = [f EXCEPT ![i] = x]
      BY <1>2, <2>1, <3>1, DamageDone
    <3>3. Len(g) = l /\ \A p \in 1..l : g[p] \in Digits \/ g[p] = f[p]
      <4>1. Len(g) = l
        BY <1>2, <3>2, LenProperties
      <4> QED BY <1>2, <3>2, <4>1
    <3>4. Harmed(g, f, l)
      BY <1>2, <3>3 DEF Harmed
    <3>5. PICK dim \in Nat : dim = base.dim
      BY BaseFits
    <3>6. entries \in Seq(Logged) /\ Places(f, entries)
      BY <1>1, <1>2, <3>5 DEF RecoveryInv, LogInv
    <3>7. PICK m \in Nat : m = Len(entries)
      BY <3>6, LenProperties
    <3>8. \A j \in 1..Len(entries) : entries[j].start < l <=> j <= m
      BY <1>2, <3>6, <3>7 DEF Places
    <3>9. Kept(entries, entries, m)
      BY <3>7 DEF Kept
    <3>10. l \in 0..Len(logFile) /\ m \in 0..Len(entries) /\ harm' # "none"
      BY <1>1, <1>2, <3>7
    <3> QED BY <1>1, <1>2, <2>1, <3>2, <3>4, <3>5, <3>6, <3>8, <3>9, <3>10, HarmedStep
  <2>2. ASSUME NEW n \in 0..(Len(logFile) - 1), CutLogTo(n)
        PROVE  LogKept
    <3>1. n \in Nat /\ n <= l /\ n \in 0..Len(logFile) /\ harm' # "none"
      BY <1>1, <1>2
    <3>2. PICK g : g = SubSeq(f, 1, n)
      OBVIOUS
    <3>3. g \in Seq(Cells) /\ Len(g) = n /\ \A p \in 1..n : g[p] = f[p]
      BY <1>2, <3>1, <3>2, FirstPart
    <3>4. Harmed(g, f, n)
      BY <3>1, <3>3 DEF Harmed
    <3>5. logFile' = g /\ entries' = Remaining(n)
      BY <1>2, <2>2, <3>2 DEF CutLogTo
    <3> QED BY <1>1, <1>2, <3>1, <3>4, <3>5, CutStep
  <2> QED BY <2>1, <2>2 DEF DamageLog
<1>4. IndexInv'
  BY <1>1, <1>3 DEF RecoveryInv, IndexInv, RowBound
<1>5. SnapInv'
  BY <1>1 DEF RecoveryInv, SnapInv
<1> QED BY <1>1, <1>3, <1>4, <1>5 DEF RecoveryInv, RecoversPrefix, Pcs

\* The medium of a snapshot is.
LEMMA RecoveryDamageSnapshot ==
    ASSUME Outside, RecoveryInv, DamageSnapshot
    PROVE  RecoveryInv'
<1>1. /\ harm = "none" /\ pc = "down" /\ pc' = "down" /\ harm' = "snapshot"
      /\ base' = base /\ packed' = packed /\ mem' = mem /\ entries' = entries /\ logFile' = logFile
  BY DEF DamageSnapshot, handleVars
<1>2. Written(snapFile, base, packed)
  BY <1>1 DEF RecoveryInv, SnapInv
<1>3. snapFile \in Seq(Cells)
  BY <1>2, BaseFits, WrittenIsFile DEF Outside
<1>4. Hurt(snapFile', snapFile)
  <2>1. ASSUME NEW i \in DOMAIN snapFile, NEW d \in DamageValues,
               snapFile' = [snapFile EXCEPT ![i] = <<d>>]
        PROVE  Hurt(snapFile', snapFile)
    BY <1>3, <2>1, StoredAssumption, DamageDone
  <2>2. ASSUME NEW n \in 0..(Len(snapFile) - 1), snapFile' = SubSeq(snapFile, 1, n)
        PROVE  Hurt(snapFile', snapFile)
    BY <1>3, <2>2, DamageDone
  <2> QED BY <2>1, <2>2 DEF DamageSnapshot
<1>5. SnapInv'
  <2>1. Written(snapFile, base', packed')
    BY <1>1, <1>2
  <2> QED BY <1>1, <1>4, <2>1 DEF SnapInv
<1>6. LogInv' /\ IndexInv'
  BY <1>1 DEF RecoveryInv, LogInv, IndexInv, RowBound
<1> QED BY <1>1, <1>5, <1>6 DEF RecoveryInv, RecoversPrefix, Pcs

\* ParseFindsPrefix for the entries of this specification.
LEMMA FirstAreRead ==
    ASSUME NEW es \in Seq(Logged), NEW f,
           LogHolds(f, es)
    PROVE  \E k \in 0..Len(es) : ParseRecords(f).recs = FirstRecs(es, k)
BY ParseFindsPrefix, Zenon DEF Logged

\* load: what it reads from the log is a part of what was logged, from the
\* start, and what it reads from the snapshot is what was saved.
LEMMA RecoveryLoad ==
    ASSUME Outside, RecoveryInv, NEW cfg \in Configs, LoadIndex(cfg)
    PROVE  RecoveryInv'
<1>1. /\ pc # "new" /\ config' = cfg /\ snapFile' = snapFile /\ logFile' = logFile
      /\ base' = base /\ packed' = packed /\ entries' = entries /\ harm' = harm
  BY DEF LoadIndex, clockVars, historyVars
<1>2. PICK snapshot : snapshot = Load(snapFile, cfg.type, cfg.features)
  OBVIOUS
<1>3. PICK log : log = ReadLog
  OBVIOUS
<1>4. PICK dim \in Nat :
        /\ dim = base.dim /\ dim < Pow[W32] /\ base \in EvenIndexesOf(dim)
        /\ Len(base.rows) \in Nat /\ Storable(dim, Len(base.rows))
  BY BaseFits
<1>5. PICK es \in Seq(Logged), n \in Nat : es = entries /\ n = Len(es)
  BY <1>4, LenProperties DEF RecoveryInv
<1>6. snapshot.err = "Ok" => snapshot.ix = Reloaded(base)
  <2>1. PICK g : Written(g, base, packed) /\ Hurt(snapFile, g)
    BY <1>1 DEF RecoveryInv, SnapInv
  <2> QED BY <1>2, <1>4, <2>1, SnapshotNeverLies DEF Outside, Hurt
<1>7. PICK k \in 0..n : log.recs = FirstRecs(es, k)
  <2>1. CASE logFile = None
    <3>1. log.recs = <<>>
      BY <1>3, <2>1 DEF ReadLog
    <3>2. FirstRecs(es, 0) = <<>>
      BY DEF FirstRecs
    <3> QED BY <1>5, <3>1, <3>2
  <2>2. CASE logFile # None
    <3>1. LogHolds(logFile, es)
      BY <1>4, <1>5, <2>2 DEF RecoveryInv, LogInv
    <3>2. log = ParseRecords(logFile)
      BY <1>3, <2>2 DEF ReadLog
    <3>3. \E k \in 0..Len(es) : ParseRecords(logFile).recs = FirstRecs(es, k)
      BY <1>4, <3>1, FirstAreRead
    <3> QED BY <1>5, <3>2, <3>3
  <2> QED BY <2>1, <2>2
<1>8. PICK rs \in Seq(Mutations) : rs = log.recs /\ Len(rs) = k /\ rs = FirstRecs(es, k)
  <2>1. \A i \in 1..k : es[i].rec \in Mutations
    <3> TAKE i \in 1..k
    <3>1. i \in 1..n
      BY <1>5, <1>7
    <3>2. es[i] \in Logged
      BY <1>5, <3>1, ElementOfSeq
    <3> QED BY <3>2 DEF Logged
  <2>2. k \in Nat
    BY <1>7
  <2>3. FirstRecs(es, k) \in Seq(Mutations) /\ Len(FirstRecs(es, k)) = k
    BY <2>1, <2>2 DEF FirstRecs
  <2> QED BY <1>7, <2>3
<1>9. PICK loaded \in IndexesOf(dim) :
        /\ loaded = ApplyAll(Reloaded(base), rs)
        /\ Len(loaded.rows) <= Len(base.rows) + k
        /\ k = 0 => loaded.rows = base.rows
  <2>1. Reloaded(base) \in IndexesOf(dim) /\ Reloaded(base).rows = base.rows
    BY <1>4, ReloadedTyped
  <2> QED BY <1>8, <2>1, ApplyAllTyped
<1>10. CASE outcome' # "Ok"
  <2>1. pc' = "failed"
    BY <1>10 DEF LoadIndex, Replay
  <2>2. IndexInv' /\ SnapInv' /\ LogInv'
    BY <1>1, <2>1 DEF RecoveryInv, IndexInv, SnapInv, LogInv, RowBound
  <2> QED BY <1>1, <2>1, <2>2 DEF RecoveryInv, RecoversPrefix, Pcs
<1>11. CASE outcome' = "Ok"
  <2> DEFINE checks ==
         << <<~Supported(cfg.scheme, cfg.features), "Unsupported">>,
            <<snapshot.err # "Ok", snapshot.err>>,
            <<log.err # "Ok", log.err>>,
            <<Misfits(snapshot.ix, log.recs), "InvalidPayload">> >>
  <2>1. FirstError(checks) = "Ok" /\ pc' = "loaded" /\ recs' = log.recs
        /\ mem' = ApplyAll(snapshot.ix, log.recs)
    BY <1>2, <1>3, <1>11 DEF LoadIndex, Replay
  <2> HIDE DEF checks
  <2>2. snapshot.err = "Ok"
    <3>1. DOMAIN checks = 1..4
      BY DEF checks
    <3>2. \A i \in 1..4 : checks[i][1] => checks[i][2] # "Ok"
      <4>1. checks[1][2] # "Ok" /\ checks[4][2] # "Ok"
        BY DEF checks
      <4>2. checks[2][1] => checks[2][2] # "Ok"
        BY DEF checks
      <4>3. checks[3][1] => checks[3][2] # "Ok"
        BY DEF checks
      <4> QED BY <4>1, <4>2, <4>3
    <3>3. \A i \in 1..4 : ~checks[i][1]
      BY <2>1, <3>1, <3>2, FirstErrorOk
    <3>4. ~checks[2][1]
      BY <3>3
    <3> QED BY <3>4 DEF checks
  <2>3. recs' = rs /\ mem' = loaded
    BY <1>6, <1>8, <1>9, <2>1, <2>2
  <2>4. RecoversPrefix'
    <3>1. PICK all : all = [i \in DOMAIN es |-> es[i].rec]
      OBVIOUS
    <3>2. DOMAIN es = 1..n
      BY <1>5
    <3>3. all \in Seq({es[i].rec : i \in 1..n}) /\ Len(all) = n
      BY <3>1, <3>2
    <3>4. SubSeq(all, 1, k) = rs
      <4>1. PICK part : part = SubSeq(all, 1, k)
        OBVIOUS
      <4>2. /\ part \in Seq({es[i].rec : i \in 1..n}) /\ Len(part) = k
            /\ \A i \in 1..k : part[i] = all[i]
        <5>1. k \in Nat /\ k <= Len(all)
          BY <1>7, <3>3
        <5> QED BY <3>3, <4>1, <5>1, FirstPart
      <4>3. \A i \in 1..k : part[i] = rs[i]
        <5> TAKE i \in 1..k
        <5>1. i \in 1..n
          BY <1>5, <1>7
        <5>2. rs[i] = es[i].rec
          BY <1>8 DEF FirstRecs
        <5> QED BY <3>1, <3>2, <4>2, <5>1, <5>2
      <4>4. part = [i \in 1..k |-> part[i]]
        BY <4>2
      <4>5. rs = [i \in 1..k |-> rs[i]]
        BY <1>8
      <4> QED BY <4>1, <4>3, <4>4, <4>5
    <3>5. IsPrefix(rs, all)
      BY <1>7, <1>8, <3>3, <3>4 DEF IsPrefix
    <3> QED BY <1>1, <1>5, <1>9, <2>3, <3>1, <3>5 DEF RecoversPrefix
  <2>5. IndexInv'
    <3>1. Len(loaded.rows) <= Len(base.rows) + n
      <4>1. PICK a \in Nat, b \in Nat : a = Len(loaded.rows) /\ b = Len(base.rows) /\ a <= b + k
        BY <1>4, <1>9, LenProperties DEF IndexesOf
      <4>2. k \in Nat /\ k <= n
        BY <1>5, <1>7
      <4>3. a <= b + n
        BY <1>5, <4>1, <4>2
      <4> QED BY <4>1, <4>3
    <3>2. entries = <<>> => loaded.rows = base.rows
      <4>1. entries = <<>> => n = 0
        BY <1>5, EmptySeq
      <4> QED BY <1>7, <1>9, <4>1
    <3>3. /\ \E b \in Bases : base \in EvenIndexesOf(b.dim)
          /\ Len(base.rows) <= RowBound
          /\ entries # <<>> => Len(base.rows) < MaxRows
      BY DEF RecoveryInv, IndexInv
    <3> QED BY <1>1, <1>4, <1>5, <2>1, <2>3, <3>1, <3>2, <3>3 DEF IndexInv, RowBound
  <2>6. SnapInv' /\ LogInv'
    BY <1>1, <2>1 DEF RecoveryInv, SnapInv, LogInv
  <2> QED BY <1>1, <2>1, <2>4, <2>5, <2>6 DEF RecoveryInv, Pcs
<1> QED BY <1>10, <1>11

\* After a load the log is opened at its end, or made anew.
LEMMA RecoveryOpenForAppend ==
    ASSUME Outside, RecoveryInv, OpenForAppend
    PROVE  RecoveryInv'
<1>1. /\ pc = "loaded" /\ pc' = "up" /\ config' = config /\ mem' = mem /\ snapFile' = snapFile
      /\ base' = base /\ packed' = packed /\ entries' = entries /\ harm' = harm
  BY DEF OpenForAppend, historyVars
<1>2. LogInv'
  <2>1. CASE logFile = None
    <3>1. logFile' = WalHeader /\ entries = <<>>
      BY <1>1, <2>1 DEF OpenForAppend, RecoveryInv, LogInv
    <3>2. /\ WalHeader \in Seq(Cells) /\ LogHolds(WalHeader, <<>>)
          /\ Places(WalHeader, <<>>) /\ Unharmed(WalHeader, <<>>)
      BY BaseFits, NewLog
    <3> QED BY <1>1, <3>1, <3>2 DEF LogInv, Outside
  <2>2. CASE logFile # None
    <3>1. logFile' = logFile
      BY <2>2 DEF OpenForAppend
    <3> QED BY <1>1, <2>2, <3>1 DEF RecoveryInv, LogInv
  <2> QED BY <2>1, <2>2
<1>3. IndexInv' /\ SnapInv'
  BY <1>1 DEF RecoveryInv, IndexInv, SnapInv, RowBound
<1> QED BY <1>1, <1>2, <1>3 DEF RecoveryInv, RecoversPrefix, Pcs

\* A snapshot of a build that wrote format 1 is one of the index, too.
LEMMA RecoveryFindLegacy ==
    ASSUME Outside, RecoveryInv, FindLegacy
    PROVE  RecoveryInv'
<1>1. /\ pc = "new" /\ pc' = "down" /\ snapFile' = LegacySnapshot(mem) /\ logFile' = logFile
      /\ base' = base /\ packed' = "legacy" /\ entries' = entries /\ harm' = harm
  BY DEF FindLegacy
<1>2. mem = base /\ base \in EvenIndexesOf(base.dim)
  BY <1>1, BaseFits DEF RecoveryInv, IndexInv
<1>3. Written(snapFile', base', packed') /\ Hurt(snapFile', snapFile')
  <2>1. Written(snapFile', base, packed')
    BY <1>1, <1>2 DEF Written
  <2> QED BY <1>1, <2>1, BaseFits, WrittenIsFile DEF Outside
<1>4. SnapInv'
  BY <1>1, <1>3 DEF SnapInv
<1>5. IndexInv' /\ LogInv'
  BY <1>1 DEF RecoveryInv, IndexInv, LogInv, RowBound
<1> QED BY <1>1, <1>4, <1>5 DEF RecoveryInv, RecoversPrefix, Pcs

\* The other steps touch neither the files nor what they hold.
LEMMA RecoveryRest ==
    ASSUME RecoveryInv, WriteRefused \/ Tick \/ Stop \/ UNCHANGED vars
    PROVE  RecoveryInv'
<1>1. /\ snapFile' = snapFile /\ logFile' = logFile /\ base' = base /\ entries' = entries
      /\ packed' = packed /\ harm' = harm /\ recs' = recs
  BY DEF WriteRefused, Tick, Stop, vars, handleVars, loadVars, clockVars, historyVars
<1>2. (pc' = pc /\ config' = config /\ mem' = mem) \/ (pc = "up" /\ pc' = "down")
  BY DEF WriteRefused, Tick, Stop, vars, handleVars
<1>3. IndexInv' /\ SnapInv'
  BY <1>1, <1>2 DEF RecoveryInv, IndexInv, SnapInv, RowBound
<1>4. LogInv'
  BY <1>1, <1>2 DEF RecoveryInv, LogInv
<1>5. RecoversPrefix'
  BY <1>1, <1>2 DEF RecoveryInv, RecoversPrefix
<1> QED BY <1>1, <1>2, <1>3, <1>4, <1>5 DEF RecoveryInv, Pcs

-----------------------------------------------------------------------------
(* The theorem *)

\* Every step keeps the invariant.
LEMMA RecoveryStep ==
    ASSUME Outside, RecoveryInv, [Next]_vars
    PROVE  RecoveryInv'
<1>1. ASSUME OpenWith PROVE RecoveryInv'
  BY <1>1, RecoveryWriteBoth DEF OpenWith
<1>2. ASSUME Checkpoint PROVE RecoveryInv'
  BY <1>2, RecoveryWriteBoth DEF Checkpoint
<1>3. ASSUME FindLegacy PROVE RecoveryInv'
  BY <1>3, RecoveryFindLegacy
<1>4. ASSUME WriteRefused \/ Tick \/ Stop \/ UNCHANGED vars PROVE RecoveryInv'
  BY <1>4, RecoveryRest
<1>5. ASSUME NEW r \in Records, Mutate(r) PROVE RecoveryInv'
  BY <1>5, RecoveryMutate
<1>6. ASSUME NEW r \in Records, NEW k \in 1..Len(Frame(r)), KillInAppend(r, k)
      PROVE  RecoveryInv'
  BY <1>6, RecoveryKill
<1>7. ASSUME NEW k \in 0..(IF logFile = None THEN 0 ELSE Len(logFile)),
             NEW zeros \in 0..MaxZeros, PowerLoss(k, zeros)
      PROVE  RecoveryInv'
  BY <1>7, RecoveryPowerLoss
<1>8. ASSUME DamageSnapshot PROVE RecoveryInv'
  BY <1>8, RecoveryDamageSnapshot
<1>9. ASSUME DamageLog PROVE RecoveryInv'
  BY <1>9, RecoveryDamageLog
<1>10. ASSUME NEW cfg \in Configs, LoadIndex(cfg) PROVE RecoveryInv'
  BY <1>10, RecoveryLoad
<1>11. ASSUME OpenForAppend PROVE RecoveryInv'
  BY <1>11, RecoveryOpenForAppend
<1> QED
  BY <1>1, <1>2, <1>3, <1>4, <1>5, <1>6, <1>7, <1>8, <1>9, <1>10, <1>11 DEF Next

\* Whatever a kill, a power loss, or a damaged medium leaves of the snapshot
\* and the log, load (persisted.rs, recovery.rs) either fails or returns
\* the index of the snapshot with the first of the mutations made since, in
\* order: it is never silently wrong.
THEOREM RecoversPrefixAlways == Outside => (Spec => []RecoversPrefix)
<1> SUFFICES ASSUME Outside PROVE Spec => []RecoversPrefix
  OBVIOUS
<1>1. Init => RecoveryInv
  BY RecoveryInit
<1>2. RecoveryInv /\ [Next]_vars => RecoveryInv'
  BY RecoveryStep
<1>3. RecoveryInv => RecoversPrefix
  BY DEF RecoveryInv
<1> QED BY <1>1, <1>2, <1>3, PTL DEF Spec

-----------------------------------------------------------------------------
(* What the log holds whole is read *)

\* The log holds the frame of an entry, to its last cell.
Whole(f, e) == Behind(e) <= Len(f) /\ Holds(f, e.start, Frame(e.rec))

\* A whole frame is read as what was written.
LEMMA WholeIsRead ==
    ASSUME NEW f \in Seq(Cells), NEW e, e.rec \in Mutations, e.start \in Nat,
           Len(Encode(e.rec)) < Pow[W32], Whole(f, e)
    PROVE  FrameAt(f, e.start) = [len |-> Len(Encode(e.rec)), crc |-> Crc(Encode(e.rec)),
                                  body |-> Encode(e.rec), ok |-> TRUE]
<1>1. PICK w \in Nat \ {0} : w = W32
  BY Widths
<1>2. PICK body \in Seq(Digits), n \in Nat \ {0} :
        body = Encode(e.rec) /\ n = Len(body) /\ n < Pow[w]
  BY <1>1, EncodeTyped
<1>3. PICK len \in Seq(Cells) : len = LE(n, w) /\ Len(len) = w /\ Num(len) = n
  <2>1. PICK l \in Seq(Digits) : l = LE(n, w) /\ Len(l) = w
    BY <1>1, <1>2, LETyped
  <2>2. l \in Seq(Cells)
    BY SeqMonotonic DEF Cells, Plain
  <2>3. Num(l) = n
    BY <1>1, <1>2, <2>1, NumLE
  <2> QED BY <2>1, <2>2, <2>3
<1>4. PICK crc \in Seq(Cells) : crc = Crc(body) /\ Len(crc) = w
  <2>1. body \in Seq(Plain)
    BY SeqMonotonic DEF Plain
  <2> QED BY <1>1, <2>1, CrcTyped
<1>5. body \in Seq(Cells)
  BY SeqMonotonic DEF Cells, Plain
<1>6. PICK p \in Nat, l \in Nat : p = e.start /\ l = Len(f)
  BY LenProperties
<1>7. PICK F \in Seq(Cells) :
        /\ F = Frame(e.rec) /\ Len(F) = 2 * w + n
        /\ Holds(F, 0, len) /\ Holds(F, w, crc) /\ Holds(F, 2 * w, body)
  <2> HIDE DEF Holds
  <2> QED BY <1>1, <1>2, <1>3, <1>4, FrameLaid
<1>8. p + 2 * w + n <= l /\ \A k \in 1..(2 * w + n) : f[p + k] = F[k]
  BY <1>1, <1>2, <1>6, <1>7 DEF Whole, Behind, BehindFrame, Holds
<1>9. Holds(f, p, len) /\ Holds(f, p + w, crc) /\ Holds(f, p + w + w, body)
  <2>1. ASSUME NEW k \in 1..w PROVE f[p + k] = len[k] /\ f[(p + w) + k] = crc[k]
    <3>1. k \in 1..(2 * w + n) /\ w + k \in 1..(2 * w + n)
      BY <1>1, <1>2
    <3>2. F[k] = len[k] /\ F[w + k] = crc[k]
      <4>1. F[0 + k] = len[k] /\ 0 + k = k
        BY <1>3, <1>7 DEF Holds
      <4> QED BY <1>4, <1>7, <4>1 DEF Holds
    <3>3. p + (w + k) = (p + w) + k
      BY <1>1
    <3> QED BY <1>8, <3>1, <3>2, <3>3
  <2>2. ASSUME NEW k \in 1..n PROVE f[(p + w + w) + k] = body[k]
    <3>1. 2 * w + k \in 1..(2 * w + n)
      BY <1>1, <1>2
    <3>2. F[2 * w + k] = body[k]
      BY <1>2, <1>7 DEF Holds
    <3>3. p + (2 * w + k) = (p + w + w) + k
      BY <1>1
    <3> QED BY <1>8, <3>1, <3>2, <3>3
  <2> QED BY <1>2, <1>3, <1>4, <2>1, <2>2 DEF Holds
<1>10. PICK c : c = Cursor(SubSeq(f, p + 1, Len(f))) /\ Ready(f, p, c)
  <2>1. PICK s : s = SubSeq(f, p + 1, Len(f))
    OBVIOUS
  <2>2. s \in Seq(Cells) /\ Len(s) = Len(f) - p /\ \A i \in 1..(Len(f) - p) : s[i] = f[p + i]
    <3>1. p <= Len(f)
      BY <1>1, <1>2, <1>6, <1>8
    <3> QED BY <2>1, <3>1, RestPart
  <2>3. Cursor(s).rest = s /\ Cursor(s).ok = TRUE
    BY DEF Cursor
  <2> QED BY <2>1, <2>2, <2>3 DEF Stands, Ready
<1>11. PICK c1 : c1 = Take(c, W32) /\ c1.val = len /\ Ready(f, p + w, c1)
  <2>1. p + w <= Len(f) /\ w \in Nat
    BY <1>1, <1>2, <1>6, <1>8
  <2>2. Follow(f, p, len, w)
    BY <1>3, <1>9, <2>1 DEF Follow
  <2> QED BY <1>1, <1>10, <2>1, <2>2, TakeHeld
<1>12. PICK c2 : c2 = Take(c1, W32) /\ c2.val = crc /\ Ready(f, p + w + w, c2)
  <2>1. p + w + w <= Len(f) /\ p + w \in Nat /\ w \in Nat
    BY <1>1, <1>2, <1>6, <1>8
  <2>2. Follow(f, p + w, crc, w)
    BY <1>4, <1>9, <2>1 DEF Follow
  <2> QED BY <1>1, <1>11, <2>1, <2>2, TakeHeld
<1>13. PICK c3 : c3 = Take(c2, n) /\ c3.val = body /\ Ready(f, p + w + w + n, c3)
  <2>1. PICK q \in Nat : q = p + w + w /\ q + n <= Len(f)
    BY <1>1, <1>2, <1>6, <1>8
  <2>2. n \in Nat /\ Ready(f, q, c2) /\ Follow(f, q, body, n)
    BY <1>2, <1>9, <1>12, <2>1 DEF Follow
  <2> QED BY <1>5, <2>1, <2>2, TakeHeld
<1>14. c3.ok = TRUE
  BY <1>13 DEF Ready
<1> QED BY <1>2, <1>3, <1>4, <1>6, <1>10, <1>11, <1>12, <1>13, <1>14, Zenon DEF FrameAt

\* A frame that is there and not too long is accepted, and the loop goes on
\* behind it.
LEMMA WholeIsAccepted ==
    ASSUME NEW f \in Seq(Cells),
           NEW e, e.rec \in Mutations, e.start \in Nat,
           Len(Encode(e.rec)) < Pow[W32], Len(Encode(e.rec)) <= MaxRecordLen, Whole(f, e),
           NEW p \in ParseStates, ~p.done, p.pos = e.start
    PROVE  /\ ~ParseFrame(f, p).done /\ ParseFrame(f, p).pos = Behind(e)
           /\ Len(ParseFrame(f, p).recs) = Len(p.recs) + 1
<1>1. PICK a : a = FrameAt(f, e.start)
  OBVIOUS
<1>2. /\ a.len = Len(Encode(e.rec)) /\ a.crc = Crc(Encode(e.rec)) /\ a.body = Encode(e.rec)
      /\ a.ok = TRUE
  <2>1. FrameAt(f, e.start) = [len |-> Len(Encode(e.rec)), crc |-> Crc(Encode(e.rec)),
                               body |-> Encode(e.rec), ok |-> TRUE]
    BY WholeIsRead, Zenon
  <2> QED BY <1>1, <2>1
<1>3. PICK n \in Nat, m \in Nat : n = Len(Encode(e.rec)) /\ m = MaxRecordLen /\ n <= m
  BY EncodeTyped, TagAssumption
<1>4. ~Torn(f, p.pos)
  BY <1>1, <1>2, <1>3 DEF Torn, Intact
<1>5. Decode(a.body) = [ok |-> TRUE, rec |-> e.rec]
  BY <1>2, DecodeInverts
<1>6. ParseFrame(f, p) = [p EXCEPT !.pos = FrameEnd(f, @), !.recs = Append(@, e.rec)]
  BY <1>1, <1>4, <1>5 DEF ParseFrame
<1>7. FrameEnd(f, p.pos) = Behind(e)
  BY <1>1, <1>2 DEF FrameEnd, Behind, BehindFrame
<1>8. PICK rs \in Seq({Decode(b).rec : b \in Seq(Cells)}), x \in Nat :
        /\ rs = p.recs /\ x = p.pos
        /\ p = [pos |-> x, recs |-> rs, done |-> p.done, err |-> p.err]
  BY DEF ParseStates
<1>9. Len(Append(rs, e.rec)) = Len(rs) + 1
  <2>1. e.rec \in {Decode(b).rec : b \in Seq(Cells)}
    <3>1. Encode(e.rec) \in Seq(Cells)
      BY EncodeTyped, SeqMonotonic DEF Cells, Plain
    <3>2. Decode(Encode(e.rec)).rec = e.rec
      BY <1>2, <1>5
    <3> QED BY <3>1, <3>2
  <2> QED BY <1>8, <2>1, AppendProperties
<1>10. /\ ParseFrame(f, p).done = p.done /\ ParseFrame(f, p).pos = FrameEnd(f, p.pos)
       /\ ParseFrame(f, p).recs = Append(rs, e.rec)
  BY <1>6, <1>8
<1> QED BY <1>7, <1>8, <1>9, <1>10

\* No step of the loop takes a record back.
LEMMA ReadIsKept ==
    ASSUME NEW f \in Seq(Cells), NEW p \in ParseStates
    PROVE  Len(p.recs) \in Nat /\ Len(ParseFrame(f, p).recs) \in Nat
           /\ Len(p.recs) <= Len(ParseFrame(f, p).recs)
<1>1. PICK R : R = {Decode(b).rec : b \in Seq(Cells)} /\ p.recs \in Seq(R)
  BY DEF ParseStates
<1>2. PICK q \in ParseStates : q = ParseFrame(f, p)
  BY ParseFrameTyped
<1>3. q.recs \in Seq(R) /\ Len(q.recs) \in Nat /\ Len(p.recs) \in Nat
  BY <1>1, LenProperties DEF ParseStates
<1>4. q.recs = p.recs \/ \E r : q.recs = Append(p.recs, r)
  BY <1>2 DEF ParseFrame, ParseStates
<1>5. \A r : Len(Append(p.recs, r)) = Len(p.recs) + 1
  BY <1>1
<1> QED BY <1>2, <1>3, <1>4, <1>5

\* The first m entries are whole, none too long, one behind the other.
InReach(f, es, m) ==
    \A j \in 1..m :
        /\ Whole(f, es[j]) /\ Len(Encode(es[j].rec)) <= MaxRecordLen
        /\ es[j].start = (IF j = 1 THEN Len(WalHeader) ELSE Behind(es[j - 1]))

\* Where the loop stands when it has read the first n entries.
ReadTo(es, n) == IF n = 0 THEN Len(WalHeader) ELSE Behind(es[n])

\* The loop has read the first n entries, and no byte twice.
HasRead(es, n, p) == ~p.done /\ p.pos = ReadTo(es, n) /\ n <= p.pos /\ Len(p.recs) = n

\* One entry more.
LEMMA ReachOn ==
    ASSUME NEW es \in Seq(Logged), NEW f,
           LogHolds(f, es), NEW m \in 1..Len(es), InReach(f, es, m),
           NEW n \in 1..m, NEW p \in ParseStates, HasRead(es, n - 1, p)
    PROVE  n \in 1..Len(f) /\ HasRead(es, n, ParseFrame(f, p))
<1>1. PICK l \in Nat : f \in Seq(Cells) /\ l = Len(f)
  BY LenProperties DEF LogHolds
<1>2. PICK e \in Logged : e = es[n] /\ n \in 1..Len(es) /\ n \in Nat
  <2>1. Len(es) \in Nat
    BY LenProperties
  <2>2. n \in 1..Len(es) /\ n \in Nat
    BY <2>1
  <2> QED BY <2>2, ElementOfSeq
<1>3. /\ e.rec \in Mutations /\ e.start \in Nat /\ Len(Encode(e.rec)) < Pow[W32]
  BY <1>2 DEF LogHolds
<1>4. Whole(f, e) /\ Len(Encode(e.rec)) <= MaxRecordLen /\ p.pos = e.start
  <2>1. /\ Whole(f, e) /\ Len(Encode(e.rec)) <= MaxRecordLen
        /\ e.start = (IF n = 1 THEN Len(WalHeader) ELSE Behind(es[n - 1]))
    BY <1>2 DEF InReach
  <2>2. p.pos = (IF n - 1 = 0 THEN Len(WalHeader) ELSE Behind(es[n - 1]))
    BY DEF HasRead, ReadTo
  <2>3. n - 1 = 0 <=> n = 1
    BY <1>2
  <2> QED BY <2>1, <2>2, <2>3
<1>5. PICK q : q = ParseFrame(f, p)
  OBVIOUS
<1>6. ~q.done /\ q.pos = Behind(e) /\ Len(q.recs) = Len(p.recs) + 1
  <2>1. ~p.done
    BY DEF HasRead
  <2> QED BY <1>1, <1>3, <1>4, <1>5, <2>1, WholeIsAccepted
<1>7. Len(p.recs) = n - 1 /\ n - 1 <= e.start
  BY <1>4 DEF HasRead
<1>8. n <= Behind(e) /\ Behind(e) <= l
  <2>1. PICK w \in Nat \ {0}, b \in Nat : w = W32 /\ b = Len(Encode(e.rec))
    BY <1>3, EncodeTyped, Widths
  <2>2. Behind(e) = e.start + 2 * w + b
    BY <2>1 DEF Behind, BehindFrame
  <2>3. n <= Behind(e)
    BY <1>2, <1>3, <1>7, <2>1, <2>2
  <2> QED BY <1>1, <1>4, <2>3 DEF Whole
<1>9. Behind(e) \in Nat
  BY <1>3, EncodeTyped, Widths DEF Behind, BehindFrame
<1>10. n \in 1..Len(f)
  BY <1>1, <1>2, <1>8, <1>9
<1>11. ReadTo(es, n) = Behind(e) /\ Len(q.recs) = n
  BY <1>2, <1>6, <1>7 DEF ReadTo
<1> QED BY <1>5, <1>6, <1>8, <1>10, <1>11 DEF HasRead

\* What can be reached is read, whatever lies behind it.
LEMMA InReachIsRead ==
    ASSUME NEW es \in Seq(Logged), NEW f,
           LogHolds(f, es), NEW m \in 1..Len(es), InReach(f, es, m),
           ParseRecords(f).err = "Ok"
    PROVE  Len(ParseRecords(f).recs) \in Nat /\ m <= Len(ParseRecords(f).recs)
<1>1. PICK l \in Nat : f \in Seq(Cells) /\ l = Len(f)
  BY LenProperties DEF LogHolds
<1>2. PICK g : g = Parsing(f)
  OBVIOUS
<1>3. /\ g[0] = [pos |-> Len(WalHeader), recs |-> <<>>, done |-> NoHeader(f), err |-> "Ok"]
      /\ \A n \in 0..l : g[n] \in ParseStates
      /\ \A n \in 1..l : g[n] = ParseFrame(f, g[n - 1])
  BY <1>1, <1>2, ParsingDef
<1>4. m \in Nat /\ 1 <= m /\ Len(WalHeader) \in Nat
  BY LenProperties, HeaderLength
<1>5. ~NoHeader(f)
  <2>1. 1 \in 1..m /\ 1 \in 1..Len(es)
    BY <1>4, LenProperties
  <2>2. es[1].start = Len(WalHeader) /\ Behind(es[1]) <= Len(f)
    BY <2>1 DEF InReach, Whole
  <2>3. PICK w \in Nat, b \in Nat : w = W32 /\ b = Len(Encode(es[1].rec))
    BY <2>1, EncodeTyped, Widths DEF LogHolds
  <2>4. Len(WalHeader) + 2 * w + b <= l
    BY <1>1, <2>2, <2>3 DEF Behind, BehindFrame
  <2>5. Len(WalHeader) <= l
    BY <1>1, <1>4, <2>3, <2>4
  <2> QED BY <1>1, <1>4, <2>5 DEF NoHeader
<1>6. ParseRecords(f).recs = g[l].recs
  <2>1. LogVerdict(f) = "Ok"
    BY <1>5 DEF ParseRecords
  <2> QED BY <1>1, <1>2, <1>5, <2>1 DEF ParseRecords
<1>7. \A n \in 0..m : n \in 0..l /\ HasRead(es, n, g[n])
  <2> DEFINE S == {n \in 0..m : n \in 0..l /\ HasRead(es, n, g[n])}
  <2>1. 0 \in S
    <3>1. ~g[0].done /\ g[0].pos = Len(WalHeader) /\ g[0].recs = <<>>
      BY <1>3, <1>5
    <3>2. HasRead(es, 0, g[0])
      BY <1>4, <3>1 DEF HasRead, ReadTo
    <3> QED BY <1>1, <1>4, <3>2
  <2>2. ASSUME NEW n \in 1..m, n - 1 \in S PROVE n \in S
    <3>1. n - 1 \in 0..l /\ HasRead(es, n - 1, g[n - 1]) /\ g[n - 1] \in ParseStates
      BY <1>3, <2>2
    <3>2. n \in 1..Len(f) /\ HasRead(es, n, ParseFrame(f, g[n - 1]))
      BY <3>1, ReachOn
    <3>3. n \in 1..l /\ n \in 0..l /\ n \in 0..m
      BY <1>1, <1>4, <3>2
    <3> QED BY <1>3, <3>2, <3>3
  <2>3. \A n \in 0..m : n \in S
    <3> HIDE DEF S
    <3> QED BY <1>4, <2>1, <2>2, UpTo
  <2> QED BY <2>3
<1>8. m \in 0..l /\ Len(g[m].recs) = m
  <2>1. m \in 0..m
    BY <1>4
  <2> QED BY <1>7, <2>1 DEF HasRead
<1>9. \A n \in 0..l : m <= n => Len(g[n].recs) \in Nat /\ m <= Len(g[n].recs)
  <2> DEFINE S == {n \in 0..l : m <= n => Len(g[n].recs) \in Nat /\ m <= Len(g[n].recs)}
  <2>1. 0 \in S
    BY <1>1, <1>4
  <2>2. ASSUME NEW n \in 1..l, n - 1 \in S PROVE n \in S
    <3>1. n \in 0..l /\ n - 1 \in 0..l
      BY <1>1
    <3>2. CASE n = m
      BY <1>4, <1>8, <3>1, <3>2
    <3>3. CASE n < m
      BY <1>4, <3>1, <3>3
    <3>4. CASE m < n
      <4>1. m <= n - 1
        BY <1>1, <1>4, <3>4
      <4>2. Len(g[n - 1].recs) \in Nat /\ m <= Len(g[n - 1].recs)
        BY <2>2, <4>1
      <4>3. PICK p \in ParseStates : p = g[n - 1] /\ g[n] = ParseFrame(f, p)
        BY <1>3, <3>1
      <4>4. Len(ParseFrame(f, p).recs) \in Nat /\ Len(p.recs) <= Len(ParseFrame(f, p).recs)
        BY <1>1, ReadIsKept
      <4>5. PICK a \in Nat, b \in Nat : a = Len(p.recs) /\ b = Len(g[n].recs) /\ a <= b /\ m <= a
        BY <4>2, <4>3, <4>4
      <4>6. m <= b
        BY <1>4, <4>5
      <4> QED BY <3>1, <4>5, <4>6
    <3> QED BY <1>1, <1>4, <3>2, <3>3, <3>4
  <2>3. \A n \in 0..l : n \in S
    <3> HIDE DEF S
    <3> QED BY <1>1, <2>1, <2>2, UpTo
  <2> QED BY <2>3
<1>10. l \in 0..l /\ m <= l
  BY <1>1, <1>4, <1>8
<1> QED BY <1>6, <1>9, <1>10

\* Until its medium is damaged the log holds what it is said to hold.
HeldInv ==
    harm # "log" =>
        \A i \in 1..Len(entries) : entries[i].whole => Whole(logFile, entries[i])

WholeInv == RecoveryInv /\ HeldInv /\ NothingWholeMissing

\* A file that agrees with another as far as an entry goes holds it, too.
LEMMA WholeStays ==
    ASSUME NEW f \in Seq(Cells), NEW g \in Seq(Cells), NEW n \in Nat,
           n <= Len(g), \A p \in 1..n : g[p] = f[p],
           NEW e \in Logged, Whole(f, e), Behind(e) <= n
    PROVE  Whole(g, e)
<1>1. PICK c \in Nat, l \in Nat, h \in Nat :
        c = e.start /\ l = Len(Frame(e.rec)) /\ h = Len(g) /\ Behind(e) = c + l
  <2>1. e.rec \in Mutations /\ e.start \in Nat
    BY DEF Logged
  <2>2. Len(Frame(e.rec)) = 2 * W32 + Len(Encode(e.rec)) /\ Len(Encode(e.rec)) \in Nat
    BY <2>1, FrameLaid, EncodeTyped
  <2>3. PICK c \in Nat, w \in Nat, m \in Nat, h \in Nat :
          c = e.start /\ w = W32 /\ m = Len(Encode(e.rec)) /\ h = Len(g)
    BY <2>1, <2>2, Widths, LenProperties
  <2>4. PICK l \in Nat : l = 2 * w + m
    OBVIOUS
  <2>5. Behind(e) = c + l /\ Len(Frame(e.rec)) = l
    <3>1. Behind(e) = c + 2 * w + m /\ Len(Frame(e.rec)) = 2 * w + m
      BY <2>2, <2>3 DEF Behind, BehindFrame
    <3>2. c + 2 * w + m = c + l
      BY <2>4
    <3> QED BY <2>4, <3>1, <3>2
  <2> QED BY <2>3, <2>4, <2>5
<1>2. ASSUME NEW k \in 1..l PROVE g[c + k] = Frame(e.rec)[k]
  <2>1. c + k \in 1..n
    BY <1>1
  <2>2. f[c + k] = Frame(e.rec)[k]
    BY <1>1 DEF Whole, Holds
  <2> QED BY <2>1, <2>2
<1>3. Behind(e) <= Len(g)
  BY <1>1
<1> QED BY <1>1, <1>2, <1>3 DEF Whole, Holds

\* An append leaves what the log held, and adds what it says it adds.
LEMMA HeldLogged ==
    ASSUME Outside, RecoveryInv, HeldInv, NEW r \in Records, MayAppend(r),
           NEW k \in 1..Len(Frame(r)),
           NEW whole \in BOOLEAN, whole => k = Len(Frame(r)), entries' = NewEntry(r, whole),
           logFile' = logFile \o SubSeq(Frame(r), 1, k), harm # "log" \/ harm' = "log"
    PROVE  HeldInv'
<1>1. PICK dim \in Nat : dim = base.dim /\ r \in Mutations
  BY BaseFits
<1>2. PICK es \in Seq(Logged), n \in Nat : es = entries /\ n = Len(es)
  BY <1>1, LenProperties DEF RecoveryInv
<1>3. PICK f \in Seq(Cells), l \in Nat : f = logFile /\ l = Len(f)
  <2>1. LogHolds(logFile, entries)
    BY DEF RecoveryInv, LogInv, MayAppend
  <2> QED BY <2>1, LenProperties DEF LogHolds
<1>4. PICK F \in Seq(Cells) : F = Frame(r) /\ k \in Nat /\ k <= Len(F)
  BY <1>1, FrameLaid, LenProperties
<1>5. PICK part \in Seq(Cells) :
        part = SubSeq(F, 1, k) /\ Len(part) = k /\ \A i \in 1..k : part[i] = F[i]
  <2>1. /\ SubSeq(F, 1, k) \in Seq(Cells) /\ Len(SubSeq(F, 1, k)) = k
        /\ \A i \in 1..k : SubSeq(F, 1, k)[i] = F[i]
    BY <1>4, FirstPart
  <2> QED BY <2>1
<1>6. PICK g \in Seq(Cells) : g = f \o part /\ Joins(Cells, f, part, g)
  BY Joined, Zenon
<1>7. logFile' = g
  BY <1>3, <1>4, <1>5, <1>6
<1>8. Len(g) = l + k /\ (\A p \in 1..l : g[p] = f[p]) /\ \A p \in 1..k : g[l + p] = F[p]
  BY <1>3, <1>5, <1>6 DEF Joins, Extends
<1>9. PICK e \in Logged : /\ e = [rec |-> r, start |-> l, whole |-> whole]
                                 /\ e.rec = r /\ e.start = l /\ e.whole = whole
  <2>1. [rec |-> r, start |-> l, whole |-> whole] \in Logged
    BY <1>1, <1>3 DEF Logged
  <2> QED BY <2>1
<1>10. PICK es2 \in Seq(Logged) :
         /\ es2 = entries' /\ Len(es2) = n + 1 /\ es2[n + 1] = e
         /\ \A i \in 1..n : es2[i] = es[i]
  <2>1. entries' = Append(es, e)
    BY <1>2, <1>3, <1>9 DEF NewEntry
  <2>2. /\ Append(es, e) \in Seq(Logged) /\ Len(Append(es, e)) = Len(es) + 1
        /\ \A i \in 1..Len(es) : Append(es, e)[i] = es[i]
        /\ Append(es, e)[Len(es) + 1] = e
    BY AppendProperties
  <2> QED BY <1>2, <2>1, <2>2
<1>11. ASSUME harm # "log", NEW i \in 1..(n + 1), es2[i].whole PROVE Whole(g, es2[i])
  <2>1. CASE i = n + 1
    <3>1. k = Len(F)
      BY <1>4, <1>9, <1>10, <1>11, <2>1
    <3>2. Holds(g, l, Frame(r))
      BY <1>4, <1>8, <3>1 DEF Holds
    <3>3. Behind(e) <= Len(g)
      <4>1. Len(F) = 2 * W32 + Len(Encode(r)) /\ Len(Encode(r)) \in Nat
        BY <1>1, <1>4, FrameLaid, EncodeTyped
      <4> QED BY <1>3, <1>8, <1>9, <3>1, <4>1, Widths DEF Behind, BehindFrame
    <3> QED BY <1>9, <1>10, <2>1, <3>2, <3>3 DEF Whole
  <2>2. CASE i # n + 1
    <3>1. i \in 1..n /\ es2[i] = es[i] /\ es[i] \in Logged
      <4>1. i \in 1..n
        <5>1. n \in Nat /\ i \in 1..(n + 1)
          BY <1>2, <1>11
        <5> HIDE <1>11
        <5> QED BY <2>2, <5>1
      <4> QED BY <1>2, <1>10, <4>1, ElementOfSeq
    <3>2. Whole(f, es[i])
      BY <1>2, <1>3, <1>11, <3>1 DEF HeldInv
    <3>3. Behind(es[i]) <= l
      BY <1>3, <3>2 DEF Whole
    <3>4. l <= Len(g)
      BY <1>3, <1>4, <1>8
    <3>5. Whole(g, es[i])
      BY <1>3, <1>8, <3>1, <3>2, <3>3, <3>4, WholeStays
    <3> QED BY <3>1, <3>5
  <2> QED BY <2>1, <2>2
<1> QED BY <1>7, <1>10, <1>11 DEF HeldInv

\* What a power loss leaves is whole only where it was not cut.
LEMMA HeldPowerLoss ==
    ASSUME Outside, RecoveryInv, HeldInv,
           NEW k \in 0..(IF logFile = None THEN 0 ELSE Len(logFile)),
           NEW zeros \in 0..MaxZeros, PowerLoss(k, zeros)
    PROVE  HeldInv'
<1>1. /\ harm = "none" /\ logFile # None
      /\ logFile' = SubSeq(logFile, 1, k) \o [i \in 1..zeros |-> <<0>>]
      /\ entries' = Remaining(k)
  BY DEF PowerLoss
<1>2. PICK dim \in Nat : dim = base.dim
  BY BaseFits
<1>3. PICK es \in Seq(Logged) : es = entries /\ LogHolds(logFile, es)
  BY <1>1, <1>2 DEF RecoveryInv, LogInv
<1>4. PICK f \in Seq(Cells), n \in Nat : f = logFile /\ n = Len(f)
  BY <1>3, LenProperties DEF LogHolds
<1>5. k \in Nat /\ k <= n /\ zeros \in Nat
  BY <1>1, <1>4, StoredAssumption
<1>6. PICK a \in Seq(Cells) :
        a = SubSeq(f, 1, k) /\ Len(a) = k /\ \A i \in 1..k : a[i] = f[i]
  <2>1. /\ SubSeq(f, 1, k) \in Seq(Cells) /\ Len(SubSeq(f, 1, k)) = k
        /\ \A i \in 1..k : SubSeq(f, 1, k)[i] = f[i]
    BY <1>4, <1>5, FirstPart
  <2> QED BY <2>1
<1>7. PICK z \in Seq(Cells) : z = [i \in 1..zeros |-> <<0>>] /\ Len(z) = zeros
  <2>1. [i \in 1..zeros |-> <<0>>] \in Seq(Digits) /\ Len([i \in 1..zeros |-> <<0>>]) = zeros
    BY <1>5, ZeroTyped
  <2>2. [i \in 1..zeros |-> <<0>>] \in Seq(Cells)
    BY <2>1, SeqMonotonic DEF Cells, Plain
  <2> QED BY <2>1, <2>2
<1>8. PICK g \in Seq(Cells) : g = a \o z /\ Joins(Cells, a, z, g)
  BY Joined, Zenon
<1>9. logFile' = g /\ k <= Len(g) /\ \A p \in 1..k : g[p] = f[p]
  BY <1>1, <1>4, <1>5, <1>6, <1>7, <1>8 DEF Joins, Extends
<1>10. PICK m \in 0..Len(es), es2 \in Seq(Logged) :
         /\ es2 = Remaining(k) /\ Len(es2) = m
         /\ \A i \in 1..Len(es) : es[i].start < k <=> i <= m
  BY <1>3, <1>5, RemainingKept DEF Kept
<1>11. ASSUME NEW i \in 1..m, es2[i].whole PROVE Whole(g, es2[i])
  <2>1. i \in 1..Len(es) /\ i \in DOMAIN es /\ es[i] \in Logged /\ es[i].start < k
    <3>1. Len(es) \in Nat /\ i \in 1..Len(es)
      BY <1>10, LenProperties
    <3> QED BY <1>10, <3>1, ElementOfSeq, SMTT(30)
  <2>2. es2[i] = [es[i] EXCEPT !.whole = @ /\ EntryEnd(es[i]) <= k]
    BY <1>3, <1>10, <2>1 DEF Remaining
  <2>3. PICK e \in Logged, e2 \in Logged :
          /\ e = es[i] /\ e2 = es2[i] /\ e2.rec = e.rec /\ e2.start = e.start
          /\ e2.whole = (e.whole /\ EntryEnd(e) <= k)
    <3>1. es2[i] \in Logged
      BY <1>10, ElementOfSeq
    <3> QED BY <2>1, <2>2, <3>1 DEF Logged
  <2>4. e.whole /\ EntryEnd(e) <= k
    BY <1>11, <2>3
  <2>5. Behind(e) <= k
    <3>1. Len(Frame(e.rec)) = 2 * W32 + Len(Encode(e.rec)) /\ Len(Encode(e.rec)) \in Nat
      BY FrameLaid, EncodeTyped DEF Logged
    <3> QED BY <2>4, <3>1, Widths, SMTT(30) DEF EntryEnd, Behind, BehindFrame, Logged
  <2>6. Whole(f, e)
    BY <1>1, <1>3, <1>4, <2>1, <2>3, <2>4 DEF HeldInv
  <2>7. Whole(g, e)
    BY <1>5, <1>9, <2>5, <2>6, WholeStays
  <2> QED BY <2>3, <2>7 DEF Whole, Behind
<1> QED BY <1>1, <1>9, <1>10, <1>11 DEF HeldInv

\* A load that succeeds has met no error in the snapshot or the log, and
\* no record that does not fit.
LEMMA LoadedIsRead ==
    ASSUME NEW cfg, LoadIndex(cfg), pc' = "loaded"
    PROVE  /\ ReadLog.err = "Ok" /\ recs' = ReadLog.recs
           /\ Load(snapFile, cfg.type, cfg.features).err = "Ok"
           /\ ~Misfits(Load(snapFile, cfg.type, cfg.features).ix, ReadLog.recs)
<1>1. PICK snapshot, log : snapshot = Load(snapFile, cfg.type, cfg.features) /\ log = ReadLog
  OBVIOUS
<1> DEFINE checks ==
         << <<~Supported(cfg.scheme, cfg.features), "Unsupported">>,
            <<snapshot.err # "Ok", snapshot.err>>,
            <<log.err # "Ok", log.err>>,
            <<Misfits(snapshot.ix, log.recs), "InvalidPayload">> >>
<1>2. FirstError(checks) = "Ok" /\ recs' = log.recs
  BY <1>1 DEF LoadIndex, Replay
<1> HIDE DEF checks
<1>3. DOMAIN checks = 1..4
  BY DEF checks
<1>4. \A i \in 1..4 : checks[i][1] => checks[i][2] # "Ok"
  <2>1. checks[1][2] # "Ok" /\ checks[4][2] # "Ok"
    BY DEF checks
  <2>2. checks[2][1] => checks[2][2] # "Ok"
    BY DEF checks
  <2>3. checks[3][1] => checks[3][2] # "Ok"
    BY DEF checks
  <2> QED BY <2>1, <2>2, <2>3
<1>5. \A i \in 1..4 : ~checks[i][1]
  BY <1>2, <1>3, <1>4, FirstErrorOk
<1>6. ~checks[2][1] /\ ~checks[3][1] /\ ~checks[4][1]
  BY <1>5
<1>7. log.err = "Ok" /\ snapshot.err = "Ok" /\ ~Misfits(snapshot.ix, log.recs)
  BY <1>6 DEF checks
<1> QED BY <1>1, <1>2, <1>7

\* load reads all that is in reach.
LEMMA WholeLoad ==
    ASSUME Outside, RecoveryInv, HeldInv, NEW cfg \in Configs, LoadIndex(cfg)
    PROVE  NothingWholeMissing'
<1>1. /\ logFile' = logFile /\ entries' = entries /\ harm' = harm
  BY DEF LoadIndex, historyVars
<1> SUFFICES ASSUME pc' = "loaded", harm \in {"none", "torn", "zeros"}, NEW i \in Reachable'
             PROVE  i <= Len(recs')
  BY <1>1 DEF NothingWholeMissing
<1>2. i \in Reachable
  BY <1>1 DEF Reachable, EntryEnd
<1>3. PICK dim \in Nat : dim = base.dim /\ dim < Pow[W32]
  BY BaseFits
<1>4. PICK es \in Seq(Logged), n \in Nat : es = entries /\ n = Len(es) /\ DOMAIN es = 1..n
  BY <1>3, LenProperties DEF RecoveryInv
<1>5. i \in 1..n /\ i \in Nat /\ es # <<>>
  BY <1>2, <1>4 DEF Reachable
<1>6. PICK f : f = logFile /\ f # None /\ LogHolds(f, es)
  BY <1>3, <1>4, <1>5 DEF RecoveryInv, LogInv
<1>7. InReach(f, es, i)
  <2>1. ASSUME NEW j \in 1..i
        PROVE  /\ Whole(f, es[j]) /\ Len(Encode(es[j].rec)) <= MaxRecordLen
               /\ es[j].start = (IF j = 1 THEN Len(WalHeader) ELSE Behind(es[j - 1]))
    <3>1. /\ es[j].whole /\ Len(Encode(es[j].rec)) <= MaxRecordLen
          /\ es[j].start = (IF j = 1 THEN Len(WalHeader) ELSE EntryEnd(es[j - 1]))
      BY <1>2, <1>4 DEF Reachable
    <3>2. j \in 1..n /\ j \in Nat
      BY <1>4, <1>5
    <3>3. Whole(f, es[j])
      BY <1>4, <1>6, <3>1, <3>2 DEF HeldInv
    <3>4. j # 1 => EntryEnd(es[j - 1]) = Behind(es[j - 1])
      <4> SUFFICES ASSUME j # 1 PROVE EntryEnd(es[j - 1]) = Behind(es[j - 1])
        OBVIOUS
      <4>1. j - 1 \in 1..n
        BY <1>4, <3>2
      <4>2. PICK e \in Logged : e = es[j - 1]
        BY <1>4, <4>1, ElementOfSeq
      <4>3. Len(Frame(e.rec)) = 2 * W32 + Len(Encode(e.rec)) /\ Len(Encode(e.rec)) \in Nat
        BY FrameLaid, EncodeTyped DEF Logged
      <4>4. EntryEnd(e) = Behind(e)
        BY <4>3, Widths DEF EntryEnd, Behind, BehindFrame, Logged
      <4> QED BY <4>2, <4>4
    <3> QED BY <3>1, <3>3, <3>4
  <2> QED BY <2>1 DEF InReach
<1>8. ReadLog = ParseRecords(f) /\ ParseRecords(f).err = "Ok" /\ recs' = ParseRecords(f).recs
  BY <1>6, LoadedIsRead DEF ReadLog
<1> QED BY <1>3, <1>4, <1>5, <1>6, <1>7, <1>8, InReachIsRead

\* The other steps leave no process that has just loaded.
LEMMA WholeStep ==
    ASSUME Outside, WholeInv, [Next]_vars
    PROVE  WholeInv'
<1> USE DEF WholeInv
<1>1. RecoveryInv'
  BY RecoveryStep
<1>2. ASSUME entries' = entries, logFile' = logFile, harm' = harm \/ harm = "none" \/ harm' = "log"
      PROVE  HeldInv'
  BY <1>2 DEF HeldInv
<1>3. ASSUME OpenWith \/ Checkpoint PROVE HeldInv' /\ NothingWholeMissing'
  <2>1. WriteBoth
    BY <1>3 DEF OpenWith, Checkpoint
  <2>2. entries' = <<>> /\ pc' = "up"
    BY <2>1 DEF WriteBoth
  <2> QED BY <2>2 DEF HeldInv, NothingWholeMissing
<1>4. ASSUME WriteRefused \/ FindLegacy \/ Tick \/ Stop PROVE HeldInv' /\ NothingWholeMissing'
  <2>1. entries' = entries /\ logFile' = logFile /\ harm' = harm /\ pc' # "loaded"
    BY <1>4 DEF WriteRefused, FindLegacy, Tick, Stop, handleVars, historyVars
  <2> QED BY <1>2, <2>1 DEF NothingWholeMissing
<1>5. ASSUME UNCHANGED vars PROVE HeldInv' /\ NothingWholeMissing'
  <2>1. entries' = entries /\ logFile' = logFile /\ harm' = harm /\ pc' = pc /\ recs' = recs
    BY <1>5 DEF vars, handleVars, loadVars, historyVars
  <2> QED BY <1>2, <2>1 DEF NothingWholeMissing, Reachable, EntryEnd
<1>6. ASSUME NEW r \in Records, Mutate(r) PROVE HeldInv' /\ NothingWholeMissing'
  <2>1. /\ MayAppend(r) /\ pc' = pc /\ pc = "up" /\ harm' = harm /\ entries' = NewEntry(r, TRUE)
        /\ logFile' = logFile \o Frame(r)
    BY <1>6 DEF Mutate, MayAppend
  <2>2. PICK F \in Seq(Cells), k \in Nat : F = Frame(r) /\ k = Len(F) /\ k # 0
    <3>1. r \in Mutations
      BY BaseFits
    <3>2. /\ Frame(r) \in Seq(Cells) /\ Len(Frame(r)) = 2 * W32 + Len(Encode(r))
          /\ Len(Encode(r)) \in Nat \ {0}
      BY <3>1, FrameLaid, EncodeTyped
    <3> QED BY <3>2, Widths
  <2>3. SubSeq(F, 1, k) = F
    <3>1. PICK part \in Seq(Cells) :
            part = SubSeq(F, 1, k) /\ Len(part) = k /\ \A i \in 1..k : part[i] = F[i]
      BY <2>2, FirstPart
    <3> QED BY <2>2, <3>1, SeqEqual
  <2>4. k \in 1..Len(Frame(r)) /\ k = Len(Frame(r)) /\ logFile' = logFile \o SubSeq(Frame(r), 1, k)
    BY <2>1, <2>2, <2>3
  <2>5. HeldInv'
    BY <2>1, <2>4, HeldLogged
  <2> QED BY <2>1, <2>5 DEF NothingWholeMissing
<1>7. ASSUME NEW r \in Records, NEW k \in 1..Len(Frame(r)), KillInAppend(r, k)
      PROVE  HeldInv' /\ NothingWholeMissing'
  <2>1. /\ MayAppend(r) /\ pc' = "down" /\ harm = "none" /\ entries' = NewEntry(r, k = Len(Frame(r)))
        /\ logFile' = logFile \o SubSeq(Frame(r), 1, k)
    BY <1>7 DEF KillInAppend
  <2>2. PICK whole \in BOOLEAN : whole = (k = Len(Frame(r)))
    OBVIOUS
  <2>3. entries' = NewEntry(r, whole) /\ (whole => k = Len(Frame(r)))
    BY <2>1, <2>2
  <2>4. HeldInv'
    BY <1>7, <2>1, <2>3, HeldLogged
  <2> QED BY <2>1, <2>4 DEF NothingWholeMissing
<1>8. ASSUME NEW k \in 0..(IF logFile = None THEN 0 ELSE Len(logFile)),
             NEW zeros \in 0..MaxZeros, PowerLoss(k, zeros)
      PROVE  HeldInv' /\ NothingWholeMissing'
  <2>1. HeldInv'
    BY <1>8, HeldPowerLoss
  <2> QED BY <1>8, <2>1 DEF NothingWholeMissing, PowerLoss
<1>9. ASSUME DamageSnapshot PROVE HeldInv' /\ NothingWholeMissing'
  <2>1. entries' = entries /\ logFile' = logFile /\ harm = "none" /\ pc' = "down"
    BY <1>9 DEF DamageSnapshot, handleVars
  <2> QED BY <1>2, <2>1 DEF NothingWholeMissing
<1>10. ASSUME DamageLog PROVE HeldInv' /\ NothingWholeMissing'
  <2>1. harm' = "log" /\ pc' = "down"
    BY <1>10 DEF DamageLog, handleVars
  <2> QED BY <2>1 DEF HeldInv, NothingWholeMissing
<1>11. ASSUME NEW cfg \in Configs, LoadIndex(cfg) PROVE HeldInv' /\ NothingWholeMissing'
  <2>1. entries' = entries /\ logFile' = logFile /\ harm' = harm
    BY <1>11 DEF LoadIndex, historyVars
  <2> QED BY <1>2, <1>11, <2>1, WholeLoad
<1>12. ASSUME OpenForAppend PROVE HeldInv' /\ NothingWholeMissing'
  <2>1. /\ entries' = entries /\ harm' = harm /\ pc' = "up"
        /\ logFile' = logFile \/ logFile = None
    BY <1>12 DEF OpenForAppend, historyVars
  <2>2. logFile = None => entries = <<>>
    BY DEF RecoveryInv, LogInv
  <2>3. HeldInv'
    BY <1>2, <2>1, <2>2 DEF HeldInv
  <2> QED BY <2>1, <2>3 DEF NothingWholeMissing
<1> QED
  BY <1>1, <1>3, <1>4, <1>5, <1>6, <1>7, <1>8, <1>9, <1>10, <1>11, <1>12 DEF Next

\* A load that succeeds after a kill or a power loss has replayed every
\* mutation whose frame the log still holds behind whole ones: parse_records
\* loses nothing in front of a torn tail, a tail of zeros or a record longer
\* than MAX_RECORD_LEN.
THEOREM NothingWholeMissingAlways == Outside => (Spec => []NothingWholeMissing)
<1> SUFFICES ASSUME Outside PROVE Spec => []NothingWholeMissing
  OBVIOUS
<1>1. Init => WholeInv
  <2> SUFFICES ASSUME Init PROVE WholeInv
    OBVIOUS
  <2>1. RecoveryInv
    BY RecoveryInit
  <2>2. entries = <<>> /\ pc = "new"
    BY DEF Init
  <2> QED BY <2>1, <2>2 DEF WholeInv, HeldInv, NothingWholeMissing
<1>2. WholeInv /\ [Next]_vars => WholeInv'
  BY WholeStep
<1>3. WholeInv => NothingWholeMissing
  BY DEF WholeInv
<1> QED BY <1>1, <1>2, <1>3, PTL DEF Spec

-----------------------------------------------------------------------------
(* Types *)

ClockInv ==
    /\ now \in 0..MaxTime /\ lastFsync \in 0..MaxTime \cup {None}
    /\ unsynced \subseteq 0..MaxTime

DurableInv == logFile # None => durable \in 0..Len(logFile)

LoggedInv == \A i \in DOMAIN entries : entries[i].rec \in Records /\ entries[i].whole \in BOOLEAN

\* parse_records returns errors of its own, never those of an index.
LEMMA LogErrTyped ==
    ASSUME RecoveryInv
    PROVE  ReadLog.err \in FormatErrors
<1>0. PICK log : log = ReadLog
  OBVIOUS
<1>1. CASE logFile = None
  BY <1>0, <1>1 DEF ReadLog, FormatErrors, Outcomes
<1>2. CASE logFile # None
  <2>1. PICK f \in Seq(Cells), l \in Nat : f = logFile /\ l = Len(f)
    BY <1>2, LenProperties DEF RecoveryInv, LogInv, LogHolds
  <2>2. log = ParseRecords(f)
    BY <1>0, <1>2, <2>1 DEF ReadLog
  <2>3. LogVerdict(f) \in FormatErrors
    <3> DEFINE magic == Take(Cursor(f), 1)
               version == Take(magic, W32)
               checks == << <<Num(magic.val) # WAL_MAGIC, "BadMagic">>,
                            <<Num(version.val) # WAL_VERSION, "UnsupportedVersion">> >>
    <3>1. LogVerdict(f) = FirstError(checks)
      BY DEF LogVerdict
    <3> HIDE DEF magic, version
    <3>2. DOMAIN checks = 1..2 /\ \A i \in 1..2 : checks[i][2] \in FormatErrors
      <4>1. /\ checks[1][2] \in FormatErrors /\ checks[2][2] \in FormatErrors /\ DOMAIN checks = 1..2
        BY DEF FormatErrors, Outcomes, Errors
      <4> HIDE DEF checks
      <4> QED BY <4>1
    <3> HIDE DEF checks
    <3>3. "Ok" \in FormatErrors
      BY DEF FormatErrors, Outcomes
    <3> QED BY <3>1, <3>2, <3>3, FirstErrorTyped
  <2>4. Parsing(f)[l].err \in FormatErrors
    <3>1. l \in 0..Len(f)
      BY <2>1
    <3>2. PICK p \in ParseStates : p = Parsing(f)[l]
      BY <3>1, ParsingDef
    <3> QED BY <3>2 DEF ParseStates, FormatErrors, Outcomes, Errors
  <2>5. log.err \in {LogVerdict(f), Parsing(f)[l].err}
    BY <2>1, <2>2 DEF ParseRecords
  <2> QED BY <1>0, <2>3, <2>4, <2>5
<1> QED BY <1>0, <1>1, <1>2

\* What load returns is one of the errors of PersistError, or a panic.
LEMMA ReplayTyped ==
    ASSUME RecoveryInv, NEW cfg, LoadIndex(cfg)
    PROVE  outcome' \in Outcomes
<1>1. PICK snapshot, log : snapshot = Load(snapFile, cfg.type, cfg.features) /\ log = ReadLog
  OBVIOUS
<1>2. snapshot.err \in Outcomes
  BY <1>1, LoadErrTyped
<1>3. log.err \in Outcomes
  BY <1>1, LogErrTyped DEF FormatErrors
<1> DEFINE checks ==
         << <<~Supported(cfg.scheme, cfg.features), "Unsupported">>,
            <<snapshot.err # "Ok", snapshot.err>>,
            <<log.err # "Ok", log.err>>,
            <<Misfits(snapshot.ix, log.recs), "InvalidPayload">> >>
<1>4. outcome' = FirstError(checks)
  BY <1>1 DEF LoadIndex, Replay
<1>5. DOMAIN checks = 1..4 /\ \A i \in 1..4 : checks[i][2] \in Outcomes
  <2>1. checks[1][2] \in Outcomes /\ checks[4][2] \in Outcomes /\ DOMAIN checks = 1..4
    BY DEF Outcomes, Errors
  <2>2. checks[2][2] \in Outcomes /\ checks[3][2] \in Outcomes
    BY <1>2, <1>3
  <2> HIDE DEF checks
  <2> QED BY <2>1, <2>2
<1> HIDE DEF checks
<1>6. "Ok" \in Outcomes
  BY DEF Outcomes
<1> QED BY <1>4, <1>5, <1>6, FirstErrorTyped

\* What refuses a write is an error of PersistError.
LEMMA VerdictTyped == SchemeVerdict \in Outcomes
<1> DEFINE checks ==
         << <<~Supported(config.scheme, config.features), "Unsupported">>,
            <<LevelRejected(config.scheme), "Compression">> >>
<1>1. SchemeVerdict = FirstError(checks)
  BY DEF SchemeVerdict
<1>2. DOMAIN checks = 1..2 /\ \A i \in 1..2 : checks[i][2] \in Outcomes
  <2>1. checks[1][2] \in Outcomes /\ checks[2][2] \in Outcomes /\ DOMAIN checks = 1..2
    BY DEF Outcomes, Errors
  <2> HIDE DEF checks
  <2> QED BY <2>1
<1> HIDE DEF checks
<1>3. "Ok" \in Outcomes
  BY DEF Outcomes
<1> QED BY <1>1, <1>2, <1>3, FirstErrorTyped

\* The simple types: of the handle, of the harm and of the outcome.
LEMMA SimpleTypes ==
    ASSUME RecoveryInv, [Next]_vars, config \in Configs \cup {None}, harm \in Harms,
           outcome \in Outcomes
    PROVE  config' \in Configs \cup {None} /\ harm' \in Harms /\ outcome' \in Outcomes
<1>1. ASSUME OpenWith \/ Checkpoint PROVE config' = config /\ harm' = "none" /\ outcome' = outcome
  BY <1>1 DEF OpenWith, Checkpoint, WriteBoth, loadVars
<1>2. ASSUME FindLegacy PROVE config' = None /\ harm' = harm /\ outcome' = outcome
  BY <1>2 DEF FindLegacy, NoHandle, loadVars
<1>3. ASSUME Tick \/ UNCHANGED vars PROVE config' = config /\ harm' = harm /\ outcome' = outcome
  BY <1>3 DEF Tick, vars, handleVars, loadVars, historyVars
<1>4. ASSUME Stop PROVE config' = None /\ harm' = harm /\ outcome' = outcome
  BY <1>4 DEF Stop, NoHandle, loadVars, historyVars
<1>5. ASSUME NEW r \in Records, Mutate(r)
      PROVE  config' = config /\ harm' = harm /\ outcome' = outcome
  BY <1>5 DEF Mutate, loadVars
<1>6. ASSUME NEW r \in Records, NEW k \in 1..Len(Frame(r)), KillInAppend(r, k)
      PROVE  config' = None /\ harm' \in {"none", "torn"} /\ outcome' = outcome
  BY <1>6 DEF KillInAppend, NoHandle, loadVars
<1>7. ASSUME NEW k, NEW zeros, PowerLoss(k, zeros)
      PROVE  config' = None /\ harm' \in {"torn", "zeros"} /\ outcome' = outcome
  BY <1>7 DEF PowerLoss, NoHandle, loadVars
<1>8. ASSUME DamageSnapshot \/ DamageLog
      PROVE  config' = config /\ harm' \in {"snapshot", "log"} /\ outcome' = outcome
  BY <1>8 DEF DamageSnapshot, DamageLog, handleVars, loadVars
<1>9. ASSUME NEW cfg \in Configs, LoadIndex(cfg)
      PROVE  config' = cfg /\ harm' = harm /\ outcome' \in Outcomes
  BY <1>9, ReplayTyped DEF LoadIndex, historyVars
<1>10. ASSUME OpenForAppend PROVE config' = config /\ harm' = harm /\ outcome' = outcome
  BY <1>10 DEF OpenForAppend, historyVars
<1>11. ASSUME WriteRefused PROVE config' = config /\ harm' = harm /\ outcome' \in Outcomes
  BY <1>11, VerdictTyped DEF WriteRefused, handleVars, historyVars
<1> QED
  BY <1>1, <1>2, <1>3, <1>4, <1>5, <1>6, <1>7, <1>8, <1>9, <1>10, <1>11 DEF Next, Harms

\* The clock stays below its bound, and a time that is noted is one it had.
LEMMA ClockStep ==
    ASSUME ClockInv, [Next]_vars
    PROVE  ClockInv'
<1>0. MaxTime \in Nat
  BY StoredAssumption
<1>1. ASSUME SyncNow, now' = now PROVE ClockInv'
  BY <1>1 DEF ClockInv, SyncNow
<1>2. ASSUME now' = now, unsynced' = unsynced, lastFsync' \in {lastFsync, None} PROVE ClockInv'
  BY <1>2 DEF ClockInv
<1>3. ASSUME now' = 0, unsynced' = {}, lastFsync' \in {lastFsync, None} PROVE ClockInv'
  BY <1>0, <1>3 DEF ClockInv
<1>4. ASSUME OpenWith \/ Checkpoint PROVE ClockInv'
  BY <1>1, <1>4 DEF OpenWith, Checkpoint, WriteBoth
<1>5. ASSUME FindLegacy PROVE ClockInv'
  BY <1>2, <1>5 DEF FindLegacy, NoHandle
<1>6. ASSUME Tick PROVE ClockInv'
  <2>1. now' = now + 1 /\ now < MaxTime /\ unsynced' = unsynced /\ lastFsync' = lastFsync
    BY <1>6 DEF Tick
  <2> QED BY <1>0, <2>1 DEF ClockInv
<1>7. ASSUME Stop PROVE ClockInv'
  BY <1>2, <1>7 DEF Stop, NoHandle
<1>8. ASSUME WriteRefused \/ UNCHANGED vars PROVE ClockInv'
  BY <1>2, <1>8 DEF WriteRefused, vars, clockVars
<1>9. ASSUME NEW r \in Records, Mutate(r) PROVE ClockInv'
  <2>1. now' = now
    BY <1>9 DEF Mutate
  <2>2. SyncNow \/ (unsynced' = unsynced \cup {now} /\ lastFsync' = lastFsync)
    BY <1>9 DEF Mutate
  <2> QED BY <1>1, <2>1, <2>2 DEF ClockInv
<1>10. ASSUME NEW r \in Records, NEW k \in 1..Len(Frame(r)), KillInAppend(r, k) PROVE ClockInv'
  BY <1>2, <1>10 DEF KillInAppend, NoHandle
<1>11. ASSUME NEW k, NEW zeros, PowerLoss(k, zeros) PROVE ClockInv'
  BY <1>3, <1>11 DEF PowerLoss, NoHandle, Reboot
<1>12. ASSUME DamageSnapshot \/ DamageLog PROVE ClockInv'
  BY <1>3, <1>12 DEF DamageSnapshot, DamageLog, Reboot
<1>13. ASSUME NEW cfg \in Configs, LoadIndex(cfg) PROVE ClockInv'
  BY <1>2, <1>13 DEF LoadIndex, clockVars
<1>14. ASSUME OpenForAppend PROVE ClockInv'
  BY <1>1, <1>2, <1>14 DEF OpenForAppend
<1> QED
  BY <1>4, <1>5, <1>6, <1>7, <1>8, <1>9, <1>10, <1>11, <1>12, <1>13, <1>14 DEF Next

\* A sync, and a reboot, count what the file then has.
LEMMA DurableStep ==
    ASSUME Outside, RecoveryInv, DurableInv, [Next]_vars
    PROVE  DurableInv'
<1>1. RecoveryInv'
  BY RecoveryStep
<1>2. logFile' # None => Len(logFile') \in Nat
  BY <1>1, LenProperties DEF RecoveryInv, LogInv, LogHolds
<1>3. ASSUME SyncNow \/ Reboot PROVE DurableInv'
  BY <1>2, <1>3 DEF DurableInv, SyncNow, Reboot
<1>4. ASSUME durable' = durable, logFile' = logFile PROVE DurableInv'
  BY <1>4 DEF DurableInv
<1>5. ASSUME NEW r \in Records, MayAppend(r), NEW part \in Seq(Cells), durable' = durable,
             logFile' = logFile \o part
      PROVE  DurableInv'
  <2>1. PICK f \in Seq(Cells), l \in Nat : f = logFile /\ f # None /\ l = Len(f)
    BY <1>5, LenProperties DEF RecoveryInv, LogInv, LogHolds, MayAppend
  <2>2. PICK g \in Seq(Cells) : g = f \o part /\ Joins(Cells, f, part, g)
    BY Joined, Zenon
  <2>3. Len(part) \in Nat /\ Len(g) = l + Len(part) /\ logFile' = g
    BY <1>5, <2>1, <2>2, LenProperties DEF Joins
  <2>4. durable \in 0..l
    BY <2>1 DEF DurableInv
  <2> QED BY <1>5, <2>1, <2>3, <2>4 DEF DurableInv
<1>6. \A r \in Records : Frame(r) \in Seq(Cells)
  <2> TAKE r \in Records
  <2>1. r \in Mutations
    BY BaseFits
  <2> QED BY <2>1, FrameLaid
<1>7. ASSUME OpenWith \/ Checkpoint PROVE DurableInv'
  BY <1>3, <1>7 DEF OpenWith, Checkpoint, WriteBoth
<1>8. ASSUME WriteRefused \/ FindLegacy \/ Tick \/ Stop \/ UNCHANGED vars PROVE DurableInv'
  BY <1>4, <1>8 DEF WriteRefused, FindLegacy, Tick, Stop, vars, clockVars
<1>9. ASSUME NEW r \in Records, Mutate(r) PROVE DurableInv'
  <2>1. CASE SyncDue
    BY <1>3, <1>9, <2>1 DEF Mutate
  <2>2. CASE ~SyncDue
    BY <1>5, <1>6, <1>9, <2>2 DEF Mutate
  <2> QED BY <2>1, <2>2
<1>10. ASSUME NEW r \in Records, NEW k \in 1..Len(Frame(r)), KillInAppend(r, k) PROVE DurableInv'
  <2>1. PICK F \in Seq(Cells) : F = Frame(r)
    BY <1>6
  <2>2. k \in Nat /\ k <= Len(F)
    BY <1>10, <2>1, LenProperties
  <2>3. SubSeq(F, 1, k) \in Seq(Cells)
    BY <2>2, FirstPart
  <2>4. MayAppend(r) /\ durable' = durable /\ logFile' = logFile \o SubSeq(F, 1, k)
    BY <1>10, <2>1 DEF KillInAppend
  <2> QED BY <1>5, <2>3, <2>4
<1>11. ASSUME NEW k, NEW zeros, PowerLoss(k, zeros) PROVE DurableInv'
  BY <1>3, <1>11 DEF PowerLoss
<1>12. ASSUME DamageSnapshot \/ DamageLog PROVE DurableInv'
  BY <1>3, <1>12 DEF DamageSnapshot, DamageLog
<1>13. ASSUME NEW cfg \in Configs, LoadIndex(cfg) PROVE DurableInv'
  BY <1>4, <1>13 DEF LoadIndex, clockVars
<1>14. ASSUME OpenForAppend PROVE DurableInv'
  BY <1>3, <1>4, <1>14 DEF OpenForAppend
<1> QED
  BY <1>7, <1>8, <1>9, <1>10, <1>11, <1>12, <1>13, <1>14 DEF Next

\* The history of the log has only mutations that callers made.
LEMMA LoggedInvStep ==
    ASSUME RecoveryInv, LoggedInv, [Next]_vars
    PROVE  LoggedInv'
<1>1. ASSUME entries' = entries \/ entries' = <<>> PROVE LoggedInv'
  BY <1>1 DEF LoggedInv
<1>2. ASSUME NEW r \in Records, NEW whole \in BOOLEAN, entries' = NewEntry(r, whole) PROVE LoggedInv'
  <2>1. PICK es \in Seq(Logged), n \in Nat : es = entries /\ n = Len(es) /\ DOMAIN es = 1..n
    BY LenProperties DEF RecoveryInv
  <2>2. PICK e : e = [rec |-> r, start |-> Len(logFile), whole |-> whole]
    OBVIOUS
  <2>3. entries' = Append(es, e) /\ e.rec = r /\ e.whole = whole
    BY <1>2, <2>1, <2>2 DEF NewEntry
  <2>4. /\ DOMAIN Append(es, e) = 1..(n + 1) /\ Append(es, e)[n + 1] = e
        /\ \A i \in 1..n : Append(es, e)[i] = es[i]
    BY <2>1
  <2>5. ASSUME NEW i \in 1..(n + 1)
        PROVE  Append(es, e)[i].rec \in Records /\ Append(es, e)[i].whole \in BOOLEAN
    <3>1. CASE i = n + 1
      BY <1>2, <2>3, <2>4, <3>1
    <3>2. CASE i # n + 1
      <4>1. i \in 1..n
        BY <2>1, <3>2
      <4> QED BY <2>1, <2>4, <4>1 DEF LoggedInv
    <3> QED BY <3>1, <3>2
  <2> QED BY <2>3, <2>4, <2>5 DEF LoggedInv
<1>3. ASSUME NEW n, entries' = Remaining(n) PROVE LoggedInv'
  <2>1. ASSUME NEW i \in DOMAIN entries, entries[i].start < n
        PROVE  /\ Remaining(n)[i].rec \in Records
               /\ Remaining(n)[i].whole \in BOOLEAN
    <3>1. PICK e : e = entries[i] /\ e \in Logged /\ e.rec \in Records
      <4>1. DOMAIN entries = 1..Len(entries)
        BY LenProperties DEF RecoveryInv
      <4> QED BY <2>1, <4>1, ElementOfSeq DEF RecoveryInv, LoggedInv
    <3>2. Remaining(n)[i] = [e EXCEPT !.whole = @ /\ EntryEnd(e) <= n]
      BY <2>1, <3>1 DEF Remaining
    <3>3. Remaining(n)[i].rec = e.rec /\ Remaining(n)[i].whole = (e.whole /\ EntryEnd(e) <= n)
      BY <3>1, <3>2 DEF Logged
    <3>4. (e.whole /\ EntryEnd(e) <= n) \in BOOLEAN
      OBVIOUS
    <3> QED BY <3>1, <3>3, <3>4
  <2>2. DOMAIN Remaining(n) = {i \in DOMAIN entries : entries[i].start < n}
    BY DEF Remaining
  <2> QED BY <1>3, <2>1, <2>2 DEF LoggedInv
<1>4. ASSUME OpenWith \/ Checkpoint PROVE LoggedInv'
  BY <1>1, <1>4 DEF OpenWith, Checkpoint, WriteBoth
<1>5. ASSUME \/ WriteRefused \/ FindLegacy \/ Tick \/ Stop \/ UNCHANGED vars
             \/ DamageSnapshot \/ OpenForAppend
      PROVE  LoggedInv'
  BY <1>1, <1>5
     DEF WriteRefused, FindLegacy, Tick, Stop, vars, historyVars, DamageSnapshot, OpenForAppend
<1>6. ASSUME NEW r \in Records, Mutate(r) PROVE LoggedInv'
  BY <1>2, <1>6 DEF Mutate
<1>7. ASSUME NEW r \in Records, NEW k \in 1..Len(Frame(r)), KillInAppend(r, k) PROVE LoggedInv'
  <2>1. (k = Len(Frame(r))) \in BOOLEAN
    OBVIOUS
  <2> QED BY <1>2, <1>7, <2>1 DEF KillInAppend
<1>8. ASSUME NEW k, NEW zeros, PowerLoss(k, zeros) PROVE LoggedInv'
  BY <1>3, <1>8 DEF PowerLoss
<1>9. ASSUME DamageLog PROVE LoggedInv'
  BY <1>1, <1>3, <1>9 DEF DamageLog, CutLogTo
<1>10. ASSUME NEW cfg \in Configs, LoadIndex(cfg) PROVE LoggedInv'
  BY <1>1, <1>10 DEF LoadIndex, historyVars
<1> QED
  BY <1>4, <1>5, <1>6, <1>7, <1>8, <1>9, <1>10 DEF Next

TypedInv == RecoveryInv /\ StoredTypeOK

\* Type correctness: of the handle, of the clocks, of the log's length on
\* disk, and of what load (persisted.rs) returns for any file whatever: one
\* of the errors of PersistError, or a panic of the index's own load_from.
THEOREM StoredTypeCorrect == Outside => (Spec => []StoredTypeOK)
<1> SUFFICES ASSUME Outside PROVE Spec => []StoredTypeOK
  OBVIOUS
<1>1. StoredTypeOK <=> /\ pc \in Pcs /\ config \in Configs \cup {None} /\ harm \in Harms
                       /\ outcome \in Outcomes /\ DurableInv /\ ClockInv /\ LoggedInv
  BY DEF StoredTypeOK, Outcomes, DurableInv, ClockInv, LoggedInv
<1>2. StoredTypeOK' <=> /\ pc' \in Pcs /\ config' \in Configs \cup {None} /\ harm' \in Harms
                        /\ outcome' \in Outcomes /\ DurableInv' /\ ClockInv' /\ LoggedInv'
  BY DEF StoredTypeOK, Outcomes, DurableInv, ClockInv, LoggedInv
<1>3. Init => TypedInv
  <2> SUFFICES ASSUME Init PROVE TypedInv
    OBVIOUS
  <2>1. RecoveryInv
    BY RecoveryInit
  <2>2. StoredTypeOK
    BY StoredAssumption DEF Init, StoredTypeOK, Pcs, Harms
  <2> QED BY <2>1, <2>2 DEF TypedInv
<1>4. TypedInv /\ [Next]_vars => TypedInv'
  <2> SUFFICES ASSUME TypedInv, [Next]_vars PROVE TypedInv'
    OBVIOUS
  <2>1. RecoveryInv /\ RecoveryInv' /\ pc' \in Pcs
    BY RecoveryStep DEF TypedInv, RecoveryInv
  <2>2. config' \in Configs \cup {None} /\ harm' \in Harms /\ outcome' \in Outcomes
    BY <1>1, <2>1, SimpleTypes DEF TypedInv
  <2>3. DurableInv' /\ ClockInv' /\ LoggedInv'
    BY <1>1, <2>1, DurableStep, ClockStep, LoggedInvStep DEF TypedInv
  <2> QED BY <1>2, <2>1, <2>2, <2>3 DEF TypedInv
<1>5. TypedInv => StoredTypeOK
  BY DEF TypedInv
<1> QED BY <1>3, <1>4, <1>5, PTL DEF Spec

-----------------------------------------------------------------------------
(* What misleads an index *)

MisledInv == RecoveryInv /\ OnlyVersionMisleads

\* A load ends in an error of load_from only if load_from returned it.
LEMMA MisledLoad ==
    ASSUME Outside, RecoveryInv, NEW cfg \in Configs, LoadIndex(cfg)
    PROVE  OnlyVersionMisleads'
<1>1. /\ pc # "new" /\ config' = cfg /\ snapFile' = snapFile /\ packed' = packed
  BY DEF LoadIndex, clockVars, historyVars
<1>2. PICK snapshot : snapshot = Load(snapFile, cfg.type, cfg.features)
  OBVIOUS
<1>3. PICK log : log = ReadLog /\ log.err \in FormatErrors
  BY LogErrTyped
<1>4. ASSUME cfg.type = INDEX_TYPE, outcome' \in {"Io", "Panic"}
      PROVE  ReadHeader(snapFile).header.version # VersionOf(packed)
  <2> DEFINE checks ==
         << <<~Supported(cfg.scheme, cfg.features), "Unsupported">>,
            <<snapshot.err # "Ok", snapshot.err>>,
            <<log.err # "Ok", log.err>>,
            <<Misfits(snapshot.ix, log.recs), "InvalidPayload">> >>
  <2>1. outcome' = FirstError(checks)
    BY <1>2, <1>3 DEF LoadIndex, Replay
  <2>2. DOMAIN checks = 1..4
    OBVIOUS
  <2>3. /\ checks[1][2] \notin {"Io", "Panic"} /\ checks[3][2] \notin {"Io", "Panic"}
        /\ checks[4][2] \notin {"Io", "Panic"} /\ checks[2][2] = snapshot.err
    BY <1>3 DEF FormatErrors
  <2> HIDE DEF checks
  <2>4. \E i \in 1..4 : checks[i][1]
    BY <1>4, <2>1, <2>2 DEF FirstError
  <2>5. PICK z \in 1..4 : checks[z][1] /\ FirstError(checks) = checks[z][2]
    <3>1. PICK L \in Nat : L = 4
      OBVIOUS
    <3> QED BY <2>2, <2>4, <3>1, FirstErrorFound
  <2>6. z = 2
    BY <1>4, <2>1, <2>3, <2>5
  <2>7. Load(snapFile, INDEX_TYPE, cfg.features).err \in {"Io", "Panic"}
    BY <1>2, <1>4, <2>1, <2>3, <2>5, <2>6
  <2>8. PICK dim \in Nat :
          dim = base.dim /\ base \in EvenIndexesOf(dim) /\ Storable(dim, Len(base.rows))
    BY BaseFits
  <2>9. PICK g : Written(g, base, packed) /\ Hurt(snapFile, g)
    BY <1>1 DEF RecoveryInv, SnapInv
  <2> QED BY <2>7, <2>8, <2>9, MisledByVersion DEF Outside
<1>5. OnlyVersionMisleads'
  BY <1>1, <1>4 DEF OnlyVersionMisleads, WrittenVersion, VersionOf
<1> QED BY <1>5

\* The index's own load_from (examples/wal_recovery.rs) meets bytes that its
\* save_to did not write only where the version in the header was damaged:
\* what else load (persisted.rs) hands to it has passed the checksum.
THEOREM OnlyVersionMisleadsAlways == Outside => (Spec => []OnlyVersionMisleads)
<1> SUFFICES ASSUME Outside PROVE Spec => []OnlyVersionMisleads
  OBVIOUS
<1>1. Init => MisledInv
  <2> SUFFICES ASSUME Init PROVE MisledInv
    OBVIOUS
  <2>1. RecoveryInv /\ pc = "new" /\ outcome = "Ok"
    BY RecoveryInit DEF Init
  <2> QED BY <2>1 DEF MisledInv, OnlyVersionMisleads
<1>2. MisledInv /\ [Next]_vars => MisledInv'
  <2> SUFFICES ASSUME MisledInv, [Next]_vars PROVE MisledInv'
    OBVIOUS
  <2>1. RecoveryInv /\ RecoveryInv'
    BY RecoveryStep DEF MisledInv
  <2>2. ASSUME NEW cfg \in Configs, LoadIndex(cfg) PROVE MisledInv'
    BY <2>1, <2>2, MisledLoad DEF MisledInv
  <2>3. ASSUME UNCHANGED vars PROVE MisledInv'
    BY <2>1, <2>3 DEF MisledInv, OnlyVersionMisleads, WrittenVersion, vars,
       handleVars, loadVars, historyVars
  <2>4. ASSUME pc' # "failed" PROVE MisledInv'
    BY <2>1, <2>4 DEF MisledInv, OnlyVersionMisleads
  <2>5. ASSUME OpenWith \/ Checkpoint PROVE MisledInv'
    BY <2>4, <2>5 DEF OpenWith, Checkpoint, WriteBoth
  <2>6. ASSUME WriteRefused \/ FindLegacy \/ Tick \/ Stop PROVE MisledInv'
    BY <2>4, <2>6 DEF WriteRefused, FindLegacy, Tick, Stop, handleVars
  <2>7. ASSUME NEW r \in Records, Mutate(r) PROVE MisledInv'
    BY <2>4, <2>7 DEF Mutate, MayAppend
  <2>8. ASSUME NEW r \in Records, NEW k \in 1..Len(Frame(r)), KillInAppend(r, k) PROVE MisledInv'
    BY <2>4, <2>8 DEF KillInAppend, MayAppend
  <2>9. ASSUME NEW k, NEW zeros, PowerLoss(k, zeros) PROVE MisledInv'
    BY <2>4, <2>9 DEF PowerLoss
  <2>10. ASSUME DamageSnapshot \/ DamageLog PROVE MisledInv'
    BY <2>4, <2>10 DEF DamageSnapshot, DamageLog, handleVars
  <2>11. ASSUME OpenForAppend PROVE MisledInv'
    BY <2>4, <2>11 DEF OpenForAppend
  <2> QED
    BY <2>2, <2>3, <2>5, <2>6, <2>7, <2>8, <2>9, <2>10, <2>11 DEF Next
<1>3. MisledInv => OnlyVersionMisleads
  BY DEF MisledInv
<1> QED BY <1>1, <1>2, <1>3, PTL DEF Spec

-----------------------------------------------------------------------------
(* Nothing undamaged is refused *)

\* Where the next entry starts, or the file ends.
Until(f, es, i) == IF i = Len(es) THEN Len(f) ELSE es[i + 1].start

\* A log that no medium and no power loss put anything into: its header,
\* and of every frame the first cells up to where the next one starts.
Chained(f, es) ==
    /\ Len(f) >= Len(WalHeader) /\ Holds(f, 0, WalHeader)
    /\ Until(f, es, 0) = Len(WalHeader)
    /\ \A i \in 1..Len(es) :
         /\ es[i].start < Until(f, es, i) /\ Until(f, es, i) <= Behind(es[i])
         /\ \A k \in 1..(Until(f, es, i) - es[i].start) :
              f[es[i].start + k] = Frame(es[i].rec)[k]

\* The body of a mutation does not begin with a zero (append_insert,
\* append_delete).
LEMMA FirstCell ==
    ASSUME NEW r \in Mutations
    PROVE  Encode(r)[1] # <<0>>
<1>1. ASSUME NEW o \in Seq(Digits), NEW t \in Seq(Digits), NEW n \in 1..2, o = Byte(n),
             Encode(r) = o \o t
      PROVE  Encode(r)[1] # <<0>>
  <2>1. n \in 0..(Base - 1)
    BY WidthAssumption, TagAssumption DEF WAL_MAGIC
  <2>2. Len(o) = 1 /\ o[1] = <<n>>
    BY <1>1, <2>1, ByteRead
  <2>3. PICK b \in Seq(Digits) : b = o \o t /\ Joins(Digits, o, t, b)
    BY <1>1, Joined, Zenon
  <2>4. b[1] = o[1]
    BY <2>2, <2>3 DEF Joins, Extends
  <2>5. <<n>> # <<0>>
    OBVIOUS
  <2> QED BY <1>1, <2>2, <2>3, <2>4, <2>5
<1>2. CASE r \in Inserts
  <2>1. PICK o, i, l, b, k, m \in Seq(Digits) : InsertParts(r, o, i, l, b, k, m)
    BY <1>2, InsertEncoded
  <2>2. PICK km \in Seq(Digits) : km = k \o m
    BY Join
  <2>3. PICK bkm \in Seq(Digits) : bkm = b \o km
    BY Join
  <2>4. PICK lbkm \in Seq(Digits) : lbkm = l \o bkm
    BY Join
  <2>5. PICK t \in Seq(Digits) : t = i \o lbkm
    BY Join
  <2>6. PICK n \in 1..2 : n = OP_INSERT
    BY DEF OP_INSERT
  <2>7. o = Byte(n) /\ Encode(r) = o \o t
    BY <2>1, <2>2, <2>3, <2>4, <2>5, <2>6 DEF InsertParts
  <2> QED BY <1>1, <2>7
<1>3. CASE r \in Deletes
  <2>0. PICK n \in 1..2 : n = OP_DELETE
    BY DEF OP_DELETE
  <2>1. PICK o \in Seq(Digits) : o = Byte(n)
    BY <2>0, Widths, LETyped DEF Byte
  <2>2. PICK t \in Seq(Digits) : t = EncodeId(r.id)
    BY <1>3, IdTyped DEF Deletes
  <2>3. Encode(r) = o \o t
    BY <1>3, <2>0, <2>1, <2>2, DeleteEncoded
  <2> QED BY <1>1, <2>1, <2>3
<1> QED BY <1>2, <1>3 DEF Mutations

\* Cells of a length that are all zero say 0.
LEMMA ZeroLength ==
    ASSUME NEW n \in Nat, NEW w \in Nat, n < Pow[w]
    PROVE  (\A k \in 1..w : LE(n, w)[k] = <<0>>) => n = 0
<1> HAVE \A k \in 1..w : LE(n, w)[k] = <<0>>
<1>1. LE(0, w) = LE(n, w)
  <2>1. ASSUME NEW k \in 1..w PROVE LE(0, w)[k] = <<0>>
    <3>1. k - 1 \in Nat
      OBVIOUS
    <3>2. PICK p \in Nat \ {0} : p = Pow[k - 1]
      BY <3>1, PowDef
    <3>3. PICK b \in Nat \ {0} : b = Base
      BY WidthAssumption
    <3>4. (0 \div p) % b = 0
      <4>1. 0 \div p = 0
        <5>1. p * 0 + 0 = 0
          OBVIOUS
        <5> QED BY <5>1, DivModUnique
      <4>2. 0 % b = 0
        <5>1. b * 0 + 0 = 0
          OBVIOUS
        <5> QED BY <5>1, DivModUnique
      <4> QED BY <4>1, <4>2
    <3> QED BY <3>2, <3>3, <3>4 DEF LE
  <2>2. LE(0, w) \in Seq(Digits) /\ LE(n, w) \in Seq(Digits) /\ Len(LE(0, w)) = w /\ Len(LE(n, w)) = w
    BY LETyped
  <2>3. PICK a \in Seq(Digits), b \in Seq(Digits) : a = LE(0, w) /\ b = LE(n, w)
    BY <2>2
  <2>4. Len(a) = w /\ Len(b) = w /\ \A k \in 1..w : a[k] = b[k]
    BY <2>1, <2>2, <2>3
  <2> QED BY <2>3, <2>4, SeqEqual
<1>2. 0 < Pow[w]
  BY PowDef
<1> QED BY <1>1, <1>2, NumLE

\* The numbers of an entry.
LEMMA EntryNumbers ==
    ASSUME NEW f, NEW es \in Seq(Logged), LogHolds(f, es),
           NEW j \in 1..Len(es)
    PROVE  /\ es[j].start \in Nat /\ es[j].rec \in Mutations
           /\ Len(Encode(es[j].rec)) \in Nat \ {0} /\ Len(Encode(es[j].rec)) < Pow[W32]
           /\ Behind(es[j]) = es[j].start + 2 * W32 + Len(Encode(es[j].rec)) /\ Behind(es[j]) \in Nat
           /\ f \in Seq(Cells) /\ Len(f) \in Nat /\ Len(es) \in Nat
<1>1. /\ es[j].start \in Nat /\ es[j].rec \in Mutations /\ Len(Encode(es[j].rec)) < Pow[W32]
      /\ f \in Seq(Cells) /\ Len(f) \in Nat /\ Len(es) \in Nat
  BY LenProperties DEF LogHolds
<1>2. Len(Encode(es[j].rec)) \in Nat \ {0}
  BY <1>1, EncodeTyped
<1>3. PICK x \in Nat, w \in Nat, z \in Nat :
        x = es[j].start /\ w = W32 /\ z = Len(Encode(es[j].rec))
  BY <1>1, <1>2, Widths
<1>4. x + 2 * w + z \in Nat
  OBVIOUS
<1>5. Behind(es[j]) = x + 2 * w + z
  BY <1>3 DEF Behind, BehindFrame
<1> QED BY <1>1, <1>2, <1>3, <1>4, <1>5

\* What starts in front of the end of an entry is whole.
LEMMA WholeNext ==
    ASSUME NEW f, NEW es \in Seq(Logged), LogHolds(f, es),
           Places(f, es), Chained(f, es),
           NEW i \in 1..Len(es), NEW j \in 1..Len(es), j = i + 1, es[j].start < Behind(es[i])
    PROVE  Whole(f, es[j])
<1>1. /\ es[j].start \in Nat /\ es[j].rec \in Mutations /\ Behind(es[j]) \in Nat
      /\ Behind(es[j]) = es[j].start + 2 * W32 + Len(Encode(es[j].rec))
      /\ Behind(es[i]) \in Nat
      /\ Len(f) \in Nat /\ Len(es) \in Nat
  BY EntryNumbers
<1>2. Behind(es[j]) <= Len(f)
  BY DEF Places
<1>3. Until(f, es, j) >= Behind(es[j])
  <2>1. CASE j = Len(es)
    BY <1>2, <2>1 DEF Until
  <2>2. CASE j # Len(es)
    <3>1. j + 1 \in 1..Len(es) /\ j + 1 > j
      BY <1>1, <2>2
    <3>2. ~(es[j].start >= Behind(es[i]))
      <4>1. PICK a \in Nat, b \in Nat : a = es[j].start /\ b = Behind(es[i]) /\ a < b
        BY <1>1
      <4> QED BY <4>1
    <3>3. es[j + 1].start >= Behind(es[j])
      BY <3>1, <3>2 DEF LogHolds, Behind
    <3> QED BY <2>2, <3>3 DEF Until
  <2> QED BY <2>1, <2>2
<1>4. Until(f, es, j) = Behind(es[j])
  <2>1. Until(f, es, j) <= Behind(es[j])
    BY DEF Chained
  <2>2. Until(f, es, j) \in Nat
    <3>1. CASE j = Len(es)
      BY <1>1, <3>1 DEF Until
    <3>2. CASE j # Len(es)
      <4>1. j + 1 \in 1..Len(es)
        BY <1>1, <3>2
      <4> QED BY <3>2, <4>1, EntryNumbers DEF Until
    <3> QED BY <3>1, <3>2
  <2>3. PICK u \in Nat, b \in Nat : u = Until(f, es, j) /\ b = Behind(es[j]) /\ u <= b /\ u >= b
    BY <1>1, <1>3, <2>1, <2>2
  <2>4. u = b
    BY <2>3
  <2> QED BY <2>3, <2>4
<1>5. PICK x \in Nat, l \in Nat : x = es[j].start /\ l = Len(Frame(es[j].rec)) /\ Behind(es[j]) = x + l
  <2>1. Len(Frame(es[j].rec)) = 2 * W32 + Len(Encode(es[j].rec)) /\ Len(Encode(es[j].rec)) \in Nat
    BY <1>1, FrameLaid, EncodeTyped
  <2>2. PICK x \in Nat, w \in Nat, z \in Nat :
          x = es[j].start /\ w = W32 /\ z = Len(Encode(es[j].rec))
    BY <1>1, <2>1, Widths
  <2>3. PICK l \in Nat : l = 2 * w + z
    OBVIOUS
  <2>4. x + 2 * w + z = x + l
    BY <2>3
  <2> QED BY <1>1, <2>1, <2>2, <2>3, <2>4
<1>6. \A k \in 1..l : f[x + k] = Frame(es[j].rec)[k]
  <2>1. (x + l) - x = l
    OBVIOUS
  <2> QED BY <1>4, <1>5, <2>1, SMTT(30) DEF Chained
<1> QED BY <1>2, <1>5, <1>6 DEF Whole, Holds

\* The cells of the frame of an entry.
InCells(f, e) ==
    /\ \A k \in 1..W32 :
         /\ f[e.start + k] = LE(Len(Encode(e.rec)), W32)[k]
         /\ f[e.start + W32 + k] = <<Base, k, Encode(e.rec)>>
    /\ f[e.start + 2 * W32 + 1] = Encode(e.rec)[1]

\* The cells of a frame that is whole.
LEMMA WholeCells ==
    ASSUME NEW f, NEW es \in Seq(Logged), LogHolds(f, es),
           NEW j \in 1..Len(es), Whole(f, es[j])
    PROVE  InCells(f, es[j])
<1>1. PICK r \in Mutations, x \in Nat, w \in Nat \ {0}, z \in Nat \ {0} :
        r = es[j].rec /\ x = es[j].start /\ w = W32 /\ z = Len(Encode(r))
  BY EntryNumbers, Widths
<1>2. PICK F \in Seq(Cells) :
        /\ F = Frame(r) /\ Len(F) = 2 * w + z /\ FrameCells(F, r)
        /\ \A k \in 1..w : F[0 + k] = LE(z, w)[k]
        /\ \A k \in 1..z : F[2 * w + k] = Encode(r)[k]
  <2>1. Len(LE(z, w)) = w
    BY <1>1, LETyped
  <2>2. /\ Frame(r) \in Seq(Cells) /\ Len(Frame(r)) = 2 * w + z
        /\ Holds(Frame(r), 0, LE(z, w)) /\ Holds(Frame(r), 2 * w, Encode(r))
    <3> HIDE DEF Holds
    <3> QED BY <1>1, FrameLaid
  <2> QED BY <1>1, <2>1, <2>2, FrameMade DEF Holds
<1>3. \A k \in 1..(2 * w + z) : f[x + k] = F[k]
  BY <1>1, <1>2 DEF Whole, Holds
<1>4. ASSUME NEW k \in 1..w
      PROVE  f[x + k] = LE(z, w)[k] /\ f[x + w + k] = <<Base, k, Encode(r)>>
  <2>1. k \in 1..(2 * w + z) /\ w + k \in 1..(2 * w + z) /\ 0 + k = k /\ x + (w + k) = x + w + k
    BY <1>1
  <2>2. F[k] = LE(z, w)[k]
    BY <1>2, <2>1
  <2>3. F[w + k] = <<Base, k, Encode(r)>>
    BY <1>1, <1>2 DEF FrameCells
  <2> QED BY <1>3, <2>1, <2>2, <2>3
<1>5. f[x + 2 * w + 1] = Encode(r)[1]
  <2>1. 2 * w + 1 \in 1..(2 * w + z) /\ 1 \in 1..z /\ x + (2 * w + 1) = x + 2 * w + 1
    BY <1>1
  <2>2. F[2 * w + 1] = Encode(r)[1]
    BY <1>2, <2>1
  <2>3. f[x + (2 * w + 1)] = F[2 * w + 1]
    BY <1>3, <2>1
  <2> QED BY <2>1, <2>2, <2>3
<1> QED BY <1>1, <1>4, <1>5 DEF InCells

\* Nothing at pos can be taken for a frame without a body: its checksum, of
\* nothing, would be zeros.
NoZeros(f, pos) == pos + 2 * W32 <= Len(f) => \E k \in 1..W32 : f[pos + W32 + k] # <<0>>

\* A checksum is not zeros.
LEMMA ChecksumNotZero ==
    ASSUME NEW k, NEW s
    PROVE  <<Base, k, s>> # <<0>>
BY ZeroTyped, NoDigit

\* Where an entry starts there is the first cell of its checksum, or the
\* file ends, or the next entry covers it with cells of its own.
LEMMA StartNoZeros ==
    ASSUME NEW f, NEW es \in Seq(Logged), LogHolds(f, es),
           Places(f, es), Chained(f, es), NEW j \in 1..Len(es)
    PROVE  NoZeros(f, es[j].start)
<1>1. PICK r \in Mutations, x \in Nat, w \in Nat \ {0}, z \in Nat \ {0}, l \in Nat, m \in Nat :
        /\ r = es[j].rec /\ x = es[j].start /\ w = W32 /\ z = Len(Encode(r))
        /\ Behind(es[j]) = x + 2 * w + z /\ l = Len(f) /\ m = Len(es)
  <2>1. PICK r \in Mutations, w \in Nat \ {0} : r = es[j].rec /\ w = W32
    BY EntryNumbers, Widths
  <2>2. PICK x \in Nat, z \in Nat \ {0} : x = es[j].start /\ z = Len(Encode(r))
    BY <2>1, EntryNumbers
  <2>3. PICK l \in Nat, m \in Nat : l = Len(f) /\ m = Len(es)
    BY EntryNumbers
  <2>4. Behind(es[j]) = x + 2 * w + z
    BY <2>1, <2>2, EntryNumbers
  <2> QED BY <2>1, <2>2, <2>3, <2>4
<1> SUFFICES ASSUME x + 2 * w <= l PROVE \E k \in 1..w : f[x + w + k] # <<0>>
  BY <1>1 DEF NoZeros
<1>2. PICK u \in Nat : u = Until(f, es, j)
  <2>1. CASE j = m
    BY <1>1, <2>1 DEF Until
  <2>2. CASE j # m
    <3>1. j + 1 \in 1..Len(es)
      BY <1>1, <2>2
    <3> QED BY <1>1, <2>2, <3>1, EntryNumbers DEF Until
  <2> QED BY <2>1, <2>2
<1>3. x < u /\ \A k \in 1..(u - x) : f[x + k] = Frame(r)[k]
  BY <1>1, <1>2 DEF Chained
<1>4. CASE x + w < u
  <2>1. w + 1 \in 1..(u - x) /\ 1 \in 1..w /\ x + (w + 1) = x + w + 1
    BY <1>4
  <2>2. Frame(r)[w + 1] = <<Base, 1, Encode(r)>>
    BY <1>1, <2>1, FrameMade DEF FrameCells
  <2>3. f[x + w + 1] = <<Base, 1, Encode(r)>>
    BY <1>3, <2>1, <2>2
  <2> QED BY <2>1, <2>3, ChecksumNotZero
<1>5. CASE u <= x + w
  <2>1. j # m
    <3> SUFFICES ASSUME j = m PROVE FALSE
      OBVIOUS
    <3>1. u = l
      BY <1>1, <1>2 DEF Until
    <3> QED BY <1>1, <1>5, <3>1
  <2>2. PICK i \in 1..Len(es) : i = j + 1
    BY <1>1, <2>1
  <2>3. es[i].start = u
    BY <1>1, <1>2, <2>1, <2>2 DEF Until
  <2>4. es[i].start < Behind(es[j])
    BY <1>1, <1>5, <2>3, SMTT(30)
  <2>5. Whole(f, es[i])
    BY <2>2, <2>4, WholeNext
  <2>6. PICK q \in Nat \ {0} : q = Len(Encode(es[i].rec)) /\ q < Pow[w]
    BY <1>1, EntryNumbers
  <2>7. /\ \A k \in 1..w : /\ f[u + k] = LE(q, w)[k]
                           /\ f[u + w + k] = <<Base, k, Encode(es[i].rec)>>
    <3>1. \A k \in 1..W32 :
            /\ f[es[i].start + k] = LE(Len(Encode(es[i].rec)), W32)[k]
            /\ f[es[i].start + W32 + k] = <<Base, k, Encode(es[i].rec)>>
      BY <2>5, WholeCells DEF InCells
    <3> QED BY <1>1, <2>3, <2>6, <3>1
  <2>8. CASE u = x + w
    <3>1. PICK k \in 1..w : LE(q, w)[k] # <<0>>
      BY <1>1, <2>6, ZeroLength
    <3> QED BY <2>7, <2>8, <3>1
  <2>9. CASE u # x + w
    <3>1. PICK t \in 1..w : u = x + t /\ t + 1 \in 1..w
      <4>1. u - x \in 1..w /\ u = x + (u - x) /\ (u - x) + 1 \in 1..w
        <5>1. x < u
          BY <1>3
        <5> QED BY <1>5, <2>9, <5>1
      <4> QED BY <4>1
    <3>2. u + w + 1 = x + w + (t + 1) /\ 1 \in 1..w
      BY <3>1
    <3>3. f[x + w + (t + 1)] = <<Base, 1, Encode(es[i].rec)>>
      BY <2>7, <3>2
    <3> QED BY <3>1, <3>3, ChecksumNotZero
  <2> QED BY <2>8, <2>9
<1>6. x + w < u \/ u <= x + w
  BY <1>1, <1>2
<1> QED BY <1>4, <1>5, <1>6

\* Behind an entry that is there the next one starts, or one that started
\* in front of its end has a cell of its checksum or of its body.
LEMMA BehindNoZeros ==
    ASSUME NEW f, NEW es \in Seq(Logged), LogHolds(f, es),
           Places(f, es), Chained(f, es), NEW i \in 1..Len(es), Present(f, es[i])
    PROVE  NoZeros(f, Behind(es[i]))
<1>1. PICK r \in Mutations, x \in Nat, w \in Nat \ {0}, z \in Nat \ {0}, l \in Nat, m \in Nat,
           p \in Nat :
        /\ r = es[i].rec /\ x = es[i].start /\ w = W32 /\ z = Len(Encode(r))
        /\ p = Behind(es[i]) /\ p = x + 2 * w + z /\ l = Len(f) /\ m = Len(es)
  <2>1. PICK r \in Mutations, w \in Nat \ {0} : r = es[i].rec /\ w = W32
    BY EntryNumbers, Widths
  <2>2. PICK x \in Nat, z \in Nat \ {0} : x = es[i].start /\ z = Len(Encode(r))
    BY <2>1, EntryNumbers
  <2>3. PICK l \in Nat, m \in Nat, p \in Nat : l = Len(f) /\ m = Len(es) /\ p = Behind(es[i])
    BY EntryNumbers
  <2>4. p = x + 2 * w + z
    BY <2>1, <2>2, <2>3, EntryNumbers, SMTT(30)
  <2> QED BY <2>1, <2>2, <2>3, <2>4
<1>1a. p = x + 2 * w + z
  BY <1>1
<1> SUFFICES ASSUME p + 2 * w <= l PROVE \E k \in 1..w : f[p + w + k] # <<0>>
  BY <1>1 DEF NoZeros
<1>2. Until(f, es, i) <= p
  BY <1>1 DEF Chained
<1>3. i # m
  <2> SUFFICES ASSUME i = m PROVE FALSE
    OBVIOUS
  <2>1. l <= p
    BY <1>1, <1>2 DEF Until
  <2> QED BY <1>1, <2>1
<1>4. PICK j \in 1..Len(es) : j = i + 1
  BY <1>1, <1>3
<1>5. PICK s \in Mutations, y \in Nat, q \in Nat \ {0} :
        s = es[j].rec /\ y = es[j].start /\ q = Len(Encode(s)) /\ y <= p
  <2>1. es[j].start <= p
    BY <1>1, <1>2, <1>3, <1>4 DEF Until
  <2> QED BY <2>1, EntryNumbers
<1>6. CASE y = p
  <2>1. NoZeros(f, p)
    BY <1>5, <1>6, StartNoZeros
  <2> QED BY <1>1, <2>1 DEF NoZeros
<1>7. CASE y < p
  <2>1. Whole(f, es[j])
    BY <1>1, <1>4, <1>5, <1>7, WholeNext
  <2>2. /\ \A k \in 1..w : f[y + w + k] = <<Base, k, Encode(s)>>
        /\ f[y + 2 * w + 1] = Encode(s)[1]
    <3>1. /\ \A k \in 1..W32 : f[es[j].start + W32 + k] = <<Base, k, Encode(es[j].rec)>>
          /\ f[es[j].start + 2 * W32 + 1] = Encode(es[j].rec)[1]
      <4>1. InCells(f, es[j])
        BY <2>1, WholeCells
      <4> QED BY <4>1 DEF InCells
    <3> QED BY <1>1, <1>5, <3>1
  <2>3. x < y
    BY <1>1, <1>4, <1>5 DEF LogHolds
  <2>4. /\ \A k \in 1..w : f[x + w + k] = <<Base, k, Encode(r)>>
        /\ \A k \in 1..z : f[x + 2 * w + k] \in Digits
    BY <1>1 DEF Present
  <2>5. f[y + w + 1] = <<Base, 1, Encode(s)>>
    <3>1. 1 \in 1..w
      OBVIOUS
    <3> QED BY <2>2, <3>1
  <2>6. p <= y + w
    <3> SUFFICES ASSUME y + w < p PROVE FALSE
      OBVIOUS
    <3>1. CASE y < x + w
      <4>1. PICK k \in 1..w : k = y - x + 1 /\ k # 1 /\ x + w + k = y + w + 1
        <5>1. y - x + 1 \in 1..w /\ y - x + 1 # 1 /\ x + w + (y - x + 1) = y + w + 1
          BY <2>3, <3>1
        <5> QED BY <5>1
      <4>2. <<Base, k, Encode(r)>> = <<Base, 1, Encode(s)>>
        BY <2>4, <2>5, <4>1
      <4> QED BY <4>1, <4>2
    <3>2. CASE x + w <= y
      <4>1. PICK k \in 1..z : x + 2 * w + k = y + w + 1
        <5>1. y - x - w + 1 \in 1..z /\ x + 2 * w + (y - x - w + 1) = y + w + 1
          BY <1>1a, <3>2
        <5> QED BY <5>1
      <4>2. <<Base, 1, Encode(s)>> \in Digits
        BY <2>4, <2>5, <4>1
      <4> QED BY <4>2, NoDigit
    <3>3. y < x + w \/ x + w <= y
      OBVIOUS
    <3> QED BY <3>1, <3>2, <3>3
  <2>7. PICK d \in 1..w : p = y + d
    <3>1. p - y \in 1..w /\ p = y + (p - y)
      BY <1>7, <2>6
    <3> QED BY <3>1
  <2>8. CASE d = w
    <3>1. p + w + 1 = y + 2 * w + 1 /\ 1 \in 1..w
      BY <2>7, <2>8
    <3>2. f[p + w + 1] = Encode(s)[1] /\ Encode(s)[1] # <<0>>
      BY <2>2, <3>1, FirstCell
    <3> QED BY <3>1, <3>2
  <2>9. CASE d # w
    <3>1. p + w + 1 = y + w + (d + 1) /\ 1 \in 1..w /\ d + 1 \in 1..w
      BY <2>7, <2>9
    <3>2. f[p + w + 1] = <<Base, d + 1, Encode(s)>>
      BY <2>2, <3>1
    <3> QED BY <3>1, <3>2, ChecksumNotZero
  <2> QED BY <2>8, <2>9
<1>8. y = p \/ y < p
  <2>1. y <= p
    BY <1>5
  <2> QED BY <2>1
<1> QED BY <1>6, <1>7, <1>8

\* The loop does not come to an empty body, and every body it comes to can
\* be decoded.
LEMMA ReadsOn ==
    ASSUME NEW f, NEW es \in Seq(Logged),
           LogHolds(f, es), Places(f, es), Chained(f, es),
           NEW p \in ParseStates, Walks(f, es, p), p.err = "Ok"
    PROVE  ParseFrame(f, p).err = "Ok"
<1>1. PICK x \in Nat, w \in Nat \ {0}, l \in Nat :
        x = p.pos /\ w = W32 /\ l = Len(f) /\ f \in Seq(Cells) /\ Len(es) \in Nat
  BY LenProperties, Widths DEF ParseStates, LogHolds
<1>2. CASE p.done
  BY <1>2 DEF ParseFrame
<1>3. CASE ~p.done /\ Torn(f, x)
  <2>1. ParseFrame(f, p) = [p EXCEPT !.done = TRUE]
    BY <1>1, <1>3 DEF ParseFrame
  <2> QED BY <2>1 DEF ParseStates
<1>4. CASE ~p.done /\ ~Torn(f, x)
  <2>1. NoZeros(f, x)
    <3>1. PICK k \in 0..Len(es) :
            \/ k = 0 /\ p.pos = Len(WalHeader)
            \/ k # 0 /\ Present(f, es[k]) /\ p.pos = BehindFrame(es[k].start, es[k].rec)
      BY <1>4 DEF Walks
    <3>2. CASE k = 0 /\ p.pos = Len(WalHeader)
      <4>1. x = Until(f, es, 0)
        BY <1>1, <3>2 DEF Chained
      <4>2. CASE Len(es) = 0
        <5>1. x = l
          BY <1>1, <4>1, <4>2 DEF Until
        <5> QED BY <1>1, <5>1 DEF NoZeros
      <4>3. CASE Len(es) # 0
        <5>1. 1 \in 1..Len(es) /\ 0 + 1 = 1
          BY <1>1, <4>3
        <5>2. x = es[1].start
          BY <4>1, <4>3, <5>1 DEF Until
        <5> QED BY <5>1, <5>2, StartNoZeros
      <4> QED BY <4>2, <4>3
    <3>3. CASE k # 0 /\ Present(f, es[k]) /\ p.pos = BehindFrame(es[k].start, es[k].rec)
      <4>1. k \in 1..Len(es) /\ x = Behind(es[k])
        BY <1>1, <3>3 DEF Behind
      <4> QED BY <3>3, <4>1, BehindNoZeros
    <3> QED BY <3>1, <3>2, <3>3
  <2>2. PICK a : a = FrameAt(f, x)
    OBVIOUS
  <2>3. a.ok /\ Intact(a.body, a.crc)
    BY <1>4, <2>2 DEF Torn
  <2>4. a.body # <<>>
    <3> SUFFICES ASSUME a.body = <<>> PROVE FALSE
      OBVIOUS
    <3>1. FrameFields(f, x, a)
      BY <1>1, <2>2, <2>3, FrameRead
    <3>2. PICK n \in Nat : n = a.len /\ x + 2 * w + n <= l
      BY <1>1, <3>1 DEF FrameFields
    <3>3. x + 2 * w <= l
      BY <1>1, <3>2
    <3>4. PICK k \in 1..w : f[x + w + k] # <<0>>
      BY <1>1, <2>1, <3>3 DEF NoZeros
    <3>5. a.crc[k] = f[x + w + k]
      BY <1>1, <3>1 DEF FrameFields
    <3>6. a.crc = Crc(<<>>)
      BY <2>3 DEF Intact
    <3>7. Crc(<<>>)[k] = <<0>>
      BY <1>1 DEF Crc
    <3> QED BY <3>4, <3>5, <3>6, <3>7
  <2>5. PICK j \in 1..Len(es) : FrameOf(f, x, es, j)
    BY <1>4, <2>2, <2>4, AcceptedIsEntry, Zenon DEF Logged
  <2>6. Decode(a.body).ok
    <3>1. es[j].rec \in Mutations /\ Len(Encode(es[j].rec)) < Pow[W32]
      BY DEF LogHolds
    <3>2. Decode(Encode(es[j].rec)) = [ok |-> TRUE, rec |-> es[j].rec]
      BY <3>1, DecodeInverts
    <3> QED BY <2>2, <2>5, <3>2 DEF FrameOf
  <2>7. ParseFrame(f, p) = [p EXCEPT !.pos = FrameEnd(f, @), !.recs = Append(@, Decode(a.body).rec)]
    BY <1>1, <1>4, <2>2, <2>6 DEF ParseFrame
  <2> QED BY <2>7 DEF ParseStates
<1> QED BY <1>2, <1>3, <1>4

\* write_header of wal.rs is read as what it wrote.
LEMMA LogHeaderAccepted ==
    ASSUME NEW f \in Seq(Cells), Len(f) >= Len(WalHeader), Holds(f, 0, WalHeader)
    PROVE  LogVerdict(f) = "Ok"
<1>1. PICK w \in Nat \ {0}, l \in Nat : w = W32 /\ l = Len(f) /\ w + 1 <= l
  BY Widths, LenProperties, HeaderLength
<1>2. /\ WAL_MAGIC \in 0..(Base - 1) /\ WAL_VERSION \in 0..(Base - 1)
      /\ WAL_VERSION \in Nat /\ WAL_VERSION < Pow[w]
  <2>1. WAL_MAGIC \in 0..(Base - 1) /\ WAL_VERSION \in 0..(Base - 1) /\ WAL_VERSION < Base
    BY WidthAssumption, TagAssumption DEF WAL_MAGIC, WAL_VERSION
  <2>2. PICK b \in Nat, q \in Nat : b = Base /\ q = Pow[w] /\ b <= q
    <3>1. Pow[0 + 1] = Base * Pow[0] /\ Pow[0] = 1
      BY PowDef
    <3>2. Pow[1] = Base
      BY <3>1, WidthAssumption
    <3>3. Pow[1] <= Pow[w]
      BY <1>1, PowMonotone
    <3> QED BY <1>1, <3>2, <3>3, PowDef, WidthAssumption
  <2>3. WAL_VERSION < q
    BY <2>1, <2>2 DEF WAL_VERSION
  <2> QED BY <2>1, <2>2, <2>3 DEF WAL_VERSION
<1>3. PICK a \in Seq(Digits), b \in Seq(Digits) :
        a = Byte(WAL_MAGIC) /\ Len(a) = 1 /\ b = LE(WAL_VERSION, w) /\ Len(b) = w
  BY <1>1, <1>2, ByteRead, LETyped
<1>4. PICK h \in Seq(Digits) : h = a \o b /\ Joins(Digits, a, b, h) /\ h = WalHeader
  <2>1. PICK h \in Seq(Digits) : h = a \o b /\ Joins(Digits, a, b, h)
    BY Joined, Zenon
  <2> QED BY <1>1, <1>3, <2>1 DEF WalHeader
<1>5. Holds(f, 0, a) /\ Holds(f, 1, b)
  <2>1. Len(h) = 1 + w /\ \A i \in 1..w : h[1 + i] = b[i]
    BY <1>3, <1>4 DEF Joins
  <2>2. h[1] = a[1]
    <3>1. 1 \in 1..Len(a)
      BY <1>3
    <3> QED BY <1>4, <3>1 DEF Joins, Extends
  <2>3. \A i \in 1..(1 + w) : f[0 + i] = h[i]
    BY <1>4, <2>1 DEF Holds
  <2>4. ASSUME NEW i \in 1..w PROVE f[1 + i] = b[i]
    <3>1. 1 + i \in 1..(1 + w) /\ 0 + (1 + i) = 1 + i
      BY <1>1
    <3> QED BY <2>1, <2>3, <3>1
  <2>5. f[0 + 1] = a[1]
    <3>1. 1 \in 1..(1 + w)
      BY <1>1
    <3> QED BY <2>2, <2>3, <3>1
  <2> QED BY <1>3, <2>4, <2>5 DEF Holds
<1>6. PICK c : c = Cursor(f) /\ Ready(f, 0, c)
  <2>1. PICK c : c = Cursor(f)
    OBVIOUS
  <2>2. c.ok = TRUE /\ c.rest = f
    BY <2>1 DEF Cursor
  <2>3. l - 0 = l /\ \A k \in 1..l : 0 + k = k
    OBVIOUS
  <2>4. Stands(f, 0, c)
    BY <1>1, <2>2, <2>3 DEF Stands
  <2> QED BY <2>1, <2>2, <2>4 DEF Ready
<1>7. PICK m : m = Take(c, 1) /\ Num(m.val) = WAL_MAGIC /\ Ready(f, 1, m)
  <2>1. 0 + 1 = 1 /\ 0 + 1 <= Len(f)
    BY <1>1
  <2> QED BY <1>2, <1>3, <1>5, <1>6, <2>1, ByteHeld
<1>8. PICK v : v = Take(m, W32) /\ Num(v.val) = WAL_VERSION
  <2>1. 1 + w <= Len(f)
    BY <1>1
  <2> QED BY <1>1, <1>2, <1>3, <1>5, <1>7, <2>1, NumberHeld
<1> DEFINE checks == << <<Num(m.val) # WAL_MAGIC, "BadMagic">>,
                        <<Num(v.val) # WAL_VERSION, "UnsupportedVersion">> >>
<1>9. LogVerdict(f) = FirstError(checks)
  BY <1>6, <1>7, <1>8 DEF LogVerdict
<1>10. DOMAIN checks = 1..2
  OBVIOUS
<1>10a. ~checks[1][1]
  BY <1>7
<1>10b. ~checks[2][1]
  BY <1>8
<1> HIDE DEF checks
<1>11. \A i \in 1..2 : ~checks[i][1]
  BY <1>10a, <1>10b
<1>12. PICK L \in Nat : L = 2
  OBVIOUS
<1> QED BY <1>9, <1>10, <1>11, <1>12, NoError

\* parse_records does not refuse a log that was torn by a kill or a power
\* loss, and written on behind that.
LEMMA ChainedIsRead ==
    ASSUME NEW f, NEW es \in Seq(Logged),
           LogHolds(f, es), Places(f, es), Chained(f, es)
    PROVE  ParseRecords(f).err = "Ok"
<1>1. PICK l \in Nat : f \in Seq(Cells) /\ l = Len(f)
  BY LenProperties DEF LogHolds
<1>2. PICK g : g = Parsing(f)
  OBVIOUS
<1>3. /\ g[0] = [pos |-> Len(WalHeader), recs |-> <<>>, done |-> NoHeader(f), err |-> "Ok"]
      /\ \A n \in 0..l : g[n] \in ParseStates
      /\ \A n \in 1..l : g[n] = ParseFrame(f, g[n - 1])
  BY <1>1, <1>2, ParsingDef
<1>4. \A n \in 0..l : Walks(f, es, g[n]) /\ g[n].err = "Ok"
  <2> DEFINE S == {n \in 0..l : Walks(f, es, g[n]) /\ g[n].err = "Ok"}
  <2>1. 0 \in S
    <3>1. g[0].recs = FirstRecs(es, 0) /\ g[0].pos = Len(WalHeader) /\ g[0].err = "Ok"
      BY <1>3 DEF FirstRecs
    <3>2. Walks(f, es, g[0])
      <4>1. 0 \in 0..Len(es)
        BY LenProperties
      <4> QED BY <3>1, <4>1 DEF Walks
    <3> QED BY <1>1, <3>1, <3>2
  <2>2. ASSUME NEW n \in 1..l, n - 1 \in S PROVE n \in S
    <3>1. PICK p \in ParseStates :
            p = g[n - 1] /\ Walks(f, es, p) /\ p.err = "Ok" /\ g[n] = ParseFrame(f, p)
      <4>1. n - 1 \in 0..l
        BY <1>1
      <4> QED BY <1>3, <2>2, <4>1
    <3>2. Walks(f, es, ParseFrame(f, p))
      BY <3>1, WalkOn, Zenon DEF Logged
    <3>3. ParseFrame(f, p).err = "Ok"
      BY <3>1, ReadsOn
    <3>4. n \in 0..l
      BY <1>1
    <3> QED BY <3>1, <3>2, <3>3, <3>4
  <2>3. \A n \in 0..l : n \in S
    <3> HIDE DEF S
    <3> QED BY <1>1, <2>1, <2>2, UpTo
  <2> QED BY <2>3
<1>5. g[l].err = "Ok"
  <2>1. l \in 0..l
    BY <1>1
  <2> QED BY <1>4, <2>1
<1>6. LogVerdict(f) = "Ok"
  BY <1>1, LogHeaderAccepted DEF Chained
<1> QED BY <1>1, <1>2, <1>5, <1>6 DEF ParseRecords

\* Where an entry ends or the next one starts is a place.
LEMMA UntilTyped ==
    ASSUME NEW f, NEW es \in Seq(Logged), LogHolds(f, es),
           NEW i \in 0..Len(es)
    PROVE  Until(f, es, i) \in Nat
<1>1. Len(es) \in Nat /\ Len(f) \in Nat
  BY LenProperties DEF LogHolds
<1>2. CASE i = Len(es)
  BY <1>1, <1>2 DEF Until
<1>3. CASE i # Len(es)
  <2>1. i + 1 \in 1..Len(es)
    BY <1>1, <1>3
  <2> QED BY <1>3, <2>1, EntryNumbers DEF Until
<1> QED BY <1>2, <1>3

\* A place within a part is within the whole.
LEMMA PlaceInside ==
    ASSUME NEW a \in Nat, NEW v \in Nat, NEW p \in 1..(v - a), NEW u \in Nat, v <= u
    PROVE  a + p \in 1..u /\ p \in 1..(u - a)
OBVIOUS

\* An append goes on where the log ended.
LEMMA ChainedGrows ==
    ASSUME NEW es \in Seq(Logged), NEW f,
           LogHolds(f, es), Places(f, es), Chained(f, es),
           NEW r \in Mutations, NEW k \in 1..Len(Frame(r)),
           NEW e \in Logged, NEW g, NEW es2, Appended(f, es, r, k, e, g, es2)
    PROVE  Chained(g, es2)
<1>1. PICK n \in Nat, c \in Nat, h \in Nat : n = Len(es) /\ c = Len(f) /\ h = Len(WalHeader) /\ h <= c
  BY LenProperties, HeaderLength DEF LogHolds, Chained
<1>2. /\ Len(g) = c + k /\ g \in Seq(Cells)
      /\ \A p \in 1..c : g[p] = f[p]
      /\ \A p \in 1..k : g[c + p] = Frame(r)[p]
  BY <1>1 DEF Appended, Grown, Extends
<1>3. /\ Len(es2) = n + 1 /\ es2[n + 1] = e /\ e.rec = r /\ e.start = c
      /\ \A i \in 1..n : es2[i] = es[i]
  <2>1. /\ Append(es, e) \in Seq(Logged) /\ Len(Append(es, e)) = Len(es) + 1
        /\ \A i \in 1..Len(es) : Append(es, e)[i] = es[i]
        /\ Append(es, e)[Len(es) + 1] = e
    BY AppendProperties
  <2> QED BY <1>1, <2>1 DEF Appended
<1>4. PICK l \in Nat : l = Len(Frame(r)) /\ k \in Nat /\ 1 <= k /\ k <= l /\ Behind(e) = c + l
  <2>1. PICK w \in Nat, m \in Nat : w = W32 /\ m = Len(Encode(r))
    BY Widths, EncodeTyped
  <2>2. Len(Frame(r)) = 2 * w + m
    BY <2>1, FrameLaid
  <2>3. Behind(e) = c + 2 * w + m
    BY <1>3, <2>1 DEF Behind, BehindFrame
  <2> QED BY <2>2, <2>3
<1>5. ASSUME NEW i \in 0..n PROVE Until(g, es2, i) = Until(f, es, i)
  <2>1. i # n + 1 /\ i \in Nat
    BY <1>1
  <2>2. Until(g, es2, i) = es2[i + 1].start
    BY <1>3, <2>1 DEF Until
  <2>3. CASE i = n
    BY <1>1, <1>3, <2>2, <2>3 DEF Until
  <2>4. CASE i # n
    <3>1. i + 1 \in 1..n
      BY <1>1, <2>4
    <3> QED BY <1>1, <1>3, <2>2, <2>4, <3>1 DEF Until
  <2> QED BY <2>3, <2>4
<1>6. Until(g, es2, n + 1) = c + k
  BY <1>2, <1>3 DEF Until
<1>7. ASSUME NEW i \in 1..(n + 1)
      PROVE  /\ es2[i].start < Until(g, es2, i) /\ Until(g, es2, i) <= Behind(es2[i])
             /\ \A p \in 1..(Until(g, es2, i) - es2[i].start) :
                  g[es2[i].start + p] = Frame(es2[i].rec)[p]
  <2>1. CASE i = n + 1
    <3>1. (c + k) - c = k /\ c < c + k /\ c + k <= c + l
      BY <1>4
    <3> QED BY <1>2, <1>3, <1>4, <1>6, <2>1, <3>1
  <2>2. CASE i # n + 1
    <3>1. i \in 1..n /\ i \in 0..n /\ i \in 1..Len(es)
      BY <1>1, <2>2
    <3>2. PICK a \in Nat, u \in Nat : a = es[i].start /\ u = Until(f, es, i)
      BY <1>1, <3>1, UntilTyped, EntryNumbers
    <3>3. /\ a < u /\ u <= Behind(es[i])
          /\ \A p \in 1..(u - a) : f[a + p] = Frame(es[i].rec)[p]
      BY <3>1, <3>2 DEF Chained
    <3>4. u <= c
      <4>1. CASE i = n
        BY <1>1, <3>2, <4>1 DEF Until
      <4>2. CASE i # n
        <5>1. i + 1 \in 1..n /\ i < i + 1
          BY <1>1, <3>1, <4>2
        <5>2. u = es[i + 1].start
          BY <1>1, <3>2, <4>2 DEF Until
        <5>3. es[i + 1].start < Len(f)
          BY <1>1, <5>1 DEF Places
        <5> QED BY <1>1, <3>2, <5>2, <5>3
      <4> QED BY <4>1, <4>2
    <3>5. ASSUME NEW p \in 1..(u - a) PROVE g[a + p] = Frame(es[i].rec)[p]
      <4>1. a + p \in 1..c
        BY <3>4, PlaceInside
      <4> QED BY <1>2, <3>3, <4>1
    <3>6. es2[i] = es[i] /\ Until(g, es2, i) = u
      BY <1>3, <1>5, <3>1, <3>2
    <3> QED BY <3>2, <3>3, <3>5, <3>6
  <2> QED BY <2>1, <2>2
<1>8. Len(g) >= h
  BY <1>1, <1>2, <1>4
<1>9. Holds(g, 0, WalHeader)
  <2>1. ASSUME NEW p \in 1..h PROVE g[0 + p] = WalHeader[p]
    <3>1. p \in 1..c /\ 0 + p = p
      BY <1>1
    <3>2. f[0 + p] = WalHeader[p]
      BY <1>1 DEF Chained, Holds
    <3> QED BY <1>2, <3>1, <3>2
  <2> QED BY <1>1, <2>1 DEF Holds
<1>10. Until(g, es2, 0) = h
  BY <1>1, <1>5 DEF Chained
<1> QED BY <1>1, <1>3, <1>7, <1>8, <1>9, <1>10 DEF Chained

\* What a power loss leaves in front of a place ends there, or where the
\* last entry ended anyway.
LEMMA ChainedCut ==
    ASSUME NEW es \in Seq(Logged), NEW f \in Seq(Cells),
           LogHolds(f, es), Chained(f, es),
           NEW n \in Nat, Len(WalHeader) <= n, n <= Len(f), NEW m \in 0..Len(es),
           \A i \in 1..Len(es) : es[i].start < n <=> i <= m,
           NEW es2, Kept(es2, es, m),
           NEW g \in Seq(Cells), Len(g) = n, \A p \in 1..n : g[p] = f[p]
    PROVE  Chained(g, es2)
<1>1. PICK l \in Nat, c \in Nat, h \in Nat :
        l = Len(es) /\ c = Len(f) /\ h = Len(WalHeader) /\ h <= n /\ n <= c
  BY LenProperties, HeaderLength
<1>2. /\ m \in Nat /\ m <= l /\ Len(es2) = m
      /\ \A i \in 1..m : es2[i].rec = es[i].rec /\ es2[i].start = es[i].start
  BY <1>1 DEF Kept
<1>3. Until(g, es2, m) = n /\ n <= Until(f, es, m)
  <2>1. Until(g, es2, m) = n
    BY <1>2 DEF Until
  <2>2. CASE m = l
    <3>1. Until(f, es, m) = c
      BY <1>1, <2>2 DEF Until
    <3> QED BY <1>1, <2>1, <3>1
  <2>3. CASE m # l
    <3>1. m + 1 \in 1..l /\ ~(m + 1 <= m)
      BY <1>1, <1>2, <2>3
    <3>2. PICK a \in Nat : a = es[m + 1].start
      BY <1>1, <3>1, EntryNumbers
    <3>3. ~(a < n)
      BY <1>1, <3>1, <3>2
    <3>4. Until(f, es, m) = a
      BY <1>1, <2>3, <3>2 DEF Until
    <3> QED BY <2>1, <3>3, <3>4
  <2> QED BY <2>1, <2>2, <2>3
<1>4. ASSUME NEW i \in 0..m, i # m
      PROVE  Until(g, es2, i) = Until(f, es, i) /\ Until(f, es, i) < n
  <2>1. i + 1 \in 1..m /\ i + 1 \in 1..l /\ i # l /\ i + 1 <= m
    BY <1>1, <1>2, <1>4
  <2>2. Until(g, es2, i) = es2[i + 1].start /\ Until(f, es, i) = es[i + 1].start
    BY <1>1, <1>2, <1>4, <2>1 DEF Until
  <2> QED BY <1>1, <1>2, <2>1, <2>2
<1>5. ASSUME NEW i \in 1..m
      PROVE  /\ es2[i].start < Until(g, es2, i) /\ Until(g, es2, i) <= Behind(es2[i])
             /\ \A p \in 1..(Until(g, es2, i) - es2[i].start) :
                  g[es2[i].start + p] = Frame(es2[i].rec)[p]
  <2>1. i \in 1..l /\ i \in 0..l /\ i \in 0..m /\ i <= m
    BY <1>1, <1>2
  <2>2. PICK a \in Nat, u \in Nat, b \in Nat : a = es[i].start /\ u = Until(f, es, i) /\ b = Behind(es[i])
    BY <1>1, <2>1, UntilTyped, EntryNumbers
  <2>3. /\ a < u /\ u <= b
        /\ \A p \in 1..(u - a) : f[a + p] = Frame(es[i].rec)[p]
    BY <1>1, <2>1, <2>2 DEF Chained
  <2>4. PICK v \in Nat : v = Until(g, es2, i) /\ v <= u /\ v <= n /\ a < v
    <3>1. CASE i = m
      <4>1. a < n
        BY <1>1, <2>1, <2>2
      <4> QED BY <1>3, <2>2, <3>1, <4>1
    <3>2. CASE i # m
      BY <1>4, <2>1, <2>2, <2>3, <3>2
    <3> QED BY <3>1, <3>2
  <2>5. ASSUME NEW p \in 1..(v - a) PROVE g[a + p] = Frame(es[i].rec)[p]
    <3>1. a + p \in 1..n /\ p \in 1..(u - a)
      <4>1. v <= n /\ v <= u
        BY <2>4
      <4> QED BY <4>1, PlaceInside
    <3> QED BY <2>3, <3>1
  <2>6. es2[i].rec = es[i].rec /\ es2[i].start = a /\ Behind(es2[i]) = b
    BY <1>2, <2>2 DEF Behind
  <2>7. v <= b
    BY <2>2, <2>3, <2>4
  <2> QED BY <2>4, <2>5, <2>6, <2>7
<1>6. Holds(g, 0, WalHeader)
  <2>1. ASSUME NEW p \in 1..h PROVE g[0 + p] = WalHeader[p]
    <3>1. p \in 1..n /\ 0 + p = p
      BY <1>1
    <3>2. f[0 + p] = WalHeader[p]
      BY <1>1 DEF Chained, Holds
    <3> QED BY <3>1, <3>2
  <2> QED BY <1>1, <2>1 DEF Holds
<1>7. Until(g, es2, 0) = h
  <2>1. Until(f, es, 0) = h
    BY <1>1 DEF Chained
  <2>2. CASE m = 0
    <3>1. n <= h
      BY <1>3, <2>1, <2>2
    <3>2. n = h
      BY <1>1, <3>1
    <3> QED BY <1>3, <2>2, <3>2
  <2>3. CASE m # 0
    <3>1. 0 \in 0..m
      BY <1>2
    <3> QED BY <1>4, <2>1, <2>3, <3>1
  <2> QED BY <2>2, <2>3
<1> QED BY <1>1, <1>2, <1>5, <1>6, <1>7 DEF Chained

\* A new log is its header.
LEMMA ChainedNew == Chained(WalHeader, <<>>)
<1>1. PICK h \in Seq(Digits), n \in Nat : h = WalHeader /\ n = Len(h)
  BY HeaderLength, LenProperties
<1>2. Len(<<>>) = 0
  BY EmptySeq
<1>3. \A p \in 1..n : h[0 + p] = h[p]
  OBVIOUS
<1>4. Holds(h, 0, h)
  BY <1>1, <1>3 DEF Holds
<1> QED BY <1>1, <1>2, <1>4 DEF Chained, Until

\* Until a medium is damaged or a power loss leaves zeros, the log is a chain;
\* as long as nothing happened to it, its header is on disk.
ChainInv ==
    harm \in {"none", "torn"} /\ logFile # None =>
        /\ Chained(logFile, entries)
        /\ harm = "none" => durable \in Nat /\ Len(WalHeader) <= durable

\* A mutation that is logged, and one whose append is cut short, is the last
\* of the chain.
LEMMA ChainLogged ==
    ASSUME Outside, RecoveryInv, ChainInv, harm \in {"none", "torn"},
           NEW r \in Records, MayAppend(r), NEW k \in 1..Len(Frame(r)),
           k = Len(Frame(r)) \/ harm = "none",
           NEW whole \in BOOLEAN, entries' = NewEntry(r, whole),
           logFile' = logFile \o SubSeq(Frame(r), 1, k)
    PROVE  Chained(logFile', entries')
<1>1. pc = "up"
  BY DEF MayAppend
<1>2. PICK dim \in Nat : dim = base.dim /\ r \in Mutations
  BY BaseFits
<1>3. PICK f \in Seq(Cells), es \in Seq(Logged) :
        /\ f = logFile /\ es = entries /\ LogHolds(f, es) /\ Places(f, es)
        /\ harm = "none" => Unharmed(f, es)
        /\ f # None
  BY <1>1, <1>2 DEF RecoveryInv, LogInv, LogHolds
<1>4. PICK F \in Seq(Cells), n \in Nat : F = Frame(r) /\ n = Len(F)
  BY <1>2, FrameMade, LenProperties DEF FrameCells
<1>5. PICK part \in Seq(Cells) :
        part = SubSeq(F, 1, k) /\ Len(part) = k /\ \A i \in 1..k : part[i] = F[i]
  <2>1. k \in Nat /\ k <= Len(F)
    BY <1>4
  <2>2. /\ SubSeq(F, 1, k) \in Seq(Cells) /\ Len(SubSeq(F, 1, k)) = k
        /\ \A i \in 1..k : SubSeq(F, 1, k)[i] = F[i]
    BY <2>1, FirstPart
  <2> QED BY <2>2
<1>6. PICK g \in Seq(Cells) : g = f \o part /\ Joins(Cells, f, part, g)
  BY Joined, Zenon
<1>7. logFile' = g
  BY <1>3, <1>4, <1>5, <1>6
<1>8. Grown(g, f, Frame(r), k)
  BY <1>4, <1>5, <1>6 DEF Grown, Joins
<1>9. PICK e \in Logged, es2 \in Seq(Logged) :
        /\ e = [rec |-> r, start |-> Len(f), whole |-> whole] /\ e.rec = r /\ e.start = Len(f)
        /\ es2 = Append(es, e)
  <2>1. [rec |-> r, start |-> Len(f), whole |-> whole] \in Logged
    BY <1>2, LenProperties DEF Logged
  <2>2. Append(es, [rec |-> r, start |-> Len(f), whole |-> whole]) \in Seq(Logged)
    BY <2>1, AppendProperties
  <2> QED BY <2>1, <2>2
<1>10. entries' = es2
  BY <1>3, <1>9 DEF NewEntry
<1>11. Appended(f, es, r, k, e, g, es2)
  BY <1>3, <1>8, <1>9 DEF Appended
<1>12. Chained(f, es)
  BY <1>3 DEF ChainInv
<1>13. Chained(g, es2)
  BY <1>2, <1>3, <1>11, <1>12, ChainedGrows
<1> QED BY <1>7, <1>10, <1>13

\* A mutation that is logged may be synced, too.
LEMMA ChainMutate ==
    ASSUME Outside, RecoveryInv, ChainInv, NEW r \in Records, Mutate(r)
    PROVE  ChainInv'
<1>1. /\ MayAppend(r) /\ harm' = harm /\ entries' = NewEntry(r, TRUE)
      /\ logFile' = logFile \o Frame(r) /\ pc = "up"
      /\ durable' = durable \/ durable' = Len(logFile')
  BY DEF Mutate, SyncNow, MayAppend
<1> SUFFICES ASSUME harm \in {"none", "torn"}
             PROVE  /\ Chained(logFile', entries')
                    /\ harm = "none" => durable' \in Nat /\ Len(WalHeader) <= durable'
  BY <1>1 DEF ChainInv
<1>2. PICK F \in Seq(Cells), k \in Nat : F = Frame(r) /\ k = Len(F) /\ k # 0
  <2>1. r \in Mutations
    BY BaseFits
  <2>2. /\ Frame(r) \in Seq(Cells) /\ Len(Frame(r)) = 2 * W32 + Len(Encode(r))
        /\ Len(Encode(r)) \in Nat \ {0}
    BY <2>1, FrameLaid, EncodeTyped
  <2> QED BY <2>2, Widths
<1>3. SubSeq(F, 1, k) = F
  <2>1. PICK part \in Seq(Cells) :
          part = SubSeq(F, 1, k) /\ Len(part) = k /\ \A i \in 1..k : part[i] = F[i]
    BY <1>2, FirstPart
  <2> QED BY <1>2, <2>1, SeqEqual
<1>4. k \in 1..Len(Frame(r)) /\ k = Len(Frame(r)) /\ logFile' = logFile \o SubSeq(Frame(r), 1, k)
  BY <1>1, <1>2, <1>3
<1>5. Chained(logFile', entries')
  BY <1>1, <1>4, ChainLogged
<1>6. Len(logFile') \in Nat /\ Len(WalHeader) <= Len(logFile')
  <2>1. PICK h \in Nat : h = Len(WalHeader)
    BY HeaderLength, Widths
  <2>2. RecoveryInv'
    BY RecoveryMutate
  <2>3. LogHolds(logFile', entries')
    BY <1>1, <2>2 DEF RecoveryInv, LogInv, Mutate
  <2>4. Len(logFile') \in Nat
    BY <2>3, LenProperties DEF LogHolds
  <2> QED BY <1>5, <2>1, <2>4 DEF Chained
<1>7. harm = "none" => durable \in Nat /\ Len(WalHeader) <= durable
  BY <1>1 DEF ChainInv, RecoveryInv, LogInv
<1> QED BY <1>1, <1>5, <1>6, <1>7

\* What a killed process had written of a frame is the last of the chain.
LEMMA ChainKill ==
    ASSUME Outside, RecoveryInv, ChainInv, NEW r \in Records,
           NEW k \in 1..Len(Frame(r)), KillInAppend(r, k)
    PROVE  ChainInv'
<1>1. /\ MayAppend(r) /\ pc = "up" /\ harm = "none" /\ durable' = durable
      /\ entries' = NewEntry(r, k = Len(Frame(r)))
      /\ logFile' = logFile \o SubSeq(Frame(r), 1, k)
  BY DEF KillInAppend, MayAppend
<1>2. PICK whole \in BOOLEAN : whole = (k = Len(Frame(r)))
  OBVIOUS
<1>3. Chained(logFile', entries')
  BY <1>1, <1>2, ChainLogged
<1>4. durable \in Nat /\ Len(WalHeader) <= durable
  BY <1>1 DEF ChainInv, RecoveryInv, LogInv
<1> QED BY <1>1, <1>3, <1>4 DEF ChainInv

\* A power loss that leaves no zeros takes cells from the end, but for the
\* header, which was synced when the log was made.
LEMMA ChainPowerLoss ==
    ASSUME Outside, RecoveryInv, ChainInv,
           NEW k \in 0..(IF logFile = None THEN 0 ELSE Len(logFile)),
           NEW zeros \in 0..MaxZeros, PowerLoss(k, zeros)
    PROVE  ChainInv'
<1>1. /\ harm = "none" /\ logFile # None /\ durable <= k
      /\ logFile' = SubSeq(logFile, 1, k) \o [i \in 1..zeros |-> <<0>>]
      /\ entries' = Remaining(k) /\ harm' = (IF zeros = 0 THEN "torn" ELSE "zeros")
  BY DEF PowerLoss
<1> SUFFICES ASSUME zeros = 0 PROVE Chained(logFile', entries')
  BY <1>1 DEF ChainInv
<1>2. PICK dim \in Nat : dim = base.dim
  BY BaseFits
<1>3. PICK es \in Seq(Logged) : es = entries /\ LogHolds(logFile, es)
  BY <1>1, <1>2 DEF RecoveryInv, LogInv
<1>4. PICK f \in Seq(Cells), n \in Nat : f = logFile /\ n = Len(f)
  BY <1>3, LenProperties DEF LogHolds
<1>5. k \in Nat /\ k <= n
  BY <1>1, <1>4
<1>6. PICK a \in Seq(Cells) :
        a = SubSeq(f, 1, k) /\ Len(a) = k /\ \A i \in 1..k : a[i] = f[i]
  <2>1. /\ SubSeq(f, 1, k) \in Seq(Cells) /\ Len(SubSeq(f, 1, k)) = k
        /\ \A i \in 1..k : SubSeq(f, 1, k)[i] = f[i]
    BY <1>4, <1>5, FirstPart
  <2> QED BY <2>1
<1>7. PICK z \in Seq(Cells) : z = [i \in 1..zeros |-> <<0>>] /\ Len(z) = 0
  <2>1. [i \in 1..0 |-> <<0>>] \in Seq(Digits) /\ Len([i \in 1..0 |-> <<0>>]) = 0
    BY ZeroTyped
  <2>2. [i \in 1..0 |-> <<0>>] \in Seq(Cells)
    BY <2>1, SeqMonotonic DEF Cells, Plain
  <2> QED BY <2>1, <2>2
<1>8. PICK g \in Seq(Cells) : g = a \o z /\ Joins(Cells, a, z, g)
  BY Joined, Zenon
<1>9. logFile' = g /\ Len(g) = k /\ \A p \in 1..k : g[p] = f[p]
  BY <1>1, <1>4, <1>5, <1>6, <1>7, <1>8 DEF Joins, Extends
<1>10. PICK m \in 0..Len(es) :
         /\ \A i \in 1..Len(es) : es[i].start < k <=> i <= m
         /\ Kept(Remaining(k), es, m)
  BY <1>3, <1>5, RemainingKept
<1>11. Chained(f, es) /\ Len(WalHeader) <= k
  <2>1. Chained(f, es) /\ durable \in Nat /\ Len(WalHeader) <= durable
    BY <1>1, <1>3, <1>4 DEF ChainInv
  <2>2. PICK h \in Nat : h = Len(WalHeader)
    BY HeaderLength, Widths
  <2> QED BY <1>1, <1>5, <2>1, <2>2
<1>12. PICK es2 : es2 = Remaining(k) /\ Kept(es2, es, m)
  BY <1>10
<1>13. LogHolds(f, es) /\ k <= Len(f)
  BY <1>3, <1>4, <1>5
<1>14. Chained(g, es2)
  BY <1>5, <1>9, <1>10, <1>11, <1>12, <1>13, ChainedCut
<1> QED BY <1>1, <1>9, <1>12, <1>14

\* A new log is synced with its header, and the other steps leave the chain
\* alone or damage a medium.
LEMMA ChainStep ==
    ASSUME Outside, RecoveryInv, ChainInv, [Next]_vars
    PROVE  ChainInv'
<1>1. ASSUME logFile' = WalHeader, entries' = <<>>, durable' = Len(logFile')
      PROVE  ChainInv'
  <2>1. durable' \in Nat /\ Len(WalHeader) <= durable'
    BY <1>1, HeaderLength, Widths
  <2> QED BY <1>1, <2>1, ChainedNew DEF ChainInv
<1>2. ASSUME logFile' = logFile, entries' = entries, harm' = harm, durable' = durable
      PROVE  ChainInv'
  BY <1>2 DEF ChainInv
<1>3. ASSUME OpenWith \/ Checkpoint PROVE ChainInv'
  <2>1. WriteBoth
    BY <1>3 DEF OpenWith, Checkpoint
  <2> QED BY <1>1, <2>1 DEF WriteBoth, SyncNow
<1>4. ASSUME WriteRefused \/ FindLegacy \/ Tick \/ Stop \/ UNCHANGED vars PROVE ChainInv'
  BY <1>2, <1>4 DEF WriteRefused, FindLegacy, Tick, Stop, vars, clockVars, historyVars
<1>5. ASSUME NEW r \in Records, Mutate(r) PROVE ChainInv'
  BY <1>5, ChainMutate
<1>6. ASSUME NEW r \in Records, NEW k \in 1..Len(Frame(r)), KillInAppend(r, k) PROVE ChainInv'
  BY <1>6, ChainKill
<1>7. ASSUME NEW k \in 0..(IF logFile = None THEN 0 ELSE Len(logFile)),
             NEW zeros \in 0..MaxZeros, PowerLoss(k, zeros)
      PROVE  ChainInv'
  BY <1>7, ChainPowerLoss
<1>8. ASSUME DamageSnapshot \/ DamageLog PROVE ChainInv'
  <2>1. harm' \notin {"none", "torn"}
    BY <1>8 DEF DamageSnapshot, DamageLog
  <2> QED BY <2>1 DEF ChainInv
<1>9. ASSUME NEW cfg \in Configs, LoadIndex(cfg) PROVE ChainInv'
  BY <1>2, <1>9 DEF LoadIndex, clockVars, historyVars
<1>10. ASSUME OpenForAppend PROVE ChainInv'
  <2>1. entries' = entries /\ harm' = harm /\ pc = "loaded"
    BY <1>10 DEF OpenForAppend, historyVars
  <2>2. CASE logFile = None
    <3>1. entries = <<>>
      BY <2>2 DEF RecoveryInv, LogInv
    <3> QED BY <1>1, <1>10, <2>1, <2>2, <3>1 DEF OpenForAppend, SyncNow
  <2>3. CASE logFile # None
    BY <1>2, <1>10, <2>1, <2>3 DEF OpenForAppend
  <2> QED BY <2>2, <2>3
<1> QED BY <1>3, <1>4, <1>5, <1>6, <1>7, <1>8, <1>9, <1>10 DEF Next

-----------------------------------------------------------------------------
(* No handle is refused what it wrote *)

\* The snapshots callers can come to save compress no better than load takes
\* a ratio to be: save does not look (MAX_DECOMPRESS_RATIO).
SmallRatios ==
    \A b \in Bases : \A ix \in EvenIndexesOf(b.dim) :
        Len(ix.rows) <= RowBound => RatioIsSmall(SaveTo(ix))

UndamagedInv == WholeInv /\ ChainInv /\ UndamagedLoads

\* A record that replay stops at is one that was logged.
LEMMA FirstMisfits ==
    ASSUME NEW es \in Seq(Logged), NEW k \in 0..Len(es), NEW ix, ix.dim = base.dim
    PROVE  Misfits(ix, FirstRecs(es, k)) <=> \E i \in 1..k : ~FitsDim(es[i].rec)
<1>1. DOMAIN FirstRecs(es, k) = 1..k /\ \A i \in 1..k : FirstRecs(es, k)[i] = es[i].rec
  BY DEF FirstRecs
<1> QED BY <1>1 DEF Misfits, FitsDim

\* What load reads of an undamaged log: the first of its mutations, and no
\* error.
LEMMA LogIsRead ==
    ASSUME Outside, RecoveryInv, ChainInv, harm \in {"none", "torn"}
    PROVE  /\ ReadLog.err = "Ok"
           /\ \E k \in 0..Len(entries) : ReadLog.recs = FirstRecs(entries, k)
<1>1. PICK es \in Seq(Logged), n \in Nat : es = entries /\ n = Len(es)
  BY LenProperties DEF RecoveryInv
<1>2. CASE logFile = None
  <2>1. ReadLog = [err |-> "Ok", recs |-> <<>>]
    BY <1>2 DEF ReadLog
  <2>2. FirstRecs(es, 0) = <<>> /\ 0 \in 0..n
    BY DEF FirstRecs
  <2> QED BY <1>1, <2>1, <2>2
<1>3. CASE logFile # None
  <2>1. LogHolds(logFile, es) /\ Places(logFile, es) /\ Chained(logFile, es)
    BY <1>1, <1>3 DEF RecoveryInv, LogInv, ChainInv
  <2>2. ReadLog = ParseRecords(logFile)
    BY <1>3 DEF ReadLog
  <2>3. ParseRecords(logFile).err = "Ok"
    BY <2>1, ChainedIsRead
  <2>4. \E k \in 0..Len(es) : ParseRecords(logFile).recs = FirstRecs(es, k)
    BY <2>1, FirstAreRead
  <2> QED BY <1>1, <2>2, <2>3, <2>4
<1> QED BY <1>2, <1>3

\* What load meets where no file was damaged: the snapshot as it was written,
\* which it takes for what it is.
LEMMA SnapshotIsRead ==
    ASSUME Outside, SmallRatios, RecoveryInv, pc # "new", harm # "snapshot",
           NEW type, NEW features, NEW snapshot, snapshot = Load(snapFile, type, features)
    PROVE  /\ snapshot.err = "Ok" => base.metric = Cosine /\ snapshot.ix = Reloaded(base)
           /\ /\ type = INDEX_TYPE /\ base.metric = Cosine
              /\ packed \in Kinds => Supported([kind |-> packed], features)
              => snapshot.err = "Ok" /\ snapshot.ix = Reloaded(base)
<1>1. PICK dim \in Nat :
        /\ dim = base.dim /\ dim < Pow[W32] /\ base \in EvenIndexesOf(dim)
        /\ Storable(dim, Len(base.rows))
  BY BaseFits
<1>2. PICK g : Written(g, base, packed) /\ snapFile = g /\ Hurt(g, g)
  BY DEF RecoveryInv, SnapInv
<1>3. ASSUME snapshot.err = "Ok" PROVE base.metric = Cosine /\ snapshot.ix = Reloaded(base)
  <2>1. Load(g, type, features).err = "Ok" /\ Damaged(g, g)
    BY <1>2, <1>3 DEF Hurt
  <2>2. base.metric = Cosine
    BY <1>1, <1>2, <2>1, OnlyCosineLoads DEF Outside
  <2>3. Load(g, type, features).ix = Reloaded(base)
    BY <1>1, <1>2, <2>1, SnapshotNeverLies DEF Outside
  <2> QED BY <1>2, <2>2, <2>3
<1>4. ASSUME type = INDEX_TYPE, base.metric = Cosine,
             packed \in Kinds => Supported([kind |-> packed], features)
      PROVE  snapshot.err = "Ok" /\ snapshot.ix = Reloaded(base)
  <2>1. RatioIsSmall(SaveTo(base))
    BY DEF SmallRatios, RecoveryInv, IndexInv
  <2>2. Load(g, INDEX_TYPE, features) =
          [err |-> IF base.metric = Cosine THEN "Ok" ELSE "InvalidPayload", ix |-> Reloaded(base)]
    BY <1>1, <1>2, <1>4, <2>1, SavedIsLoaded DEF Outside
  <2> QED BY <1>2, <1>4, <2>2
<1> QED BY <1>3, <1>4

\* A load by a handle that fits passes every check but the two of metric
\* and dimension.
LEMMA UndamagedLoad ==
    ASSUME Outside, SmallRatios, RecoveryInv, ChainInv, NothingWholeMissing',
           NEW cfg \in Configs, LoadIndex(cfg)
    PROVE  UndamagedLoads'
<1>1. /\ pc # "new" /\ config' = cfg /\ harm' = harm /\ packed' = packed
      /\ base' = base /\ entries' = entries
  BY DEF LoadIndex, clockVars, historyVars
<1> SUFFICES ASSUME harm \in {"none", "torn"}
             PROVE  /\ /\ Fits' /\ base.metric = Cosine
                       /\ \A i \in DOMAIN entries : FitsDim(entries[i].rec)
                       => pc' # "failed"
                    /\ pc' = "loaded" => /\ base.metric = Cosine
                                         /\ \A i \in Reachable' : FitsDim(entries[i].rec)
  BY <1>1 DEF UndamagedLoads, FitsDim
<1>2. PICK snapshot : snapshot = Load(snapFile, cfg.type, cfg.features)
  OBVIOUS
<1>3. PICK log : log = ReadLog
  OBVIOUS
<1>4. PICK es \in Seq(Logged), n \in Nat : es = entries /\ n = Len(es) /\ DOMAIN es = 1..n
  BY LenProperties DEF RecoveryInv
<1>5. log.err = "Ok" /\ \E k \in 0..n : log.recs = FirstRecs(es, k)
  BY <1>3, <1>4, LogIsRead
<1>6. PICK k \in 0..n : log.recs = FirstRecs(es, k)
  BY <1>5
<1>7. base \in EvenIndexesOf(base.dim) /\ base.dim \in Nat
  BY BaseFits
<1>8. Reloaded(base).dim = base.dim
  BY <1>7, ReloadedTyped
<1>9. Misfits(Reloaded(base), log.recs) <=> \E i \in 1..k : ~FitsDim(es[i].rec)
  BY <1>4, <1>6, <1>8, FirstMisfits
<1>10. ASSUME Fits', base.metric = Cosine, \A i \in DOMAIN entries : FitsDim(entries[i].rec)
       PROVE  pc' # "failed"
  <2>1. /\ cfg.type = INDEX_TYPE /\ Supported(cfg.scheme, cfg.features)
        /\ packed \in Kinds => Supported([kind |-> packed], cfg.features)
    BY <1>1, <1>10 DEF Fits, Kinds
  <2>2. snapshot.err = "Ok" /\ snapshot.ix = Reloaded(base)
    BY <1>1, <1>2, <1>10, <2>1, SnapshotIsRead
  <2>3. ~Misfits(Reloaded(base), log.recs)
    <3>1. \A i \in 1..k : i \in 1..n
      BY <1>4
    <3> QED BY <1>4, <1>9, <1>10, <3>1
  <2> DEFINE checks ==
           << <<~Supported(cfg.scheme, cfg.features), "Unsupported">>,
              <<snapshot.err # "Ok", snapshot.err>>,
              <<log.err # "Ok", log.err>>,
              <<Misfits(snapshot.ix, log.recs), "InvalidPayload">> >>
  <2>4. DOMAIN checks = 1..4
    OBVIOUS
  <2>5. ~checks[1][1] /\ ~checks[2][1]
    BY <2>1, <2>2
  <2>6. ~checks[3][1]
    BY <1>5
  <2>7. ~checks[4][1]
    BY <2>2, <2>3
  <2>8. outcome' = FirstError(checks) /\ (outcome' = "Ok" => pc' = "loaded")
    BY <1>2, <1>3 DEF LoadIndex, Replay
  <2> HIDE DEF checks
  <2>9. \A i \in 1..4 : ~checks[i][1]
    BY <2>5, <2>6, <2>7
  <2>10. PICK L \in Nat : L = 4
    OBVIOUS
  <2>11. FirstError(checks) = "Ok"
    BY <2>4, <2>9, <2>10, NoError
  <2> QED BY <2>8, <2>11
<1>11. ASSUME pc' = "loaded"
       PROVE  base.metric = Cosine /\ \A i \in Reachable' : FitsDim(entries[i].rec)
  <2>1. snapshot.err = "Ok" /\ recs' = log.recs /\ ~Misfits(snapshot.ix, log.recs)
    BY <1>2, <1>3, <1>11, LoadedIsRead
  <2>2. base.metric = Cosine /\ snapshot.ix = Reloaded(base)
    BY <1>1, <1>2, <2>1, SnapshotIsRead
  <2>3. \A i \in 1..k : FitsDim(es[i].rec)
    BY <1>9, <2>1, <2>2
  <2>4. Len(recs') = k
    BY <1>4, <1>6, <2>1 DEF FirstRecs
  <2>5. \A i \in Reachable' : i \in 1..k
    <3> TAKE i \in Reachable'
    <3>1. i \in 1..n
      BY <1>1, <1>4 DEF Reachable
    <3>2. i <= k
      BY <1>1, <1>11, <2>4 DEF NothingWholeMissing
    <3> QED BY <1>4, <3>1, <3>2
  <2> QED BY <1>4, <2>2, <2>3, <2>5
<1> QED BY <1>10, <1>11

\* As long as the snapshots callers save compress no better than the loader's
\* ratio limit, a handle whose type, codecs and own configuration fit loads
\* whatever a handle wrote and a kill or a power loss without zeros left of
\* it, in either format and behind however many kills, but for two kinds of
\* files that it refuses every time: those of an index with a metric that its
\* load_from does not give back (persisted.rs:206), and those whose log
\* holds an insert of another dimension (recovery.rs:42).  No other check of
\* load, read_snapshot or parse_records refuses an undamaged file.
THEOREM UndamagedLoadsAlways == Outside /\ SmallRatios => (Spec => []UndamagedLoads)
<1> SUFFICES ASSUME Outside, SmallRatios PROVE Spec => []UndamagedLoads
  OBVIOUS
<1>1. Init => UndamagedInv
  <2> SUFFICES ASSUME Init PROVE UndamagedInv
    OBVIOUS
  <2>1. RecoveryInv
    BY RecoveryInit
  <2>2. logFile = None /\ pc = "new" /\ entries = <<>>
    BY DEF Init
  <2> QED
    BY <2>1, <2>2 DEF UndamagedInv, WholeInv, HeldInv, NothingWholeMissing, ChainInv, UndamagedLoads
<1>2. UndamagedInv /\ [Next]_vars => UndamagedInv'
  <2> SUFFICES ASSUME UndamagedInv, [Next]_vars PROVE UndamagedInv'
    OBVIOUS
  <2>1. RecoveryInv /\ WholeInv' /\ ChainInv /\ ChainInv' /\ NothingWholeMissing'
    BY WholeStep, ChainStep DEF UndamagedInv, WholeInv
  <2>2. ASSUME NEW cfg \in Configs, LoadIndex(cfg) PROVE UndamagedInv'
    BY <2>1, <2>2, UndamagedLoad DEF UndamagedInv
  <2>3. ASSUME UNCHANGED vars PROVE UndamagedInv'
    BY <2>1, <2>3
       DEF UndamagedInv, UndamagedLoads, Fits, FitsDim, Reachable, EntryEnd, vars, handleVars, historyVars
  <2>4. ASSUME pc' \notin {"failed", "loaded"} PROVE UndamagedInv'
    BY <2>1, <2>4 DEF UndamagedInv, UndamagedLoads
  <2>5. ASSUME OpenWith \/ Checkpoint PROVE UndamagedInv'
    BY <2>4, <2>5 DEF OpenWith, Checkpoint, WriteBoth
  <2>6. ASSUME WriteRefused \/ FindLegacy \/ Tick \/ Stop PROVE UndamagedInv'
    BY <2>4, <2>6 DEF WriteRefused, FindLegacy, Tick, Stop, handleVars
  <2>7. ASSUME NEW r \in Records, Mutate(r) PROVE UndamagedInv'
    BY <2>4, <2>7 DEF Mutate, MayAppend
  <2>8. ASSUME NEW r \in Records, NEW k \in 1..Len(Frame(r)), KillInAppend(r, k) PROVE UndamagedInv'
    BY <2>4, <2>8 DEF KillInAppend
  <2>9. ASSUME NEW k, NEW zeros, PowerLoss(k, zeros) PROVE UndamagedInv'
    BY <2>4, <2>9 DEF PowerLoss
  <2>10. ASSUME DamageSnapshot \/ DamageLog PROVE UndamagedInv'
    BY <2>4, <2>10 DEF DamageSnapshot, DamageLog, handleVars
  <2>11. ASSUME OpenForAppend PROVE UndamagedInv'
    BY <2>4, <2>11 DEF OpenForAppend
  <2> QED
    BY <2>2, <2>3, <2>5, <2>6, <2>7, <2>8, <2>9, <2>10, <2>11 DEF Next
<1>3. UndamagedInv => UndamagedLoads
  BY DEF UndamagedInv
<1> QED BY <1>1, <1>2, <1>3, PTL DEF Spec
=============================================================================
