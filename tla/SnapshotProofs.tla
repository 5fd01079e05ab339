---------------------------- MODULE SnapshotProofs ----------------------------
(***************************************************************************)
(* What load takes from a snapshot is what was saved (SnapshotFormat): for *)
(* every index, width and scheme, whichever cell of the file is damaged    *)
(* and wherever it is cut.                                                 *)
(***************************************************************************)
EXTENDS SnapshotFormat, FrameProofs

\* u32 and u64 take some cells.
LEMMA Widths ==
    W32 \in Nat \ {0} /\ W64 \in Nat \ {0} /\ W64 = 2 * W32
BY WidthAssumption

\* The error that is found is that of the first check that fails.
LEMMA FirstErrorFound ==
    ASSUME NEW L \in Nat, NEW checks, DOMAIN checks = 1..L, \E i \in 1..L : checks[i][1]
    PROVE  \E z \in 1..L : /\ checks[z][1] /\ FirstError(checks) = checks[z][2]
                          /\ \A j \in 1..(z - 1) : ~checks[j][1]
<1> DEFINE S == {n \in Nat : \A i \in 1..n : i \in 1..L => ~checks[i][1]}
<1>1. PICK x \in 1..L : checks[x][1] /\ \A j \in 1..(x - 1) : ~checks[j][1]
  <2> SUFFICES ASSUME \A x \in 1..L : checks[x][1] => \E j \in 1..(x - 1) : checks[j][1]
               PROVE  FALSE
    OBVIOUS
  <2>1. 0 \in S
    OBVIOUS
  <2>2. ASSUME NEW n \in Nat, n \in S PROVE n + 1 \in S
    <3> SUFFICES ASSUME n + 1 \in 1..L, checks[n + 1][1] PROVE FALSE
      <4>1. ASSUME NEW i \in 1..(n + 1), i \in 1..L, checks[i][1] PROVE n + 1 \in 1..L /\ checks[n + 1][1]
        <5>1. i \notin 1..n
          BY <2>2, <4>1
        <5>2. i = n + 1
          BY <5>1
        <5> QED BY <4>1, <5>2
      <4> QED BY <4>1
    <3>1. PICK j \in 1..((n + 1) - 1) : checks[j][1]
      OBVIOUS
    <3>2. j \in 1..n /\ j \in 1..L
      OBVIOUS
    <3> QED BY <2>2, <3>1, <3>2
  <2>3. Nat \subseteq S
    <3> HIDE DEF S
    <3> QED BY <2>1, <2>2, NaturalsCovered
  <2>4. L \in S
    BY <2>3
  <2> QED BY <2>4
<1>2. PICK z \in 1..L :
        /\ z = CHOOSE i \in DOMAIN checks : checks[i][1] /\ \A j \in 1..(i - 1) : ~checks[j][1]
        /\ checks[z][1] /\ \A j \in 1..(z - 1) : ~checks[j][1]
  BY <1>1
<1>3. FirstError(checks) = checks[z][2]
  BY <1>1, <1>2 DEF FirstError
<1> QED BY <1>2, <1>3

\* A list of checks that finds no error has passed each of them.
LEMMA FirstErrorOk ==
    ASSUME NEW L \in Nat, NEW checks, DOMAIN checks = 1..L,
           \A i \in 1..L : checks[i][1] => checks[i][2] # "Ok",
           FirstError(checks) = "Ok"
    PROVE  \A i \in 1..L : ~checks[i][1]
<1> SUFFICES ASSUME \E i \in 1..L : checks[i][1] PROVE FALSE
  OBVIOUS
<1>1. PICK z \in 1..L : checks[z][1] /\ FirstError(checks) = checks[z][2]
  BY FirstErrorFound
<1> QED BY <1>1

\* What it returns is one of its errors.
LEMMA FirstErrorTyped ==
    ASSUME NEW L \in Nat, NEW checks, DOMAIN checks = 1..L, NEW E, "Ok" \in E,
           \A i \in 1..L : checks[i][1] => checks[i][2] \in E
    PROVE  FirstError(checks) \in E
<1>1. CASE \A i \in 1..L : ~checks[i][1]
  BY <1>1 DEF FirstError
<1>2. CASE \E i \in 1..L : checks[i][1]
  <2>1. PICK z \in 1..L : checks[z][1] /\ FirstError(checks) = checks[z][2]
    BY <1>2, FirstErrorFound
  <2> QED BY <2>1
<1> QED BY <1>1, <1>2

-----------------------------------------------------------------------------
(* Where the parts of a snapshot lie *)

\* c goes on where a ends.
Extends(c, a) == Len(a) <= Len(c) /\ \A p \in 1..Len(a) : c[p] = a[p]

\* c is b behind a.
Joins(S, a, b, c) ==
    /\ c \in Seq(S) /\ Len(c) = Len(a) + Len(b) /\ Extends(c, a)
    /\ \A p \in 1..Len(b) : c[Len(a) + p] = b[p]

\* What is written behind something is found behind it.
LEMMA Joined ==
    ASSUME NEW S, NEW a \in Seq(S), NEW b \in Seq(S)
    PROVE  \E c \in Seq(S) : c = a \o b /\ Joins(S, a, b, c)
<1>1. Len(a) \in Nat /\ Len(b) \in Nat
  BY LenProperties
<1>2. /\ a \o b \in Seq(S) /\ Len(a \o b) = Len(a) + Len(b)
      /\ \A i \in 1..(Len(a) + Len(b)) :
            (a \o b)[i] = IF i <= Len(a) THEN a[i] ELSE b[i - Len(a)]
  BY ConcatProperties
<1>3. PICK c : c = a \o b
  OBVIOUS
<1>4. ASSUME NEW p \in 1..Len(a) PROVE c[p] = a[p]
  <2>1. p \in 1..(Len(a) + Len(b)) /\ p <= Len(a)
    BY <1>1
  <2> QED BY <1>2, <1>3, <2>1
<1>5. ASSUME NEW p \in 1..Len(b) PROVE c[Len(a) + p] = b[p]
  <2>1. /\ Len(a) + p \in 1..(Len(a) + Len(b)) /\ ~(Len(a) + p <= Len(a))
        /\ (Len(a) + p) - Len(a) = p
    BY <1>1
  <2> QED BY <1>2, <1>3, <2>1
<1>6. Len(a) <= Len(c)
  BY <1>1, <1>2, <1>3
<1>7. Extends(c, a)
  BY <1>4, <1>6 DEF Extends
<1>8. c \in Seq(S) /\ Len(c) = Len(a) + Len(b)
  BY <1>2, <1>3
<1>9. Joins(S, a, b, c)
  BY <1>5, <1>7, <1>8 DEF Joins
<1> QED BY <1>3, <1>8, <1>9

\* Writing on and on keeps what was written first.
LEMMA ExtendsOn ==
    ASSUME NEW S, NEW a \in Seq(S), NEW R, NEW b \in Seq(R), NEW c, Extends(b, a), Extends(c, b)
    PROVE  Extends(c, a)
<1>1. Len(a) \in Nat /\ Len(a) <= Len(b) /\ Len(b) <= Len(c)
  BY LenProperties DEF Extends
<1>2. ASSUME NEW p \in 1..Len(a) PROVE c[p] = a[p]
  <2>1. p \in 1..Len(b)
    BY <1>1
  <2> QED BY <2>1 DEF Extends
<1>3. Len(a) <= Len(c)
  BY <1>1
<1> QED BY <1>2, <1>3 DEF Extends

\* The cells of a header in front of its checksum, and all of them.
BeforeCrc == 4 + W32 + 3 * W64
HeaderCells == BeforeCrc + W32

\* The part of f behind the first n cells is s.
Holds(f, n, s) == \A k \in 1..Len(s) : f[n + k] = s[k]

\* What every header holds: the magic, and the type behind its length.
FixedParts(f) ==
    /\ Holds(f, 0, Byte(MAGIC))
    /\ Holds(f, 1 + W32, LE(Len(INDEX_TYPE), W64))
    /\ Holds(f, 1 + W32 + W64, INDEX_TYPE)

\* The tag of the metric behind the dimension.
MetricHeld(f, metric) == Holds(f, 3 + W32 + 2 * W64, Byte(metric))

\* What write_snapshot wrote: a header, and the region it sums.
FileParts(f, version, dim, n, region) ==
    /\ f \in Seq(Cells) /\ Len(f) = HeaderCells + Len(region)
    /\ Holds(f, 1, LE(version, W32))
    /\ Holds(f, 3 + W32 + W64, LE(dim, W64))
    /\ Holds(f, 4 + W32 + 2 * W64, LE(n, W64))
    /\ Holds(f, BeforeCrc, Crc(region))
    /\ Holds(f, HeaderCells, region)
    /\ \A p \in 1..BeforeCrc : f[p] \in Digits
    /\ FixedParts(f)

\* What is written behind a is found behind a, whatever follows.
LEMMA HeldBehind ==
    ASSUME NEW S, NEW a \in Seq(S), NEW b \in Seq(S), NEW c, Joins(S, a, b, c),
           NEW f, Extends(f, c)
    PROVE  Holds(f, Len(a), b)
<1> SUFFICES ASSUME NEW k \in 1..Len(b) PROVE f[Len(a) + k] = b[k]
  BY DEF Holds
<1>1. Len(a) \in Nat /\ Len(b) \in Nat /\ Len(c) = Len(a) + Len(b)
  BY LenProperties DEF Joins
<1>2. c[Len(a) + k] = b[k]
  BY DEF Joins
<1>3. Len(a) + k \in 1..Len(c)
  BY <1>1
<1> QED BY <1>2, <1>3 DEF Extends

\* A checksum has the length of a u32.
LEMMA CrcTyped ==
    ASSUME NEW s \in Seq(Plain)
    PROVE  Crc(s) \in Seq(Cells) /\ Len(Crc(s)) = W32
<1>1. W32 \in Nat /\ <<0>> \in Cells
  BY WidthAssumption DEF Cells, Plain, Digits
<1>2. \A i \in 1..W32 : <<Base, i, s>> \in Cells
  BY DEF Cells, Checksums
<1>3. Crc(s) \in [1..W32 -> Cells]
  BY <1>1, <1>2 DEF Crc
<1> QED BY <1>1, <1>3

\* Where the fields of a snapshot are: write_header and the region behind it.
LEMMA FileHolds ==
    ASSUME NEW version \in Nat, NEW dim \in Nat, NEW metric \in MetricTags,
           NEW rows, Len(rows) \in Nat, NEW region \in Seq(Plain),
           NEW ix, ix = [dim |-> dim, metric |-> metric, rows |-> rows]
    PROVE  /\ FileParts(File(ix, version, region), version, dim, Len(rows), region)
           /\ MetricHeld(File(ix, version, region), metric)
<1>1. PICK w \in Nat, ww \in Nat : w = W32 /\ ww = W64 /\ ww = 2 * w
  BY WidthAssumption
<1>2. PICK a0 \in Seq(Digits) : a0 = Byte(MAGIC) /\ Len(a0) = 1
  <2>1. MAGIC \in 0..(Base - 1)
    BY WidthAssumption, TagAssumption DEF MAGIC, WAL_MAGIC
  <2> QED BY <2>1, ByteRead
<1>3. PICK a1 \in Seq(Digits) : a1 = LE(version, W32) /\ Len(a1) = w
  BY <1>1, LETyped
<1>4. PICK a3 \in Seq(Digits) : a3 = INDEX_TYPE /\ Len(a3) = 2
  <2>1. <<22>> \in Digits /\ <<5>> \in Digits
    <3>1. 22 \in 0..(Base - 1) /\ 5 \in 0..(Base - 1)
      BY WidthAssumption, TagAssumption DEF WAL_MAGIC
    <3> QED BY <3>1 DEF Digits
  <2>2. INDEX_TYPE \in Seq(Digits) /\ Len(INDEX_TYPE) = 2
    BY <2>1 DEF INDEX_TYPE
  <2> QED BY <2>2
<1>5. PICK a2 \in Seq(Digits) : a2 = LE(Len(INDEX_TYPE), W64) /\ Len(a2) = ww
  <2>1. Len(INDEX_TYPE) \in Nat /\ W64 \in Nat /\ W64 = ww
    BY <1>1, <1>4
  <2>2. LE(Len(INDEX_TYPE), W64) \in Seq(Digits) /\ Len(LE(Len(INDEX_TYPE), W64)) = W64
    BY <2>1, LETyped, Zenon
  <2> QED BY <2>1, <2>2, Zenon
<1>6. PICK a4 \in Seq(Digits) : a4 = LE(dim, W64) /\ Len(a4) = ww
  BY <1>1, LETyped
<1>7. PICK a5 \in Seq(Digits) : a5 = Byte(metric) /\ Len(a5) = 1
  <2>1. metric \in 0..(Base - 1)
    BY WidthAssumption, TagAssumption DEF MetricTags, WAL_MAGIC
  <2> QED BY <2>1, ByteRead
<1>8. PICK a6 \in Seq(Digits) : a6 = LE(Len(rows), W64) /\ Len(a6) = ww
  BY <1>1, LETyped
<1>9. PICK a7 \in Seq(Cells) : a7 = Crc(region) /\ Len(a7) = w
  BY <1>1, CrcTyped
<1>10. PICK a8 \in Seq(Cells) : a8 = region
  BY SeqMonotonic DEF Cells
<1>11. PICK b1 \in Seq(Digits) : b1 = a0 \o a1 /\ Joins(Digits, a0, a1, b1)
  BY Joined, Zenon
<1>12. PICK b2 \in Seq(Digits) : b2 = b1 \o a2 /\ Joins(Digits, b1, a2, b2)
  BY Joined, Zenon
<1>13. PICK b3 \in Seq(Digits) : b3 = b2 \o a3 /\ Joins(Digits, b2, a3, b3)
  BY Joined, Zenon
<1>14. PICK b4 \in Seq(Digits) : b4 = b3 \o a4 /\ Joins(Digits, b3, a4, b4)
  BY Joined, Zenon
<1>15. PICK b5 \in Seq(Digits) : b5 = b4 \o a5 /\ Joins(Digits, b4, a5, b5)
  BY Joined, Zenon
<1>16. PICK b6 \in Seq(Digits) : b6 = b5 \o a6 /\ Joins(Digits, b5, a6, b6)
  BY Joined, Zenon
<1>17. PICK b7 \in Seq(Cells) : b7 = b6 \o a7 /\ Joins(Cells, b6, a7, b7)
  <2>1. b6 \in Seq(Cells)
    BY SeqMonotonic DEF Cells, Plain
  <2> QED BY <2>1, Joined, Zenon
<1>18. PICK f \in Seq(Cells) : f = b7 \o a8 /\ Joins(Cells, b7, a8, f)
  BY Joined, Zenon
<1>19. File(ix, version, region) = f
  BY <1>2, <1>3, <1>4, <1>5, <1>6, <1>7, <1>8, <1>9, <1>10, <1>11, <1>12, <1>13,
     <1>14, <1>15, <1>16, <1>17, <1>18 DEF File, WriteHeader
<1>20. /\ Len(b1) = 1 + w /\ Len(b2) = 1 + w + ww /\ Len(b3) = 3 + w + ww
       /\ Len(b4) = 3 + w + 2 * ww
  BY <1>1, <1>2, <1>3, <1>4, <1>5, <1>6, <1>11, <1>12, <1>13, <1>14 DEF Joins
<1>21. /\ Len(b5) = 4 + w + 2 * ww /\ Len(b6) = 4 + w + 3 * ww
       /\ Len(b7) = 4 + 2 * w + 3 * ww /\ Len(f) = 4 + 2 * w + 3 * ww + Len(a8)
  BY <1>1, <1>7, <1>8, <1>9, <1>15, <1>16, <1>17, <1>18, <1>20 DEF Joins
<1>22. /\ Extends(f, b6) /\ Extends(f, b5) /\ Extends(f, b4) /\ Extends(f, b3)
       /\ Extends(f, b2) /\ Extends(f, b1)
  <2>1. /\ Extends(b2, b1) /\ Extends(b3, b2) /\ Extends(b4, b3) /\ Extends(b5, b4)
        /\ Extends(b6, b5) /\ Extends(b7, b6) /\ Extends(f, b7)
    BY <1>12, <1>13, <1>14, <1>15, <1>16, <1>17, <1>18 DEF Joins
  <2>2. Extends(f, b6)
    BY <2>1, ExtendsOn, Zenon
  <2>3. Extends(f, b5)
    BY <2>1, <2>2, ExtendsOn, Zenon
  <2>4. Extends(f, b4)
    BY <2>1, <2>3, ExtendsOn, Zenon
  <2>5. Extends(f, b3)
    BY <2>1, <2>4, ExtendsOn, Zenon
  <2>6. Extends(f, b2)
    BY <2>1, <2>5, ExtendsOn, Zenon
  <2>7. Extends(f, b1)
    BY <2>1, <2>6, ExtendsOn, Zenon
  <2> QED BY <2>2, <2>3, <2>4, <2>5, <2>6, <2>7
<1>23. Holds(f, 1, a1)
  <2>1. ASSUME NEW k \in 1..Len(a1) PROVE f[1 + k] = a1[k]
    <3>1. b1[1 + k] = a1[k]
      BY <1>2, <1>11 DEF Joins
    <3>2. 1 + k \in 1..Len(b1)
      BY <1>1, <1>3, <1>20
    <3> QED BY <1>22, <3>1, <3>2 DEF Extends
  <2> QED BY <2>1 DEF Holds
<1>24. Holds(f, 3 + w + ww, a4)
  <2>1. ASSUME NEW k \in 1..Len(a4) PROVE f[(3 + w + ww) + k] = a4[k]
    <3>1. b4[(3 + w + ww) + k] = a4[k]
      BY <1>14, <1>20 DEF Joins
    <3>2. (3 + w + ww) + k \in 1..Len(b4)
      BY <1>1, <1>6, <1>20
    <3> QED BY <1>22, <3>1, <3>2 DEF Extends
  <2> QED BY <2>1 DEF Holds
<1>25. Holds(f, 4 + w + 2 * ww, a6)
  <2>1. ASSUME NEW k \in 1..Len(a6) PROVE f[(4 + w + 2 * ww) + k] = a6[k]
    <3>1. b6[(4 + w + 2 * ww) + k] = a6[k]
      BY <1>16, <1>21 DEF Joins
    <3>2. (4 + w + 2 * ww) + k \in 1..Len(b6)
      BY <1>1, <1>8, <1>21
    <3> QED BY <1>22, <3>1, <3>2 DEF Extends
  <2> QED BY <2>1 DEF Holds
<1>26. Holds(f, 4 + w + 3 * ww, a7)
  <2>1. ASSUME NEW k \in 1..Len(a7) PROVE f[(4 + w + 3 * ww) + k] = a7[k]
    <3>1. b7[(4 + w + 3 * ww) + k] = a7[k]
      BY <1>17, <1>21 DEF Joins
    <3>2. (4 + w + 3 * ww) + k \in 1..Len(b7)
      BY <1>1, <1>9, <1>21
    <3> QED BY <1>18, <3>1, <3>2 DEF Extends, Joins
  <2> QED BY <2>1 DEF Holds
<1>27. Holds(f, 4 + 2 * w + 3 * ww, a8)
  BY <1>18, <1>21 DEF Joins, Holds
<1>28. \A p \in 1..(4 + w + 3 * ww) : f[p] \in Digits
  <2> TAKE p \in 1..(4 + w + 3 * ww)
  <2>1. b6[p] \in Digits
    BY <1>21, ElementOfSeq
  <2> QED BY <1>21, <1>22, <2>1 DEF Extends
<1>29. BeforeCrc = 4 + w + 3 * ww /\ HeaderCells = 4 + 2 * w + 3 * ww
  BY <1>1 DEF BeforeCrc, HeaderCells
<1>30. /\ f \in Seq(Cells) /\ Len(f) = HeaderCells + Len(region)
       /\ \A p \in 1..BeforeCrc : f[p] \in Digits
  BY <1>10, <1>21, <1>28, <1>29
<1>31. /\ Holds(f, 1, LE(version, W32)) /\ Holds(f, 3 + W32 + W64, LE(dim, W64))
       /\ Holds(f, 4 + W32 + 2 * W64, LE(Len(rows), W64))
  BY <1>1, <1>3, <1>6, <1>8, <1>23, <1>24, <1>25
<1>32. Holds(f, BeforeCrc, Crc(region)) /\ Holds(f, HeaderCells, region)
  BY <1>9, <1>10, <1>26, <1>27, <1>29
<1>33. FixedParts(f) /\ MetricHeld(f, metric)
  <2>1. Holds(f, Len(b1), a2) /\ Holds(f, Len(b2), a3) /\ Holds(f, Len(b4), a5)
    BY <1>12, <1>13, <1>15, <1>22, HeldBehind, Zenon
  <2>2. Holds(f, 0, a0)
    <3>1. Extends(b1, a0) /\ Extends(f, b1)
      BY <1>11, <1>22 DEF Joins
    <3>2. Extends(f, a0)
      BY <3>1, ExtendsOn, Zenon
    <3> QED BY <1>2, <3>2 DEF Extends, Holds
  <2> QED BY <1>1, <1>2, <1>4, <1>5, <1>7, <1>20, <2>1, <2>2 DEF FixedParts, MetricHeld
<1> QED BY <1>19, <1>30, <1>31, <1>32, <1>33 DEF FileParts

-----------------------------------------------------------------------------
(* Reading a header *)

\* s is what f holds behind its first n cells.
Part(f, n, s) == s \in Seq(Cells) /\ n + Len(s) <= Len(f) /\ Holds(f, n, s)

\* The cells a header was read from, with a type tag of t cells.
HeaderFields(f, h, t) ==
    /\ h.header.version \in {1, 2} /\ Len(h.header.index_type) = t
    /\ \E v : Part(f, 1, v) /\ Len(v) = W32 /\ h.header.version = Num(v)
    /\ \E d : Part(f, 1 + W32 + W64 + t, d) /\ Len(d) = W64 /\ h.header.dim = Num(d)
    /\ \E n : Part(f, 2 + W32 + 2 * W64 + t, n) /\ Len(n) = W64 /\ h.header.n_vectors = Num(n)
    /\ Part(f, 2 + W32 + 3 * W64 + t, h.header.crc32) /\ Len(h.header.crc32) = W32
    /\ Part(f, 2 + 2 * W32 + 3 * W64 + t, h.rest)
    /\ Len(h.rest) = Len(f) - (2 + 2 * W32 + 3 * W64 + t)

\* A cursor that stands behind the first p cells of f.
Stands(f, p, c) ==
    /\ c.rest \in Seq(Cells) /\ Len(c.rest) = Len(f) - p
    /\ \A k \in 1..(Len(f) - p) : c.rest[k] = f[p + k]

\* A reader that has read on stands further on.
LEMMA StandsOn ==
    ASSUME NEW f \in Seq(Cells), NEW p \in Nat, NEW c, Stands(f, p, c),
           NEW n \in Nat, Take(c, n).ok
    PROVE  /\ c.ok
           /\ Stands(f, p + n, Take(c, n))
           /\ Part(f, p, Take(c, n).val) /\ Len(Take(c, n).val) = n
<1>1. PICK d : d = Take(c, n)
  OBVIOUS
<1>2. c.rest \in Seq(Cells) /\ Len(f) \in Nat /\ Len(c.rest) = Len(f) - p
  BY LenProperties DEF Stands
<1>3. Found(Cells, c, n, d)
  BY <1>1, <1>2, TakeFound
<1>4. c.ok /\ n <= Len(f) - p /\ d.rest \in Seq(Cells) /\ Len(d.rest) = Len(f) - (p + n)
      /\ d.val \in Seq(Cells) /\ Len(d.val) = n
  BY <1>2, <1>3 DEF Found
<1>5. ASSUME NEW k \in 1..(Len(f) - (p + n)) PROVE d.rest[k] = f[(p + n) + k]
  <2>1. k \in 1..(Len(c.rest) - n) /\ n + k \in 1..(Len(f) - p) /\ p + (n + k) = (p + n) + k
    BY <1>2, <1>4
  <2>2. d.rest[k] = c.rest[n + k]
    BY <1>3, <2>1 DEF Found
  <2>3. c.rest[n + k] = f[p + (n + k)]
    BY <2>1 DEF Stands
  <2> QED BY <2>1, <2>2, <2>3
<1>6. ASSUME NEW k \in 1..n PROVE d.val[k] = f[p + k]
  <2>1. k \in 1..(Len(f) - p)
    BY <1>2, <1>4
  <2>2. d.val[k] = c.rest[k]
    BY <1>3 DEF Found
  <2> QED BY <2>1, <2>2 DEF Stands
<1>7. Stands(f, p + n, d)
  BY <1>4, <1>5 DEF Stands
<1>8. Part(f, p, d.val)
  BY <1>2, <1>4, <1>6 DEF Part, Holds
<1> QED BY <1>1, <1>4, <1>7, <1>8

\* A cursor that stands behind the first p cells.
Ready(f, p, c) == c.ok = TRUE /\ Stands(f, p, c)

\* The n cells behind those are s.
Follow(f, p, s, n) == Len(s) = n /\ p + n <= Len(f) /\ Holds(f, p, s)

\* What a cursor reads is what the cells there hold.
LEMMA TakeHeld ==
    ASSUME NEW f \in Seq(Cells), NEW p \in Nat, NEW c, Ready(f, p, c),
           NEW s \in Seq(Cells), NEW n \in Nat, Follow(f, p, s, n)
    PROVE  Take(c, n).val = s /\ Ready(f, p + n, Take(c, n))
<1>1. PICK d : d = Take(c, n)
  OBVIOUS
<1>2. n <= Len(c.rest) /\ c.ok = TRUE /\ Stands(f, p, c)
  <2>1. Len(f) \in Nat
    BY LenProperties
  <2> QED BY <2>1 DEF Ready, Stands, Follow
<1>3. d.ok = TRUE
  BY <1>1, <1>2, TakeThere
<1>4. Stands(f, p + n, d) /\ Part(f, p, d.val) /\ Len(d.val) = n
  <2>1. Take(c, n).ok
    BY <1>1, <1>3
  <2>2. Stands(f, p + n, Take(c, n)) /\ Part(f, p, Take(c, n).val) /\ Len(Take(c, n).val) = n
    BY <1>2, <2>1, StandsOn
  <2> QED BY <1>1, <2>2
<1>5. d.val \in Seq(Cells) /\ \A k \in 1..n : f[p + k] = d.val[k]
  BY <1>4 DEF Part, Holds
<1>6. \A k \in 1..n : d.val[k] = s[k]
  BY <1>5 DEF Holds, Follow
<1>7. d.val = s
  BY <1>4, <1>5, <1>6, SeqEqual DEF Follow
<1> QED BY <1>1, <1>3, <1>4, <1>7 DEF Ready

\* A header that read_header accepts has its fields in the file, at places
\* that depend only on the length it gives the type.
LEMMA HeaderRead ==
    ASSUME NEW f \in Seq(Cells), ReadHeader(f).err = "Ok"
    PROVE  \E t \in Nat : HeaderFields(f, ReadHeader(f), t)
<1> DEFINE c == Cursor(f)
           magic == Take(c, 1)
           version == Take(magic, W32)
           len == Take(version, W64)
           t == Num(len.val)
           type == Take(len, t)
           dim == Take(type, W64)
           metric == Take(dim, 1)
           n == Take(metric, W64)
           crc == Take(n, W32)
<1> DEFINE checks ==
           << <<~magic.ok, "TruncatedHeader">>,
              <<Num(magic.val) # MAGIC, "BadMagic">>,
              <<~version.ok, "TruncatedHeader">>,
              <<Num(version.val) \notin MIN_SUPPORTED_VERSION..CURRENT_VERSION,
                "UnsupportedVersion">>,
              <<~len.ok, "TruncatedHeader">>,
              <<~FitsUsize(t), "InvalidPayload">>,
              <<t > MaxIndexTypeLen, "InvalidPayload">>,
              <<~type.ok, "TruncatedHeader">>,
              <<~Utf8(type.val), "InvalidPayload">>,
              <<~dim.ok, "TruncatedHeader">>,
              <<~FitsUsize(Num(dim.val)), "InvalidPayload">>,
              <<~metric.ok, "TruncatedHeader">>,
              <<Num(metric.val) \notin MetricTags, "InvalidMetric">>,
              <<~n.ok, "TruncatedHeader">>,
              <<~FitsUsize(Num(n.val)), "InvalidPayload">>,
              <<~crc.ok, "TruncatedHeader">> >>
<1>11. ReadHeader(f) = [err    |-> FirstError(checks),
                         header |-> [version |-> Num(version.val), index_type |-> type.val,
                                     dim |-> Num(dim.val), metric |-> Num(metric.val),
                                     n_vectors |-> Num(n.val), crc32 |-> crc.val],
                         rest   |-> crc.rest]
  BY Zenon DEF ReadHeader
<1>1. c = Cursor(f)
  OBVIOUS
<1>2. magic = Take(c, 1)
  OBVIOUS
<1>3. version = Take(magic, W32)
  OBVIOUS
<1>4. len = Take(version, W64)
  OBVIOUS
<1>5. t = Num(len.val)
  OBVIOUS
<1>6. type = Take(len, t)
  OBVIOUS
<1>7. dim = Take(type, W64)
  OBVIOUS
<1>8. metric = Take(dim, 1)
  OBVIOUS
<1>9. n = Take(metric, W64)
  OBVIOUS
<1>10. crc = Take(n, W32)
  OBVIOUS
<1> HIDE DEF checks, c, magic, version, len, t, type, dim, metric, n, crc
<1>12. /\ FirstError(checks) = "Ok"
       /\ ReadHeader(f).header = [version |-> Num(version.val), index_type |-> type.val,
                     dim |-> Num(dim.val), metric |-> Num(metric.val),
                     n_vectors |-> Num(n.val), crc32 |-> crc.val]
       /\ ReadHeader(f).rest = crc.rest
  BY <1>11
<1>13. crc.ok /\ Num(version.val) \in {1, 2}
  <2>1. DOMAIN checks = 1..16
    BY DEF checks
  <2>2. \A i \in 1..16 : checks[i][1] => checks[i][2] # "Ok"
    BY DEF checks
  <2>3. \A i \in 1..16 : ~checks[i][1]
    BY <1>12, <2>1, <2>2, FirstErrorOk
  <2>4. ~checks[4][1] /\ ~checks[16][1]
    BY <2>3
  <2>5. crc.ok
    BY <2>4 DEF checks
  <2>6. Num(version.val) \in MIN_SUPPORTED_VERSION..CURRENT_VERSION
    BY <2>4 DEF checks
  <2> QED BY <2>5, <2>6 DEF MIN_SUPPORTED_VERSION, CURRENT_VERSION
<1>14. W32 \in Nat /\ W64 \in Nat /\ W64 = 2 * W32
  BY WidthAssumption
<1>15. n.ok /\ metric.ok /\ dim.ok /\ type.ok /\ len.ok /\ version.ok /\ magic.ok
  BY <1>3, <1>4, <1>6, <1>7, <1>8, <1>9, <1>10, <1>13, TakeOk
<1>16. Stands(f, 0, c)
  BY <1>1, LenProperties, ElementOfSeq DEF Stands, Cursor
<1>17. Stands(f, 1, magic)
  <2>1. Stands(f, 0 + 1, magic)
    BY <1>2, <1>15, <1>16, StandsOn
  <2> QED BY <2>1
<1>18. PICK p1 \in Nat : p1 = 1 + W32 /\ Stands(f, p1, version)
                         /\ Part(f, 1, version.val) /\ Len(version.val) = W32
  <2>1. PICK p1 \in Nat : p1 = 1 + W32
    BY <1>14
  <2> QED BY <1>3, <1>14, <1>15, <1>17, <2>1, StandsOn
<1>19. PICK p2 \in Nat : p2 = p1 + W64 /\ Stands(f, p2, len) /\ Part(f, p1, len.val)
  <2>1. PICK p2 \in Nat : p2 = p1 + W64
    BY <1>14
  <2> QED BY <1>4, <1>14, <1>15, <1>18, <2>1, StandsOn
<1>20. t \in Nat
  BY <1>5, <1>19, NumTyped DEF Part
<1>21. PICK p3 \in Nat : p3 = p2 + t /\ Stands(f, p3, type) /\ Len(type.val) = t
  <2>1. PICK p3 \in Nat : p3 = p2 + t
    BY <1>20
  <2> QED BY <1>6, <1>20, <1>15, <1>19, <2>1, StandsOn
<1>22. PICK p4 \in Nat : p4 = p3 + W64 /\ Stands(f, p4, dim)
                         /\ Part(f, p3, dim.val) /\ Len(dim.val) = W64
  <2>1. PICK p4 \in Nat : p4 = p3 + W64
    BY <1>14
  <2>2. Take(type, W64).ok /\ W64 \in Nat
    BY <1>7, <1>14, <1>15
  <2>3. /\ Stands(f, p3 + W64, Take(type, W64)) /\ Part(f, p3, Take(type, W64).val)
        /\ Len(Take(type, W64).val) = W64
    BY <1>21, <2>2, StandsOn
  <2> QED BY <1>7, <2>1, <2>3
<1>23. PICK p5 \in Nat : p5 = p4 + 1 /\ Stands(f, p5, metric)
  <2>1. PICK p5 \in Nat : p5 = p4 + 1
    OBVIOUS
  <2> QED BY <1>8, <1>15, <1>22, <2>1, StandsOn
<1>24. PICK p6 \in Nat : p6 = p5 + W64 /\ Stands(f, p6, n)
                         /\ Part(f, p5, n.val) /\ Len(n.val) = W64
  <2>1. PICK p6 \in Nat : p6 = p5 + W64
    BY <1>14
  <2>2. Take(metric, W64).ok /\ W64 \in Nat
    BY <1>9, <1>14, <1>15
  <2>3. /\ Stands(f, p5 + W64, Take(metric, W64)) /\ Part(f, p5, Take(metric, W64).val)
        /\ Len(Take(metric, W64).val) = W64
    BY <1>23, <2>2, StandsOn
  <2> QED BY <1>9, <2>1, <2>3
<1>25. PICK p7 \in Nat : p7 = p6 + W32 /\ Stands(f, p7, crc)
                         /\ Part(f, p6, crc.val) /\ Len(crc.val) = W32
  <2>1. PICK p7 \in Nat : p7 = p6 + W32
    BY <1>14
  <2> QED BY <1>10, <1>13, <1>14, <1>24, <2>1, StandsOn
<1>26. Part(f, p7, crc.rest) /\ Len(crc.rest) = Len(f) - p7
  <2>1. Len(f) \in Nat /\ crc.rest \in Seq(Cells) /\ Len(crc.rest) = Len(f) - p7
    BY <1>25, LenProperties DEF Stands
  <2>2. p7 + Len(crc.rest) <= Len(f)
    BY <2>1
  <2> QED BY <1>25, <2>1, <2>2 DEF Stands, Part, Holds
<1>27. /\ p3 = 1 + W32 + W64 + t /\ p5 = 2 + W32 + 2 * W64 + t
       /\ p6 = 2 + W32 + 3 * W64 + t /\ p7 = 2 + 2 * W32 + 3 * W64 + t
  BY <1>14, <1>18, <1>19, <1>20, <1>21, <1>22, <1>23, <1>24, <1>25
<1>28. PICK h : h = ReadHeader(f)
  OBVIOUS
<1>29. /\ h.header.version = Num(version.val) /\ h.header.dim = Num(dim.val)
       /\ h.header.n_vectors = Num(n.val) /\ h.header.crc32 = crc.val /\ h.rest = crc.rest
       /\ h.header.index_type = type.val
  BY <1>12, <1>28
<1>30. HeaderFields(f, h, t)
  BY <1>13, <1>18, <1>21, <1>22, <1>24, <1>25, <1>26, <1>27, <1>29 DEF HeaderFields
<1> QED BY <1>20, <1>28, <1>30

\* f is g, or g with one cell changed to a digit, or the beginning of that.
Damaged(f, g) ==
    /\ f \in Seq(Cells) /\ Len(f) <= Len(g)
    /\ \E q \in Nat : \A p \in 1..Len(f) : f[p] = g[p] \/ (p = q /\ f[p] \in Digits)

\* A checksum is nothing that the rest of a snapshot is made of.
LEMMA ChecksumApart ==
    ASSUME NEW k, NEW s
    PROVE  <<Base, k, s>> \notin Plain
<1>1. <<Base, k, s>> \notin Packed
  BY DEF Packed
<1> QED BY <1>1, NoDigit DEF Plain

\* What agrees with a checksum that is not that of nothing is the region the
\* snapshot was written with: no damage makes another one of it.
LEMMA RestIsRegion ==
    ASSUME NEW g, NEW version, NEW dim, NEW n, NEW region \in Seq(Plain),
           FileParts(g, version, dim, n, region),
           NEW f, Damaged(f, g), NEW h, NEW t \in Nat, HeaderFields(f, h, t),
           Intact(h.rest, h.header.crc32), h.rest # <<>>
    PROVE  t = 2 /\ h.rest = region
<1>1. PICK w \in Nat, ww \in Nat : w = W32 /\ ww = W64 /\ ww = 2 * w /\ w # 0
  BY WidthAssumption
<1>2. PICK rest \in Seq(Cells) : rest = h.rest /\ rest # <<>>
  BY DEF HeaderFields, Part
<1>3. PICK p \in Nat, o \in Nat :
        p = o + 1 /\ o = 2 + w + 3 * ww + t /\ p = 2 + w + 3 * ww + t + 1
  OBVIOUS
<1>4. f[p] = <<Base, 1, rest>> /\ p \in 1..Len(f)
  <2>1. PICK crc : crc = h.header.crc32
    OBVIOUS
  <2>2. crc = Crc(rest)
    BY <1>2, <2>1 DEF Intact
  <2>3. 1 \in 1..W32
    BY <1>1
  <2>4. crc[1] = <<Base, 1, rest>>
    BY <1>2, <2>2, <2>3, CrcCells
  <2>5. Part(f, o, crc) /\ Len(crc) = w
    BY <1>1, <1>3, <2>1 DEF HeaderFields
  <2>6. o + w <= Len(f) /\ f[o + 1] = crc[1]
    BY <1>1, <2>5 DEF Part, Holds
  <2>7. Len(f) \in Nat
    BY LenProperties DEF Damaged
  <2>8. p \in 1..Len(f)
    BY <1>1, <1>3, <2>6, <2>7, SMTT(30)
  <2> QED BY <1>3, <2>4, <2>6, <2>8
<1>5. f[p] = g[p] /\ p \in 1..Len(g)
  <2>1. f[p] \notin Digits
    BY <1>4, NoDigit
  <2>2. f[p] = g[p]
    BY <1>4, <2>1 DEF Damaged
  <2>3. Len(f) \in Nat /\ Len(g) \in Nat /\ Len(f) <= Len(g)
    BY LenProperties DEF Damaged, FileParts
  <2> QED BY <1>4, <2>2, <2>3
<1>6. BeforeCrc = 4 + w + 3 * ww /\ HeaderCells = BeforeCrc + w
  BY <1>1 DEF BeforeCrc, HeaderCells
<1>7. PICK b \in Nat, c \in Nat :
        b = BeforeCrc /\ c = HeaderCells /\ b = 4 + w + 3 * ww /\ c = b + w
  BY <1>1, <1>6
<1>8. ~(p <= b)
  <2> SUFFICES ASSUME p <= b PROVE FALSE
    OBVIOUS
  <2>1. p \in 1..BeforeCrc
    BY <1>3, <1>7
  <2>2. g[p] \in Digits
    BY <2>1 DEF FileParts
  <2> QED BY <1>4, <1>5, <2>2, NoDigit
<1>9. ~(p > c)
  <2> SUFFICES ASSUME p > c PROVE FALSE
    OBVIOUS
  <2>1. Len(g) = c + Len(region) /\ Len(region) \in Nat
    BY <1>7, LenProperties DEF FileParts
  <2>2. PICK k \in 1..Len(region) : p = c + k
    <3>1. p - c \in 1..Len(region) /\ p = c + (p - c)
      BY <1>5, <2>1
    <3> QED BY <3>1
  <2>3. g[c + k] = region[k] /\ region[k] \in Plain
    BY <1>7, ElementOfSeq DEF FileParts, Holds
  <2> QED BY <1>4, <1>5, <2>2, <2>3, ChecksumApart
<1>10. PICK k \in 1..w : p = b + k
  <2>1. p - b \in 1..w /\ p = b + (p - b)
    BY <1>7, <1>8, <1>9
  <2> QED BY <2>1
<1>11. g[b + k] = Crc(region)[k]
  <2>1. Len(Crc(region)) = w /\ Holds(g, b, Crc(region))
    BY <1>1, <1>7, CrcTyped DEF FileParts
  <2> QED BY <2>1 DEF Holds
<1>12. region # <<>>
  <2> SUFFICES ASSUME region = <<>> PROVE FALSE
    OBVIOUS
  <2>1. Crc(region)[k] = <<0>>
    BY <1>1 DEF Crc
  <2>2. <<0>> \in Digits
    BY WidthAssumption DEF Digits
  <2> QED BY <1>4, <1>5, <1>10, <1>11, <2>1, <2>2, NoDigit
<1>13. <<Base, k, region>> = <<Base, 1, rest>>
  <2>1. region \in Seq(Cells)
    BY SeqMonotonic DEF Cells
  <2>2. Crc(region)[k] = <<Base, k, region>>
    BY <1>1, <1>12, <2>1, CrcCells
  <2> QED BY <1>4, <1>5, <1>10, <1>11, <2>2
<1>14. k = 1 /\ region = rest
  BY <1>13
<1>15. t = 2
  BY <1>3, <1>7, <1>10, <1>14
<1> QED BY <1>2, <1>14, <1>15

-----------------------------------------------------------------------------
(* The payload of an index *)

\* What was put together comes apart again.
LEMMA Split ==
    ASSUME NEW a \in Seq(Digits), NEW b \in Seq(Digits)
    PROVE  /\ SubSeq(a \o b, 1, Len(a)) = a
           /\ SubSeq(a \o b, Len(a) + 1, Len(a \o b)) = b
<1>1. PICK s \in Seq(Digits) : s = a \o b /\ Len(s) = Len(a) + Len(b)
  BY Join
<1>2. PICK c : c = Cursor(s)
  OBVIOUS
<1>3. c.rest = s /\ c.ok
  BY <1>2 DEF Cursor
<1>4. Take(c, Len(a)) = Read(a, b)
  <2>1. At(c, a \o b)
    BY <1>1, <1>2 DEF At, Cursor
  <2> QED BY <2>1, TakeNext
<1>5. Len(a) <= Len(s)
  BY <1>1, LenProperties
<1>6. PICK n : n = Len(a)
  OBVIOUS
<1>7. c.ok /\ n <= Len(c.rest)
  BY <1>3, <1>5, <1>6
<1>8. Take(c, n) = [rest |-> SubSeq(c.rest, n + 1, Len(c.rest)),
                    val  |-> SubSeq(c.rest, 1, n), ok |-> TRUE]
  BY <1>7, TakeThere, Zenon
<1>9. SubSeq(c.rest, n + 1, Len(c.rest)) = b /\ SubSeq(c.rest, 1, n) = a
  BY <1>4, <1>6, <1>8 DEF Read
<1> QED BY <1>1, <1>3, <1>6, <1>9

Rows(dim) == [id : Words(W64), vector : [1..dim -> Words(W32)]]

\* A row is saved in as many cells as the rows of its dimension take.
LEMMA RowSaved ==
    ASSUME NEW dim \in Nat, NEW row \in Rows(dim)
    PROVE  /\ RowCells(dim) \in Nat \ {0}
           /\ SaveRow(row) \in [1..RowCells(dim) -> Digits]
           /\ ReadRow(SaveRow(row), dim) = row
<1>1. W32 \in Nat \ {0} /\ W64 \in Nat \ {0}
  BY WidthAssumption
<1>2. PICK a \in Seq(Digits) : a = row.id /\ Len(a) = W64
  <2>1. row.id \in [1..W64 -> Digits]
    BY DEF Rows, Words
  <2> QED BY <1>1, <2>1
<1>3. PICK b \in Seq(Digits) :
        /\ b = Flat(row.vector, W32) /\ Len(b) = dim * W32 /\ dim * W32 \in Nat
        /\ \A j \in 1..dim : Chunk(b, W32, j) = row.vector[j]
  <2>1. row.vector \in [1..dim -> [1..W32 -> Digits]]
    BY DEF Rows, Words
  <2>2. LaidOut(Digits, dim, W32, row.vector, Flat(row.vector, W32))
    BY <1>1, <2>1, FlatDef
  <2> QED BY <2>2 DEF LaidOut
<1>4. PICK s \in Seq(Digits) : s = a \o b /\ Len(s) = Len(a) + Len(b) /\ s = SaveRow(row)
  BY <1>2, <1>3, Join DEF SaveRow
<1>5. RowCells(dim) \in Nat \ {0} /\ Len(s) = RowCells(dim)
  <2>1. PICK m \in Nat : m = dim * W32
    BY <1>3
  <2>2. RowCells(dim) = W64 + m
    BY <2>1 DEF RowCells
  <2> QED BY <1>1, <1>2, <1>3, <1>4, <2>1, <2>2
<1>6. s \in [1..RowCells(dim) -> Digits]
  BY <1>5
<1>7. SubSeq(s, 1, W64) = a /\ SubSeq(s, W64 + 1, Len(s)) = b
  <2>1. SubSeq(a \o b, 1, Len(a)) = a /\ SubSeq(a \o b, Len(a) + 1, Len(a \o b)) = b
    BY Split
  <2> QED BY <1>2, <1>4, <2>1
<1>8. ReadRow(s, dim) = [id |-> a, vector |-> [j \in 1..dim |-> Chunk(b, W32, j)]]
  BY <1>7 DEF ReadRow
<1>9. [j \in 1..dim |-> Chunk(b, W32, j)] = row.vector
  <2>1. row.vector = [j \in 1..dim |-> row.vector[j]]
    BY DEF Rows
  <2> QED BY <1>3, <2>1
<1>10. row = [id |-> row.id, vector |-> row.vector]
  BY DEF Rows
<1> QED BY <1>2, <1>4, <1>5, <1>6, <1>8, <1>9, <1>10

\* The parts of a payload: dimension, number of rows, rows.
PayloadParts(ix, d, n, b) ==
    /\ d = LE(ix.dim, W64) /\ Len(d) = W64
    /\ n = LE(Len(ix.rows), W64) /\ Len(n) = W64
    /\ Len(b) = Len(ix.rows) * RowCells(ix.dim)
    /\ \A i \in 1..Len(ix.rows) : ReadRow(Chunk(b, RowCells(ix.dim), i), ix.dim) = ix.rows[i]
    /\ SaveTo(ix) = (d \o n) \o b

\* save_to writes the dimension, the number of rows, and the rows.
LEMMA PayloadSaved ==
    ASSUME NEW dim \in Nat, NEW ix \in EvenIndexesOf(dim)
    PROVE  /\ \E d, n, b \in Seq(Digits) : PayloadParts(ix, d, n, b)
           /\ SaveTo(ix) \in Seq(Digits)
           /\ Len(SaveTo(ix)) = PayloadCells(dim, Len(ix.rows))
           /\ PayloadCells(dim, Len(ix.rows)) \in Nat
<1>1. ix.dim = dim /\ ix.rows \in Seq(Rows(dim))
  BY DEF EvenIndexesOf, Rows
<1>2. PICK rows \in Seq(Rows(dim)), k \in Nat : rows = ix.rows /\ k = Len(rows)
  BY <1>1, LenProperties
<1>3. PICK w \in Nat \ {0} : w = RowCells(dim)
  <2>1. PICK m \in Nat : m = dim * W32
    BY WidthAssumption
  <2>2. RowCells(dim) = W64 + m
    BY <2>1 DEF RowCells
  <2> QED BY <2>2, WidthAssumption
<1>4. PICK items \in [1..k -> [1..w -> Digits]] :
        /\ items = [i \in DOMAIN rows |-> SaveRow(rows[i])]
        /\ \A i \in 1..k : items[i] = SaveRow(rows[i])
  <2>1. DOMAIN rows = 1..k
    BY <1>2, LenProperties
  <2>3. PICK items : items = [i \in 1..k |-> SaveRow(rows[i])]
    OBVIOUS
  <2>2. \A i \in 1..k : SaveRow(rows[i]) \in [1..w -> Digits]
    <3> TAKE i \in 1..k
    <3>1. rows[i] \in Rows(dim)
      BY <1>2, ElementOfSeq
    <3> QED BY <1>3, <3>1, RowSaved
  <2>4. items \in [1..k -> [1..w -> Digits]] /\ \A i \in 1..k : items[i] = SaveRow(rows[i])
    BY <2>2, <2>3
  <2> QED BY <2>1, <2>3, <2>4
<1>5. PICK b \in Seq(Digits) :
        /\ b = Flat(items, w) /\ Len(b) = k * w /\ k * w \in Nat
        /\ \A i \in 1..k : Chunk(b, w, i) = items[i]
  <2>1. LaidOut(Digits, k, w, items, Flat(items, w))
    BY FlatDef
  <2> QED BY <2>1 DEF LaidOut
<1>6. ASSUME NEW i \in 1..k PROVE ReadRow(Chunk(b, w, i), dim) = rows[i]
  <2>1. rows[i] \in Rows(dim)
    BY <1>2, ElementOfSeq
  <2>2. Chunk(b, w, i) = SaveRow(rows[i])
    BY <1>4, <1>5
  <2> QED BY <2>1, <2>2, RowSaved
<1>7. PICK d \in Seq(Digits) : d = LE(dim, W64) /\ Len(d) = W64
  BY Widths, LETyped
<1>8. PICK n \in Seq(Digits) : n = LE(k, W64) /\ Len(n) = W64
  BY Widths, LETyped
<1>9. PICK dn \in Seq(Digits) : dn = d \o n /\ Len(dn) = Len(d) + Len(n)
  BY Join
<1>10. PICK s \in Seq(Digits) : s = dn \o b /\ Len(s) = Len(dn) + Len(b)
  BY Join
<1>11. SaveTo(ix) = s
  BY <1>1, <1>2, <1>3, <1>4, <1>5, <1>7, <1>8, <1>9, <1>10 DEF SaveTo
<1>12. PayloadParts(ix, d, n, b)
  BY <1>1, <1>2, <1>3, <1>5, <1>6, <1>7, <1>8, <1>9, <1>10, <1>11 DEF PayloadParts
<1>13. Len(s) = PayloadCells(dim, k) /\ PayloadCells(dim, k) \in Nat
  <2>1. PICK m \in Nat : m = k * w
    BY <1>5
  <2>2. PayloadCells(dim, k) = 2 * W64 + m
    BY <1>3, <2>1 DEF PayloadCells
  <2>3. W64 \in Nat
    BY WidthAssumption
  <2> QED BY <1>5, <1>7, <1>8, <1>9, <1>10, <2>1, <2>2, <2>3
<1> QED BY <1>2, <1>11, <1>12, <1>13

\* `as usize' keeps what fits.
LEMMA UsizeKeeps ==
    ASSUME NEW n \in Nat
    PROVE  AsUsize(n) \in Nat /\ (n <= UsizeMax => AsUsize(n) = n)
<1>1. PICK u \in Nat \ {0} : u = UsizeMax + 1
  BY WidthAssumption
<1>2. n % u \in Nat
  BY DivMod
<1>3. ASSUME n < u PROVE n % u = n
  <2>1. (u * 0 + n) % u = n
    BY <1>3, DivModUnique
  <2>2. u * 0 + n = n
    OBVIOUS
  <2> QED BY <2>1, <2>2
<1>4. n <= UsizeMax => n < u
  BY <1>1, WidthAssumption
<1> QED BY <1>1, <1>2, <1>3, <1>4 DEF AsUsize

\* A u64 in the cells of a u64 that fits a usize is read as it was written.
LEMMA UsizeRead ==
    ASSUME NEW n \in Nat, n <= UsizeMax
    PROVE  Num(LE(n, W64)) = n /\ AsUsize(Num(LE(n, W64))) = n
<1>1. PICK p \in Nat : p = Pow[W64]
  BY Widths, PowDef
<1>2. n < p
  BY <1>1, WidthAssumption
<1>3. Num(LE(n, W64)) = n
  BY <1>1, <1>2, Widths, NumLE
<1> QED BY <1>3, UsizeKeeps

\* No more rows than cells.
LEMMA CountFits ==
    ASSUME NEW dim \in Nat, NEW n \in Nat
    PROVE  /\ RowCells(dim) \in Nat /\ PayloadCells(dim, n) \in Nat
           /\ n * RowCells(dim) \in Nat /\ n <= n * RowCells(dim)
           /\ PayloadCells(dim, n) = 2 * W64 + n * RowCells(dim)
           /\ n # 0 => dim + W64 <= n * RowCells(dim)
<1>1. PICK m \in Nat : m = dim * W32
  BY Widths
<1>2. dim <= m
  <2>1. PICK x \in Nat, y \in Nat : x = dim /\ y + 1 = W32
    BY Widths
  <2>2. x * (y + 1) = x * y + x /\ x * y \in Nat
    OBVIOUS
  <2> QED BY <1>1, <2>1, <2>2
<1>3. PICK w \in Nat : w = RowCells(dim) /\ w = W64 + m
  BY <1>1, Widths DEF RowCells
<1>4. w # 0 /\ dim + W64 <= w
  BY <1>2, <1>3, Widths
<1>5. PICK k \in Nat : k = n * w
  OBVIOUS
<1>6. n <= k
  <2>1. PICK y \in Nat : y + 1 = w
    BY <1>4
  <2>2. n * (y + 1) = n * y + n /\ n * y \in Nat
    OBVIOUS
  <2> QED BY <1>5, <2>1, <2>2
<1>7. n # 0 => w <= k
  <2> SUFFICES ASSUME n # 0 PROVE w <= k
    OBVIOUS
  <2>1. PICK y \in Nat : y + 1 = n
    OBVIOUS
  <2>2. (y + 1) * w = y * w + w /\ y * w \in Nat
    OBVIOUS
  <2> QED BY <1>5, <2>1, <2>2
<1>8. n # 0 => dim + W64 <= k
  BY <1>4, <1>7, Widths
<1>9. PayloadCells(dim, n) = 2 * W64 + k
  BY <1>3, <1>5 DEF PayloadCells
<1> QED BY <1>3, <1>5, <1>6, <1>8, <1>9, Widths

\* An index that was saved and loaded has its dimension and its rows.
LEMMA ReloadedRows ==
    ASSUME NEW dim \in Nat, NEW ix \in EvenIndexesOf(dim)
    PROVE  /\ Reloaded(ix) = [dim |-> dim, metric |-> Cosine, rows |-> ix.rows]
           /\ Reloaded(ix) \in EvenIndexesOf(dim)
           /\ ix.metric = Cosine => Reloaded(ix) = ix
<1>1. PICK metric \in MetricTags, rows \in Seq(Rows(dim)) :
        ix = [dim |-> dim, metric |-> metric, rows |-> rows]
  BY DEF EvenIndexesOf, Rows
<1>2. Cosine \in MetricTags
  BY DEF Cosine, MetricTags
<1> QED BY <1>1, <1>2 DEF Reloaded, EvenIndexesOf, Rows

\* load_from (examples/wal_recovery.rs) rebuilds what save_to wrote of every
\* index whose rows have its dimension: all but the metric, which comes back
\* as Cosine whatever it was.
THEOREM LoadFromInverts ==
    ASSUME NEW dim \in Nat, NEW ix \in EvenIndexesOf(dim), FitsMemory(dim, Len(ix.rows))
    PROVE  LoadFrom(SaveTo(ix)) = [err |-> "Ok", ix |-> Reloaded(ix)]
<1>1. ix.dim = dim /\ ix.rows \in Seq(Rows(dim))
  BY DEF EvenIndexesOf, Rows
<1>2. PICK rows \in Seq(Rows(dim)), k \in Nat : rows = ix.rows /\ k = Len(rows)
  BY <1>1, LenProperties
<1>3. PICK d \in Seq(Digits), n \in Seq(Digits), b \in Seq(Digits) : PayloadParts(ix, d, n, b)
  BY PayloadSaved
<1>4. PICK w \in Nat, m \in Nat : w = RowCells(dim) /\ m = k * w /\ k <= m
  BY CountFits
<1>5. /\ d = LE(dim, W64) /\ n = LE(k, W64) /\ Len(d) = W64 /\ Len(n) = W64 /\ Len(b) = m
      /\ \A i \in 1..k : ReadRow(Chunk(b, w, i), dim) = rows[i]
      /\ SaveTo(ix) = (d \o n) \o b
  BY <1>1, <1>2, <1>3, <1>4 DEF PayloadParts
<1>6. k <= UsizeMax /\ dim <= UsizeMax
  <2>1. PayloadCells(dim, k) = 2 * W64 + m
    BY <1>4, CountFits
  <2>2. PICK u \in Nat, x \in Nat : u = UsizeMax /\ x = W64
    BY WidthAssumption, Widths
  <2>3. dim <= u /\ 2 * x + m <= u
    BY <1>1, <1>2, <2>1, <2>2 DEF FitsMemory
  <2> QED BY <1>4, <2>2, <2>3, SMTT(30)
<1>7. AsUsize(Num(d)) = dim /\ AsUsize(Num(n)) = k
  BY <1>5, <1>6, UsizeRead
<1>8. PICK nb \in Seq(Digits) : nb = n \o b
  BY Join
<1>9. SaveTo(ix) = d \o nb
  <2>1. Regroups3(d, n, b)
    BY Regroup3, Zenon
  <2>2. (d \o n) \o b = d \o (n \o b)
    BY <2>1 DEF Regroups3
  <2> QED BY <1>5, <1>8, <2>2
<1>10. PICK c0 : c0 = Cursor(SaveTo(ix))
  OBVIOUS
<1>11. Take(c0, W64) = Read(d, nb)
  <2>1. At(c0, d \o nb)
    BY <1>9, <1>10 DEF At, Cursor
  <2> QED BY <1>5, <2>1, TakeNext
<1>12. PICK c1 : c1 = Read(d, nb)
  OBVIOUS
<1>13. c1.val = d /\ At(c1, n \o b)
  BY <1>8, <1>12, ReadOn
<1>14. Take(c1, W64) = Read(n, b)
  BY <1>5, <1>13, TakeNext
<1>15. PICK c2 : c2 = Read(n, b)
  OBVIOUS
<1>16. c2.val = n /\ At(c2, b \o <<>>)
  <2>1. b \o <<>> = b
    BY JoinEmpty
  <2> QED BY <1>15, <2>1, ReadOn
<1>17. Take(c2, m) = Read(b, <<>>)
  <2>1. <<>> \in Seq(Digits)
    OBVIOUS
  <2> QED BY <1>5, <1>16, <2>1, TakeNext
<1>18. PICK c3 : c3 = Read(b, <<>>)
  OBVIOUS
<1>19. c3.val = b /\ c3.ok
  BY <1>18 DEF Read
<1>20. Take(c0, W64) = c1 /\ Take(c1, W64) = c2 /\ Take(c2, m) = c3
  BY <1>11, <1>12, <1>14, <1>15, <1>17, <1>18
<1> DEFINE checks == << <<~c2.ok, "Io">>,
                        <<TooManyBytes(k * RowSize), "Panic">>,
                        <<k > 0 /\ Take(c2, W64).ok /\ TooManyBytes(dim * W32), "Panic">>,
                        <<~c3.ok, "Io">> >>
<1>21. /\ LoadFrom(SaveTo(ix)) = [err |-> LoadFrom(SaveTo(ix)).err, ix |-> LoadFrom(SaveTo(ix)).ix]
       /\ LoadFrom(SaveTo(ix)).err = FirstError(checks)
       /\ LoadFrom(SaveTo(ix)).ix =
            [dim |-> dim, metric |-> Cosine, rows |-> [i \in 1..k |-> ReadRow(Chunk(b, w, i), dim)]]
  BY <1>4, <1>7, <1>10, <1>13, <1>16, <1>19, <1>20 DEF LoadFrom
<1>22. FirstError(checks) = "Ok"
  <2>1. ~TooManyBytes(k * RowSize) /\ (k # 0 => ~TooManyBytes(dim * W32))
    BY <1>1, <1>2 DEF FitsMemory
  <2>2. c2.ok
    BY <1>16 DEF At
  <2>3. ~checks[1][1] /\ ~checks[2][1] /\ DOMAIN checks = 1..4
    <3>1. ~checks[1][1]
      BY <2>2
    <3>2. ~checks[2][1]
      <4>1. ~TooManyBytes(k * RowSize)
        BY <2>1
      <4> QED BY <4>1
    <3> QED BY <3>1, <3>2
  <2>4. ~checks[3][1]
    <3>1. ~(k > 0 /\ TooManyBytes(dim * W32))
      BY <1>2, <2>1
    <3> QED BY <3>1
  <2>5. ~checks[4][1]
    BY <1>19
  <2> HIDE DEF checks
  <2>6. \A i \in DOMAIN checks : ~checks[i][1]
    BY <2>3, <2>4, <2>5
  <2> QED BY <2>6 DEF FirstError
<1> HIDE DEF checks
<1>23. [i \in 1..k |-> ReadRow(Chunk(b, w, i), dim)] = rows
  <2>1. rows = [i \in 1..k |-> rows[i]]
    BY <1>2, LenProperties
  <2> QED BY <1>5, <2>1
<1>24. Reloaded(ix) = [dim |-> dim, metric |-> Cosine, rows |-> rows]
  BY <1>2, ReloadedRows
<1> QED BY <1>21, <1>22, <1>23, <1>24

\* What load_from made an index of.
LoadFromFields(raw, ix) ==
    /\ \E d : Part(raw, 0, d) /\ Len(d) = W64 /\ ix.dim = AsUsize(Num(d))
    /\ ix.dim \in Nat /\ Len(ix.rows) \in Nat
    /\ 2 * W64 + Len(ix.rows) * RowCells(ix.dim) <= Len(raw)
    /\ ix = [dim |-> ix.dim, metric |-> Cosine, rows |-> ix.rows]
    /\ Len(ix.rows) = 0 => ix.rows = <<>>

\* A payload that load_from accepts is as long as its rows.
LEMMA LoadFromRead ==
    ASSUME NEW raw \in Seq(Cells), LoadFrom(raw).err = "Ok"
    PROVE  LoadFromFields(raw, LoadFrom(raw).ix)
<1>1. PICK c0 : c0 = Cursor(raw)
  OBVIOUS
<1>2. PICK d : d = Take(c0, W64)
  OBVIOUS
<1>3. PICK c : c = Take(d, W64)
  OBVIOUS
<1>4. PICK dim : dim = AsUsize(Num(d.val))
  OBVIOUS
<1>5. PICK n : n = AsUsize(Num(c.val))
  OBVIOUS
<1>6. PICK m : m = n * RowCells(dim)
  OBVIOUS
<1>7. PICK rows : rows = Take(c, m)
  OBVIOUS
<1> DEFINE checks ==
             << <<~c.ok, "Io">>,
                <<TooManyBytes(n * RowSize), "Panic">>,
                <<n > 0 /\ Take(c, W64).ok /\ TooManyBytes(dim * W32), "Panic">>,
                <<~rows.ok, "Io">> >>
<1>8. /\ FirstError(checks) = "Ok"
      /\ LoadFrom(raw).ix =
           [dim |-> dim, metric |-> Cosine,
            rows |-> [i \in 1..(IF rows.ok THEN n ELSE 0) |->
                         ReadRow(Chunk(rows.val, RowCells(dim), i), dim)]]
  BY <1>1, <1>2, <1>3, <1>4, <1>5, <1>6, <1>7 DEF LoadFrom
<1> HIDE DEF checks
<1>9. rows.ok
  <2>1. DOMAIN checks = 1..4
    BY DEF checks
  <2>2. \A i \in 1..4 : checks[i][1] => checks[i][2] # "Ok"
    BY DEF checks
  <2>3. \A i \in 1..4 : ~checks[i][1]
    BY <1>8, <2>1, <2>2, FirstErrorOk
  <2>4. ~checks[4][1]
    BY <2>3
  <2> QED BY <2>4 DEF checks
<1>10. c.ok /\ d.ok
  BY <1>3, <1>7, <1>9, TakeOk
<1>11. Stands(raw, 0, c0)
  BY <1>1, LenProperties, ElementOfSeq DEF Stands, Cursor
<1>12. W64 \in Nat
  BY Widths
<1>13. Stands(raw, W64, d) /\ Part(raw, 0, d.val) /\ Len(d.val) = W64
  <2>1. Stands(raw, 0 + W64, d) /\ Part(raw, 0, d.val) /\ Len(d.val) = W64
    BY <1>2, <1>10, <1>11, <1>12, StandsOn
  <2> QED BY <1>12, <2>1
<1>14. PICK p \in Nat : p = 2 * W64 /\ Stands(raw, p, c) /\ Part(raw, W64, c.val)
  <2>1. PICK p \in Nat : p = W64 + W64 /\ p = 2 * W64
    BY <1>12
  <2>2. Stands(raw, p, c) /\ Part(raw, W64, c.val)
    BY <1>3, <1>10, <1>12, <1>13, <2>1, StandsOn
  <2> QED BY <2>1, <2>2
<1>15. dim \in Nat /\ n \in Nat
  <2>1. Num(d.val) \in Nat /\ Num(c.val) \in Nat
    BY <1>13, <1>14, NumTyped DEF Part
  <2> QED BY <1>4, <1>5, <2>1, UsizeKeeps
<1>16. m \in Nat
  BY <1>6, <1>15, CountFits
<1>17. p + m <= Len(raw)
  <2>1. Part(raw, p, rows.val) /\ Len(rows.val) = m
    BY <1>7, <1>9, <1>14, <1>16, StandsOn
  <2> QED BY <2>1 DEF Part
<1>18. PICK rs : rs = [i \in 1..n |-> ReadRow(Chunk(rows.val, RowCells(dim), i), dim)]
  OBVIOUS
<1>19. Len(rs) = n /\ (n = 0 => rs = <<>>)
  BY <1>15, <1>18
<1>20. PICK ix : ix = LoadFrom(raw).ix
  OBVIOUS
<1>21. ix = [dim |-> dim, metric |-> Cosine, rows |-> rs]
  BY <1>8, <1>9, <1>18, <1>20
<1>22. LoadFromFields(raw, ix)
  BY <1>4, <1>6, <1>13, <1>14, <1>15, <1>17, <1>19, <1>21 DEF LoadFromFields
<1> QED BY <1>20, <1>22

-----------------------------------------------------------------------------
(* The payload region *)

\* A codec makes some number of cells of a payload.
CodecsAreFinite ==
    \A tag \in {SCHEME_ZSTD, SCHEME_LZ4}, raw \in Seq(Digits) : CodecLen(tag, raw) \in Nat

\* Zero is a digit.
LEMMA ZeroTyped ==
    <<0>> \in Digits
BY WidthAssumption DEF Digits

\* What a codec makes begins with the cell that holds what it was given.
LEMMA Deflated ==
    ASSUME CodecsAreFinite, NEW tag \in {SCHEME_ZSTD, SCHEME_LZ4}, NEW raw \in Seq(Digits)
    PROVE  /\ Len(Deflate(tag, raw)) \in Nat \ {0} /\ Deflate(tag, raw)[1] = <<Base + tag, raw>>
           /\ Deflate(tag, raw) \in Seq(Plain)
<1> DEFINE x == <<Base + tag, raw>>
           S == Digits \cup {x}
<1>1. PICK n \in Nat : 1..n = 1..(CodecLen(tag, raw) - 1)
  <2>1. PICK c \in Nat : c = CodecLen(tag, raw)
    BY DEF CodecsAreFinite
  <2>2. CASE c = 0
    <3>1. 1..0 = 1..(c - 1)
      BY <2>2
    <3> QED BY <2>1, <3>1
  <2>3. CASE c # 0
    <3>1. c - 1 \in Nat
      BY <2>3
    <3> QED BY <2>1, <3>1
  <2> QED BY <2>2, <2>3
<1>2. PICK z \in Seq(Digits) : z = [i \in 1..(CodecLen(tag, raw) - 1) |-> <<0>>]
  <2>1. [i \in 1..n |-> <<0>>] \in Seq(Digits)
    BY ZeroTyped
  <2> QED BY <1>1, <2>1
<1>3. PICK h : h = <<x>>
  OBVIOUS
<1>4. h \in Seq(S) /\ Len(h) = 1 /\ h[1] = x
  BY <1>3
<1> HIDE DEF x
<1>5. z \in Seq(S)
  BY SeqMonotonic
<1>6. PICK d \in Seq(S) : d = h \o z /\ Joins(S, h, z, d)
  BY <1>4, <1>5, Joined, Zenon
<1>7. d = Deflate(tag, raw)
  BY <1>2, <1>3, <1>6 DEF Deflate, x
<1>8. Len(d) \in Nat \ {0} /\ d[1] = x
  <2>1. Len(d) = 1 + Len(z) /\ Len(z) \in Nat /\ 1 \in 1..Len(h)
    BY <1>4, <1>6, LenProperties DEF Joins
  <2>2. d[1] = h[1]
    BY <1>6, <2>1 DEF Joins, Extends
  <2> QED BY <1>4, <2>1, <2>2
<1>9. d \in Seq(Plain)
  <2>1. x \in Packed
    <3>1. tag \in Nat
      BY DEF SCHEME_ZSTD, SCHEME_LZ4
    <3> QED BY <3>1 DEF Packed, x
  <2>2. S \subseteq Plain
    BY <2>1 DEF Plain
  <2> HIDE DEF S
  <2> QED BY <2>2, SeqMonotonic
<1> QED BY <1>7, <1>8, <1>9 DEF x

\* The region of a payload: the tag of the scheme, the length of the
\* payload, and what the scheme makes of it.
RegionParts(raw, scheme, tag, len, data) ==
    /\ tag = Byte(SchemeTag(scheme)) /\ SchemeTag(scheme) \in 0..2 /\ Num(tag) = SchemeTag(scheme)
    /\ Len(tag) = 1 /\ tag[1] = <<SchemeTag(scheme)>>
    /\ len = LE(Len(raw), W64) /\ Len(len) = W64
    /\ data = Compress(scheme, raw)
    /\ IF SchemeTag(scheme) = SCHEME_NONE THEN data = raw
       ELSE data # <<>> /\ data[1] = <<Base + SchemeTag(scheme), raw>>
    /\ Region(raw, scheme) = tag \o (len \o data)
    /\ Region(raw, scheme) \in Seq(Plain)

\* Writing is associative for payloads, compressed ones included.
LEMMA RegroupPlain ==
    ASSUME NEW a \in Seq(Plain), NEW b \in Seq(Plain), NEW c \in Seq(Plain)
    PROVE  Regroups3(a, b, c)
BY ConcatAssociative DEF Regroups3

\* write_snapshot writes the region as the tag, the length and the data.
LEMMA RegionWritten ==
    ASSUME CodecsAreFinite, NEW raw \in Seq(Digits), NEW scheme, scheme.kind \in Kinds
    PROVE  \E tag, len \in Seq(Digits), data \in Seq(Plain) :
               RegionParts(raw, scheme, tag, len, data)
<1>1. PICK k \in 0..2 : k = SchemeTag(scheme) /\ (k = 0 <=> scheme.kind = "none")
  <2>1. CASE scheme.kind = "none"
    <3>1. SchemeTag(scheme) = 0
      BY <2>1 DEF SchemeTag, SCHEME_NONE
    <3> QED BY <2>1, <3>1
  <2>2. CASE scheme.kind = "zstd"
    <3>1. SchemeTag(scheme) = 1
      BY <2>2 DEF SchemeTag, SCHEME_ZSTD
    <3> QED BY <2>2, <3>1
  <2>3. CASE scheme.kind = "lz4"
    <3>1. SchemeTag(scheme) = 2
      BY <2>3 DEF SchemeTag, SCHEME_LZ4
    <3> QED BY <2>3, <3>1
  <2> QED BY <2>1, <2>2, <2>3 DEF Kinds
<1>2. PICK tag \in Seq(Digits) : tag = Byte(k) /\ Len(tag) = 1 /\ Num(tag) = k /\ tag[1] = <<k>>
  <2>1. k \in 0..(Base - 1)
    BY WidthAssumption, TagAssumption DEF WAL_MAGIC
  <2> QED BY <2>1, ByteRead
<1>3. PICK len \in Seq(Digits) : len = LE(Len(raw), W64) /\ Len(len) = W64
  BY Widths, LETyped, LenProperties
<1>4. PICK data \in Seq(Plain) :
        /\ data = Compress(scheme, raw)
        /\ k = 0 => data = raw
        /\ k # 0 => data # <<>> /\ data[1] = <<Base + k, raw>>
  <2>1. CASE k = 0
    <3>1. Compress(scheme, raw) = raw
      BY <1>1, <2>1 DEF Compress
    <3>2. raw \in Seq(Plain)
      BY SeqMonotonic DEF Plain
    <3> QED BY <2>1, <3>1, <3>2
  <2>2. CASE k # 0
    <3>1. Compress(scheme, raw) = Deflate(k, raw)
      BY <1>1, <2>2 DEF Compress
    <3>2. PICK d : d = Deflate(k, raw)
      OBVIOUS
    <3>3. k \in {SCHEME_ZSTD, SCHEME_LZ4}
      BY <2>2 DEF SCHEME_ZSTD, SCHEME_LZ4
    <3>4. Len(d) \in Nat \ {0} /\ d[1] = <<Base + k, raw>> /\ d \in Seq(Plain)
      BY <3>2, <3>3, Deflated
    <3>5. d # <<>>
      BY <3>4
    <3> QED BY <2>2, <3>1, <3>2, <3>4, <3>5
  <2> QED BY <2>1, <2>2
<1>5. tag \in Seq(Plain) /\ len \in Seq(Plain)
  BY SeqMonotonic DEF Plain
<1>6. PICK ld \in Seq(Plain) : ld = len \o data
  BY <1>5, ConcatProperties
<1>7. PICK r \in Seq(Plain) : r = tag \o ld
  BY <1>5, ConcatProperties
<1>8. (tag \o len) \o data = tag \o (len \o data)
  <2>1. Regroups3(tag, len, data)
    BY <1>5, RegroupPlain
  <2> QED BY <2>1 DEF Regroups3
<1>9. Region(raw, scheme) = r
  BY <1>1, <1>2, <1>3, <1>4, <1>6, <1>7, <1>8 DEF Region
<1>10. RegionParts(raw, scheme, tag, len, data)
  BY <1>1, <1>2, <1>3, <1>4, <1>6, <1>7, <1>9 DEF RegionParts, SCHEME_NONE
<1> QED BY <1>10

\* The preamble and the codec give back the payload.
LEMMA PayloadInverts ==
    ASSUME CodecsAreFinite, NEW raw \in Seq(Digits), NEW scheme, scheme.kind \in Kinds,
           NEW features
    PROVE  Payload(CURRENT_VERSION, Region(raw, scheme), features).raw = raw
<1>1. PICK a \in Seq(Digits), b \in Seq(Digits), data \in Seq(Plain) :
        RegionParts(raw, scheme, a, b, data)
  BY RegionWritten
<1>2. a \in Seq(Plain) /\ b \in Seq(Plain)
  BY SeqMonotonic DEF Plain
<1>3. PICK region : region = Region(raw, scheme)
  OBVIOUS
<1>4. /\ region = a \o (b \o data) /\ Len(a) = 1 /\ Len(b) = W64
      /\ SchemeTag(scheme) \in 0..2 /\ Num(a) = SchemeTag(scheme)
  BY <1>1, <1>3 DEF RegionParts
<1>5. PICK c0 : c0 = Cursor(region)
  OBVIOUS
<1>6. PICK bd \in Seq(Plain) : bd = b \o data
  BY <1>2, ConcatProperties
<1>7. Take(c0, 1) = Read(a, bd)
  <2>1. At(c0, a \o bd)
    BY <1>4, <1>5, <1>6 DEF At, Cursor
  <2> QED BY <1>2, <1>4, <2>1, TakeNext
<1>8. PICK tag : tag = Read(a, bd)
  OBVIOUS
<1>9. tag.val = a /\ At(tag, b \o data)
  BY <1>6, <1>8, ReadOn
<1>10. Take(tag, W64) = Read(b, data)
  BY <1>2, <1>4, <1>9, TakeNext
<1>11. PICK len : len = Read(b, data)
  OBVIOUS
<1>12. len.rest = data
  BY <1>11 DEF Read
<1>13. PICK d : d = Decompress(SchemeTag(scheme), data, Num(len.val), features)
  OBVIOUS
<1>14. d.raw = raw
  <2>1. CASE SchemeTag(scheme) = SCHEME_NONE
    <3>1. data = raw
      BY <1>1, <2>1 DEF RegionParts
    <3> QED BY <1>13, <2>1, <3>1 DEF Decompress
  <2>2. CASE SchemeTag(scheme) # SCHEME_NONE
    <3>1. data # <<>> /\ data[1] = <<Base + SchemeTag(scheme), raw>>
      BY <1>1, <2>2 DEF RegionParts
    <3>2. Len(data[1]) = 2 /\ data[1][2] = raw
      BY <3>1
    <3>3. Inflate(data) = raw
      BY <3>1, <3>2 DEF Inflate
    <3> QED BY <1>13, <2>2, <3>3 DEF Decompress
  <2> QED BY <2>1, <2>2
<1>15. Take(Cursor(region), 1) = tag /\ Take(tag, W64) = len
  BY <1>5, <1>7, <1>8, <1>10, <1>11
<1>16. Payload(CURRENT_VERSION, region, features).raw = d.raw
  BY <1>4, <1>9, <1>12, <1>13, <1>15 DEF Payload, CURRENT_VERSION
<1> QED BY <1>3, <1>14, <1>16

\* A payload of format 1 that is taken for a region of format 2 loses the
\* cells of a preamble: no codec made any of its cells.
LEMMA DigitsTakenForRegion ==
    ASSUME CodecsAreFinite, NEW region \in Seq(Digits), NEW features,
           Payload(CURRENT_VERSION, region, features).err = "Ok"
    PROVE  /\ Payload(CURRENT_VERSION, region, features).raw \in Seq(Cells)
           /\ Len(Payload(CURRENT_VERSION, region, features).raw) < Len(region)
<1>1. PICK c0 : c0 = Cursor(region)
  OBVIOUS
<1>2. PICK tag : tag = Take(c0, 1)
  OBVIOUS
<1>3. PICK len : len = Take(tag, W64)
  OBVIOUS
<1>4. PICK data : data = Decompress(Num(tag.val), len.rest, Num(len.val), features)
  OBVIOUS
<1> DEFINE checks ==
        << <<~len.ok, "TruncatedPayload">>,
           <<~FitsUsize(Num(len.val)), "InvalidPayload">>,
           <<data.err # "Ok", data.err>> >>
<1>5. /\ FirstError(checks) = "Ok"
      /\ Payload(CURRENT_VERSION, region, features).raw = data.raw
  BY <1>1, <1>2, <1>3, <1>4 DEF Payload, CURRENT_VERSION
<1> HIDE DEF checks
<1>6. len.ok /\ data.err = "Ok"
  <2>1. DOMAIN checks = 1..3
    BY DEF checks
  <2>2. \A i \in 1..3 : checks[i][1] => checks[i][2] # "Ok"
    <3>1. checks[1][2] # "Ok" /\ checks[2][2] # "Ok"
      BY DEF checks
    <3>2. checks[3][1] => checks[3][2] # "Ok"
      BY DEF checks
    <3> QED BY <3>1, <3>2
  <2>3. \A i \in 1..3 : ~checks[i][1]
    BY <1>5, <2>1, <2>2, FirstErrorOk
  <2>4. ~checks[1][1] /\ ~checks[3][1]
    BY <2>3
  <2> QED BY <2>4 DEF checks
<1>7. tag.ok
  BY <1>3, <1>6, TakeOk
<1>8. region \in Seq(Cells) /\ Len(region) \in Nat
  BY SeqMonotonic, LenProperties DEF Cells, Plain
<1>9. Stands(region, 0, c0)
  BY <1>1, <1>8, LenProperties, ElementOfSeq DEF Stands, Cursor
<1>10. Stands(region, 1, tag) /\ Part(region, 0, tag.val)
  <2>1. Stands(region, 0 + 1, tag) /\ Part(region, 0, tag.val)
    BY <1>2, <1>7, <1>8, <1>9, StandsOn
  <2> QED BY <2>1
<1>11. PICK p \in Nat : p = 1 + W64 /\ Stands(region, p, len)
  <2>1. PICK p \in Nat : p = 1 + W64
    BY Widths
  <2>2. Stands(region, p, len)
    BY <1>3, <1>6, <1>8, <1>10, <2>1, Widths, StandsOn
  <2> QED BY <2>1, <2>2
<1>12. PICK rest \in Seq(Cells) :
        /\ rest = len.rest /\ Len(rest) = Len(region) - p
        /\ \A k \in 1..(Len(region) - p) : rest[k] = region[p + k]
  BY <1>11 DEF Stands
<1>13. Len(rest) < Len(region)
  BY <1>8, <1>11, <1>12, LenProperties, Widths
<1>14. PICK t \in Nat : t = Num(tag.val)
  BY <1>10, NumTyped DEF Part
<1>15. t = SCHEME_NONE
  <2> SUFFICES ASSUME t # SCHEME_NONE PROVE FALSE
    OBVIOUS
  <2> DEFINE tests ==
         << <<Num(len.val) > Len(rest) * MaxRatio, "InvalidPayload">>,
            <<t \notin {SCHEME_ZSTD, SCHEME_LZ4}, "InvalidPayload">>,
            <<t \notin Codecs(features), "Unsupported">>,
            <<~Inflates(t, rest), "Compression">>,
            <<Len(Inflate(rest)) # Num(len.val), "Compression">> >>
  <2>1. FirstError(tests) = "Ok"
    BY <1>4, <1>6, <1>12, <1>14 DEF Decompress
  <2> HIDE DEF tests
  <2>1a. ~tests[2][1] /\ ~tests[4][1]
    <3>1. DOMAIN tests = 1..5
      BY DEF tests
    <3>2. \A i \in 1..5 : tests[i][1] => tests[i][2] # "Ok"
      BY DEF tests
    <3>3. \A i \in 1..5 : ~tests[i][1]
      BY <2>1, <3>1, <3>2, FirstErrorOk
    <3> QED BY <3>3
  <2>2. Inflates(t, rest)
    BY <2>1a DEF tests
  <2>2a. t \in {SCHEME_ZSTD, SCHEME_LZ4}
    BY <2>1a DEF tests
  <2>2b. Inflate(rest) = <<>>
    <3>1. \/ rest = <<>>
          \/ rest[1] = region[p + 1] /\ p + 1 \in 1..Len(region)
      <4>1. CASE Len(rest) = 0
        BY <4>1, EmptySeq
      <4>2. CASE Len(rest) # 0
        <5>1. 1 \in 1..(Len(region) - p) /\ p + 1 \in 1..Len(region)
          BY <1>8, <1>11, <1>12, <4>2, LenProperties
        <5> QED BY <1>12, <5>1
      <4> QED BY <4>1, <4>2
    <3>2. rest = <<>> \/ Len(rest[1]) = 1
      <4>1. \A c \in Digits : Len(c) = 1
        BY DEF Digits
      <4> QED BY <3>1, <4>1, ElementOfSeq
    <3> QED BY <3>2 DEF Inflate
  <2>3. PICK x \in Seq(Digits) : x = <<>> /\ rest = Deflate(t, x)
    <3>1. <<>> \in Seq(Digits)
      OBVIOUS
    <3> QED BY <2>2, <2>2b, <3>1 DEF Inflates
  <2>4. Len(rest) \in Nat \ {0} /\ rest[1] = <<Base + t, x>>
    BY <2>2a, <2>3, Deflated
  <2>5. rest[1] = region[p + 1] /\ p + 1 \in 1..Len(region)
    <3>1. 1 \in 1..(Len(region) - p) /\ p + 1 \in 1..Len(region)
      BY <1>8, <1>11, <1>12, <2>4
    <3> QED BY <1>12, <3>1
  <2>6. rest[1] \in Digits
    BY <2>5, ElementOfSeq
  <2> QED BY <2>4, <2>6 DEF Digits
<1>16. data.raw = rest
  BY <1>4, <1>12, <1>14, <1>15 DEF Decompress
<1> QED BY <1>5, <1>12, <1>13, <1>16

\* A digit in front of a number is its lowest one.
LEMMA ShiftedDivision ==
    ASSUME NEW b \in Nat \ {0}, NEW t \in Nat, t < b, NEW n \in Nat, NEW d \in Nat \ {0}
    PROVE  (t + b * n) \div (b * d) = n \div d
<1>1. PICK q \in Nat, r \in Nat : q = n \div d /\ n = d * q + r /\ r < d
  BY DivMod
<1>2. PICK x \in Nat : x = b * r + t /\ x < b * d
  <2>1. PICK e \in Nat : d = (r + 1) + e
    <3>1. d - (r + 1) \in Nat /\ d = (r + 1) + (d - (r + 1))
      BY <1>1
    <3> QED BY <3>1
  <2>2. b * d = b * r + b + b * e /\ b * r \in Nat /\ b * e \in Nat
    <3>1. b * ((r + 1) + e) = b * r + b + b * e
      OBVIOUS
    <3> QED BY <2>1, <3>1
  <2> QED BY <2>2
<1>3. t + b * n = (b * d) * q + x
  <2>1. b * (d * q + r) = (b * d) * q + b * r
    OBVIOUS
  <2>2. (b * d) * q \in Nat /\ b * r \in Nat
    OBVIOUS
  <2> QED BY <1>1, <1>2, <2>1, <2>2
<1>4. PICK y \in Nat \ {0} : y = b * d
  OBVIOUS
<1>5. (y * q + x) \div y = q
  BY <1>2, <1>4, DivModUnique
<1> QED BY <1>1, <1>3, <1>4, <1>5

\* What that makes of the cells of the number: they are one further.
LEMMA TagBeforeNumber ==
    ASSUME NEW w \in Nat \ {0}, NEW tag \in 0..(Base - 1), NEW n \in Nat, n < Pow[w - 1],
           NEW N \in Nat, N = tag + Base * n
    PROVE  /\ N < Pow[w] /\ LE(N, w)[1] = <<tag>>
           /\ \A k \in 1..(w - 1) : LE(N, w)[1 + k] = LE(n, w)[k]
<1>1. PICK b \in Nat \ {0} : b = Base /\ b > 1
  BY WidthAssumption
<1>2. PICK p \in Nat \ {0} : p = Pow[w - 1] /\ Pow[w] = b * p
  <2>1. PICK v \in Nat : v = w - 1 /\ v + 1 = w
    OBVIOUS
  <2>2. Pow[v] \in Nat \ {0} /\ Pow[v + 1] = Base * Pow[v]
    BY <2>1, PowDef
  <2> QED BY <1>1, <2>1, <2>2
<1>3. N < b * p
  <2>1. PICK e \in Nat : p = (n + 1) + e
    <3>1. p - (n + 1) \in Nat /\ p = (n + 1) + (p - (n + 1))
      BY <1>2
    <3> QED BY <3>1
  <2>2. b * ((n + 1) + e) = b * n + b + b * e /\ b * n \in Nat /\ b * e \in Nat
    OBVIOUS
  <2> QED BY <1>1, <2>1, <2>2
<1>4. LE(N, w)[1] = <<tag>>
  <2>1. N \div Pow[0] = N
    BY PowDef
  <2>2. N % b = tag
    <3>1. (b * n + tag) % b = tag
      BY <1>1, DivModUnique
    <3> QED BY <1>1, <3>1
  <2>3. LE(N, w)[1] = <<(N \div Pow[1 - 1]) % Base>>
    BY DEF LE
  <2> QED BY <1>1, <2>1, <2>2, <2>3
<1>5. ASSUME NEW k \in 1..(w - 1) PROVE LE(N, w)[1 + k] = LE(n, w)[k]
  <2>1. PICK j \in Nat : j = k - 1 /\ k = j + 1 /\ (1 + k) - 1 = j + 1
    OBVIOUS
  <2>2. PICK d \in Nat \ {0} : d = Pow[j] /\ Pow[j + 1] = b * d
    BY <1>1, PowDef
  <2>3. N \div (b * d) = n \div d
    <3>1. tag \in Nat /\ tag < b
      BY <1>1
    <3>2. (tag + b * n) \div (b * d) = n \div d
      BY <3>1, ShiftedDivision
    <3> QED BY <1>1, <3>2
  <2>4. 1 + k \in 1..w /\ k \in 1..w
    OBVIOUS
  <2>5. LE(N, w)[1 + k] = <<(N \div Pow[(1 + k) - 1]) % Base>>
    BY <2>4 DEF LE
  <2>6. LE(n, w)[k] = <<(n \div Pow[k - 1]) % Base>>
    BY <2>4 DEF LE
  <2> QED BY <2>1, <2>2, <2>3, <2>5, <2>6
<1> QED BY <1>1, <1>2, <1>3, <1>4, <1>5

\* A region of format 2 that is taken for a payload of format 1: where the
\* dimension would be, it has the tag and the length of the payload, less
\* the highest of its digits.
LEMMA RegionAsPayload ==
    ASSUME CodecsAreFinite, NEW raw \in Seq(Digits), NEW scheme, scheme.kind \in Kinds,
           Len(raw) < Pow[W64 - 1],
           NEW d, Part(Region(raw, scheme), 0, d), Len(d) = W64
    PROVE  Num(d) = SchemeTag(scheme) + Base * Len(raw) /\ SchemeTag(scheme) \in 0..2
<1>1. PICK a \in Seq(Digits), b \in Seq(Digits), data \in Seq(Plain) :
        RegionParts(raw, scheme, a, b, data)
  BY RegionWritten
<1>2. a \in Seq(Plain) /\ b \in Seq(Plain)
  BY SeqMonotonic DEF Plain
<1>3. PICK w \in Nat \ {0} : w = W64
  BY Widths
<1>4. PICK n \in Nat : n = Len(raw) /\ n < Pow[w - 1]
  BY <1>3, LenProperties
<1>5. PICK tag \in 0..2 : tag = SchemeTag(scheme) /\ a[1] = <<tag>> /\ Len(a) = 1
                          /\ b = LE(n, w) /\ Len(b) = w
  BY <1>1, <1>3, <1>4 DEF RegionParts
<1>6. PICK c \in Seq(Plain) : c = b \o data /\ Joins(Plain, b, data, c)
  BY <1>2, Joined, Zenon
<1>7. PICK region \in Seq(Plain) : region = a \o c /\ Joins(Plain, a, c, region)
  BY <1>2, Joined, Zenon
<1>8. region = Region(raw, scheme)
  BY <1>1, <1>6, <1>7 DEF RegionParts
<1>9. region[1] = <<tag>>
  <2>1. 1 \in 1..Len(a) /\ Extends(region, a)
    BY <1>5, <1>7 DEF Joins
  <2> QED BY <1>5, <2>1 DEF Extends
<1>10. ASSUME NEW k \in 1..(w - 1) PROVE region[1 + k] = LE(n, w)[k]
  <2>1. Extends(c, b) /\ Len(c) = w + Len(data) /\ Len(data) \in Nat
    BY <1>5, <1>6, LenProperties DEF Joins
  <2>2. k \in 1..Len(b) /\ k \in 1..Len(c)
    BY <1>5, <2>1
  <2>3. c[k] = b[k]
    BY <2>1, <2>2 DEF Extends
  <2>4. region[Len(a) + k] = c[k]
    BY <1>7, <2>2 DEF Joins
  <2> QED BY <1>5, <2>3, <2>4
<1>11. tag \in 0..(Base - 1)
  BY WidthAssumption, TagAssumption DEF WAL_MAGIC
<1>12. PICK N \in Nat : N = tag + Base * n
  <2>1. Base * n \in Nat
    BY WidthAssumption
  <2>2. tag + Base * n \in Nat
    BY <2>1
  <2> QED BY <2>2
<1>13. /\ N < Pow[w] /\ LE(N, w)[1] = <<tag>>
       /\ \A k \in 1..(w - 1) : LE(N, w)[1 + k] = LE(n, w)[k]
  BY <1>4, <1>11, <1>12, TagBeforeNumber, SMTT(30)
<1>14. PICK l \in Seq(Digits) : l = LE(N, w) /\ Len(l) = w
  BY LETyped
<1>15. ASSUME NEW k \in 1..w PROVE d[k] = l[k]
  <2>1. d[k] = region[k]
    <3>1. region[0 + k] = d[k]
      BY <1>3, <1>8 DEF Part, Holds
    <3> QED BY <3>1
  <2>2. CASE k = 1
    BY <1>9, <1>13, <1>14, <2>1, <2>2
  <2>3. CASE k # 1
    <3>1. PICK j \in 1..(w - 1) : k = 1 + j
      <4>1. k - 1 \in 1..(w - 1) /\ k = 1 + (k - 1)
        BY <2>3
      <4> QED BY <4>1
    <3>2. region[1 + j] = l[1 + j]
      BY <1>10, <1>13, <1>14
    <3> QED BY <2>1, <3>1, <3>2
  <2> QED BY <2>2, <2>3
<1>16. d = l
  <2>1. d \in Seq(Cells) /\ l \in Seq(Cells)
    BY SeqMonotonic DEF Part, Cells, Plain
  <2>2. Len(d) = Len(l)
    BY <1>3, <1>14
  <2> QED BY <1>3, <1>14, <1>15, <2>1, <2>2, SeqEqual
<1>17. Num(l) = N
  BY <1>13, <1>14, NumLE
<1> QED BY <1>4, <1>5, <1>12, <1>16, <1>17

-----------------------------------------------------------------------------
(* A damaged snapshot *)

\* What an index that load returns has gone through.
Passes(h, payload, inner) ==
    /\ h.err = "Ok" /\ Intact(h.rest, h.header.crc32)
    /\ payload.err = "Ok" /\ inner.err = "Ok"
    /\ inner.ix.dim = h.header.dim /\ Len(inner.ix.rows) = h.header.n_vectors

\* load returns an index only if every one of its checks passes.
LEMMA AssemblePasses ==
    ASSUME NEW h, NEW payload, NEW inner, NEW type,
           Assemble(h, payload, inner, type).err = "Ok"
    PROVE  Passes(h, payload, inner) /\ inner.ix.metric = h.header.metric
<1> DEFINE checks ==
         << <<h.err # "Ok", h.err>>,
            <<h.header.index_type # type, "InvalidIndexType">>,
            <<~Intact(h.rest, h.header.crc32), "ChecksumMismatch">>,
            <<payload.err # "Ok", payload.err>>,
            <<inner.err # "Ok", inner.err>>,
            <<inner.ix.dim # h.header.dim, "InvalidPayload">>,
            <<inner.ix.metric # h.header.metric, "InvalidPayload">>,
            <<Len(inner.ix.rows) # h.header.n_vectors, "InvalidPayload">> >>
<1>1. FirstError(checks) = "Ok"
  BY DEF Assemble
<1> HIDE DEF checks
<1>2. DOMAIN checks = 1..8
  BY DEF checks
<1>3. \A i \in 1..8 : checks[i][1] => checks[i][2] # "Ok"
  <2>1. /\ checks[2][2] # "Ok" /\ checks[3][2] # "Ok" /\ checks[6][2] # "Ok"
        /\ checks[7][2] # "Ok" /\ checks[8][2] # "Ok"
    BY DEF checks
  <2>2. checks[1][1] => checks[1][2] # "Ok"
    BY DEF checks
  <2>3. checks[4][1] => checks[4][2] # "Ok"
    BY DEF checks
  <2>4. checks[5][1] => checks[5][2] # "Ok"
    BY DEF checks
  <2> QED BY <2>1, <2>2, <2>3, <2>4
<1>4. \A i \in 1..8 : ~checks[i][1]
  BY <1>1, <1>2, <1>3, FirstErrorOk
<1>5. /\ ~checks[1][1] /\ ~checks[3][1] /\ ~checks[4][1] /\ ~checks[5][1]
      /\ ~checks[6][1] /\ ~checks[7][1] /\ ~checks[8][1]
  BY <1>4
<1>6. h.err = "Ok" /\ Intact(h.rest, h.header.crc32)
  BY <1>5 DEF checks
<1>7. payload.err = "Ok" /\ inner.err = "Ok"
  BY <1>5 DEF checks
<1>8. inner.ix.dim = h.header.dim /\ Len(inner.ix.rows) = h.header.n_vectors
  BY <1>5 DEF checks
<1>9. inner.ix.metric = h.header.metric
  BY <1>5 DEF checks
<1> QED BY <1>6, <1>7, <1>8, <1>9 DEF Passes

\* Damage to the version leaves the numbers behind it alone.
LEMMA DamagedVersion ==
    ASSUME NEW version \in {1, 2}, NEW dim \in Nat, NEW n \in Nat, NEW region,
           dim < Pow[W64], n < Pow[W64],
           NEW g, FileParts(g, version, dim, n, region), NEW f, Damaged(f, g),
           NEW h, HeaderFields(f, h, 2), h.header.version # version
    PROVE  h.header.dim = dim /\ h.header.n_vectors = n
<1>1. PICK w \in Nat \ {0}, ww \in Nat \ {0} : w = W32 /\ ww = W64 /\ ww = 2 * w
  BY Widths
<1>2. PICK q \in Nat : \A p \in 1..Len(f) : f[p] = g[p] \/ (p = q /\ f[p] \in Digits)
  BY DEF Damaged
<1>3. Len(f) \in Nat
  BY LenProperties DEF Damaged
<1>4. ASSUME NEW i \in Nat, NEW m \in Nat, NEW k \in Nat, m < Pow[k], NEW s,
             Part(f, i, s), Len(s) = k, Holds(g, i, LE(m, k)), q \notin (i + 1)..(i + k)
      PROVE  Num(s) = m
  <2>1. PICK l \in Seq(Digits) : l = LE(m, k) /\ Len(l) = k
    BY LETyped
  <2>2. ASSUME NEW j \in 1..k PROVE s[j] = l[j]
    <3>1. i + j \in 1..Len(f) /\ i + j # q
      BY <1>3, <1>4 DEF Part
    <3>2. f[i + j] = g[i + j]
      BY <1>2, <3>1
    <3>3. f[i + j] = s[j] /\ g[i + j] = l[j]
      BY <1>4, <2>1 DEF Part, Holds
    <3> QED BY <3>2, <3>3
  <2>3. s \in Seq(Cells) /\ l \in Seq(Cells) /\ Len(s) = Len(l)
    BY <1>4, <2>1, SeqMonotonic DEF Part, Cells, Plain
  <2>4. s = l
    BY <1>4, <2>1, <2>2, <2>3, SeqEqual
  <2> QED BY <1>4, <2>1, <2>4, NumLE
<1>5. PICK v : Part(f, 1, v) /\ Len(v) = w /\ h.header.version = Num(v)
  BY <1>1 DEF HeaderFields
<1>6. PICK d : Part(f, 1 + W32 + W64 + 2, d) /\ Len(d) = ww /\ h.header.dim = Num(d)
  BY <1>1 DEF HeaderFields
<1>7. PICK c : Part(f, 2 + W32 + 2 * W64 + 2, c) /\ Len(c) = ww /\ h.header.n_vectors = Num(c)
  BY <1>1 DEF HeaderFields
<1>8. q \in 2..(1 + w)
  <2> SUFFICES ASSUME q \notin 2..(1 + w) PROVE FALSE
    OBVIOUS
  <2>1. version < Pow[w]
    <3>1. Pow[1] <= Pow[w]
      BY PowMonotone
    <3>2. Pow[0 + 1] = Base * Pow[0] /\ Pow[0] = 1
      BY PowDef
    <3>3. Pow[w] \in Nat /\ Pow[1] = Base
      BY <3>2, PowDef, WidthAssumption
    <3>4. Base \in Nat /\ 2 < Base
      BY WidthAssumption, TagAssumption DEF WAL_MAGIC
    <3> QED BY <3>1, <3>3, <3>4
  <2>2. Holds(g, 1, LE(version, w))
    BY <1>1 DEF FileParts
  <2>3. q \notin (1 + 1)..(1 + w)
    OBVIOUS
  <2>4. Num(v) = version
    BY <1>4, <1>5, <2>1, <2>2, <2>3
  <2> QED BY <1>5, <2>4
<1>9. Num(d) = dim
  <2>1. PICK i \in Nat : i = 1 + W32 + W64 + 2 /\ i = 3 + W32 + W64 /\ i > 1 + w
    BY <1>1
  <2>2. q \notin (i + 1)..(i + ww)
    BY <1>8, <2>1
  <2>3. Part(f, i, d) /\ Holds(g, i, LE(dim, ww)) /\ dim < Pow[ww]
    BY <1>1, <1>6, <2>1 DEF FileParts
  <2> QED BY <1>4, <1>6, <2>2, <2>3
<1>10. Num(c) = n
  <2>1. PICK i \in Nat : i = 2 + W32 + 2 * W64 + 2 /\ i = 4 + W32 + 2 * W64 /\ i > 1 + w
    BY <1>1
  <2>2. q \notin (i + 1)..(i + ww)
    BY <1>8, <2>1
  <2>3. Part(f, i, c) /\ Holds(g, i, LE(n, ww)) /\ n < Pow[ww]
    BY <1>1, <1>7, <2>1 DEF FileParts
  <2> QED BY <1>4, <1>7, <2>2, <2>3
<1> QED BY <1>6, <1>7, <1>9, <1>10

\* load accepted what it made of f.
Accepts(f, features, h, payload, inner) ==
    /\ h = ReadHeader(f) /\ payload = Payload(h.header.version, h.rest, features)
    /\ inner = LoadFrom(payload.raw)
    /\ Passes(h, payload, inner)

\* What load made of a file f that a snapshot of ix became, given that it
\* returned an index: the region passed its checksum, so it is the region
\* that was written, and the header was read where it was written.
LEMMA RegionRecovered ==
    ASSUME CodecsAreFinite, NEW dim \in Nat, NEW ix \in EvenIndexesOf(dim), Storable(dim, Len(ix.rows)),
           NEW version \in {1, 2}, NEW region \in Seq(Plain),
           NEW f, Damaged(f, File(ix, version, region)),
           NEW features, NEW h, NEW payload, NEW inner, Accepts(f, features, h, payload, inner)
    PROVE  /\ h.rest = region /\ h.header.version \in {1, 2}
           /\ h.header.version # version =>
                 inner.ix.dim = dim /\ Len(inner.ix.rows) = Len(ix.rows)
<1>1. PICK rows \in Seq(Rows(dim)), n \in Nat :
        rows = ix.rows /\ n = Len(rows) /\ ix.dim = dim
  BY LenProperties DEF EvenIndexesOf, Rows
<1>2. FileParts(File(ix, version, region), version, dim, n, region)
  <2>1. version \in Nat
    OBVIOUS
  <2>2. PICK metric \in MetricTags : ix = [dim |-> dim, metric |-> metric, rows |-> rows]
    BY <1>1 DEF EvenIndexesOf
  <2> QED BY <1>1, <2>1, <2>2, FileHolds
<1>3. PICK g : g = File(ix, version, region)
  OBVIOUS
<1>4. f \in Seq(Cells) /\ Damaged(f, g) /\ FileParts(g, version, dim, n, region)
  BY <1>2, <1>3 DEF Damaged
<1>5. PICK t \in Nat : HeaderFields(f, h, t)
  <2>1. ReadHeader(f).err = "Ok"
    BY DEF Accepts, Passes
  <2> QED BY <1>4, <2>1, HeaderRead DEF Accepts
<1>6. h.header.version \in {1, 2}
  BY <1>5 DEF HeaderFields
<1>7. h.rest # <<>>
  <2> SUFFICES ASSUME h.rest = <<>> PROVE FALSE
    OBVIOUS
  <2>1. CASE h.header.version = 2
    <3>1. Payload(CURRENT_VERSION, <<>>, features).err = "Ok"
      BY <2>1 DEF Accepts, Passes, CURRENT_VERSION
    <3>2. PICK e \in Seq(Digits) : e = <<>> /\ Len(e) = 0
      <4>1. <<>> \in Seq(Digits) /\ Len(<<>>) = 0
        BY EmptySeq
      <4> QED BY <4>1
    <3>3. Payload(CURRENT_VERSION, e, features).err = "Ok"
      BY <3>1, <3>2
    <3>4. PICK s \in Seq(Cells) : Len(s) < Len(e)
      BY <3>3, DigitsTakenForRegion
    <3>5. Len(s) \in Nat
      BY LenProperties
    <3> QED BY <3>2, <3>4, <3>5
  <2>2. CASE h.header.version = 1
    <3>1. payload.raw = <<>>
      BY <2>2 DEF Payload, Accepts
    <3>2. PICK e \in Seq(Cells) : e = <<>> /\ Len(e) = 0
      <4>1. <<>> \in Seq(Cells) /\ Len(<<>>) = 0
        BY EmptySeq
      <4> QED BY <4>1
    <3>3. LoadFrom(e).err = "Ok"
      BY <3>1, <3>2 DEF Accepts, Passes
    <3>4. PICK d : Part(e, 0, d) /\ Len(d) = W64
      BY <3>3, LoadFromRead DEF LoadFromFields
    <3>5. 0 + W64 <= 0
      BY <3>2, <3>4 DEF Part
    <3> QED BY <3>5, Widths
  <2> QED BY <1>6, <2>1, <2>2
<1>8. t = 2 /\ h.rest = region
  <2>1. Intact(h.rest, h.header.crc32)
    BY DEF Accepts, Passes
  <2> QED BY <1>4, <1>5, <1>7, <2>1, RestIsRegion
<1>9. ASSUME h.header.version # version
      PROVE  inner.ix.dim = dim /\ Len(inner.ix.rows) = n
  <2>1. dim < Pow[W64] /\ n < Pow[W64]
    <3>1. PICK u \in Nat, p \in Nat : u = UsizeMax /\ p = Pow[W64] /\ u < p
      BY WidthAssumption, Widths, PowDef
    <3>2. dim <= u /\ PayloadCells(dim, n) <= u
      BY <1>1, <3>1 DEF Storable, FitsMemory
    <3>3. PICK m \in Nat, x \in Nat : m = n * RowCells(dim) /\ n <= m /\ x = W64
                                     /\ PayloadCells(dim, n) = 2 * x + m
      <4>1. PICK m \in Nat : m = n * RowCells(dim) /\ n <= m /\ PayloadCells(dim, n) = 2 * W64 + m
        BY CountFits
      <4> QED BY <4>1, Widths
    <3>4. n <= u
      BY <3>1, <3>2, <3>3
    <3> QED BY <3>1, <3>2, <3>4
  <2>2. HeaderFields(f, h, 2)
    BY <1>5, <1>8
  <2>3. h.header.dim = dim /\ h.header.n_vectors = n
    BY <1>4, <1>9, <2>1, <2>2, DamagedVersion
  <2> QED BY <2>3 DEF Accepts, Passes
<1> QED BY <1>1, <1>6, <1>8, <1>9

\* A snapshot of the current format.
LEMMA CurrentNeverLies ==
    ASSUME CodecsAreFinite, NEW dim \in Nat, NEW ix \in EvenIndexesOf(dim), Storable(dim, Len(ix.rows)),
           NEW scheme, scheme.kind \in Kinds, NEW f, Damaged(f, Snapshot(ix, scheme)),
           NEW features, NEW h, NEW payload, NEW inner, Accepts(f, features, h, payload, inner)
    PROVE  inner.ix = Reloaded(ix)
<1>1. PICK rows \in Seq(Rows(dim)), n \in Nat :
        /\ rows = ix.rows /\ n = Len(rows)
        /\ Reloaded(ix) = [dim |-> dim, metric |-> Cosine, rows |-> rows]
        /\ n = 0 => rows = <<>>
  <2>1. ix.rows \in Seq(Rows(dim)) /\ Reloaded(ix) = [dim |-> dim, metric |-> Cosine, rows |-> ix.rows]
    BY ReloadedRows DEF EvenIndexesOf, Rows
  <2> QED BY <2>1, LenProperties, EmptySeq
<1>2. PICK raw \in Seq(Digits) :
        raw = SaveTo(ix) /\ Len(raw) = PayloadCells(dim, n) /\ PayloadCells(dim, n) \in Nat
  BY <1>1, PayloadSaved
<1>3. PICK region \in Seq(Plain) : region = Region(raw, scheme)
  BY RegionWritten DEF RegionParts
<1>4. Damaged(f, File(ix, 2, region))
  BY <1>2, <1>3 DEF Snapshot, CURRENT_VERSION
<1>5. /\ h.rest = region /\ h.header.version \in {1, 2}
      /\ h.header.version # 2 => inner.ix.dim = dim /\ Len(inner.ix.rows) = n
  <2>1. PICK version \in {1, 2} : version = 2
    OBVIOUS
  <2>2. Damaged(f, File(ix, version, region))
    BY <1>4, <2>1
  <2>3. /\ h.rest = region /\ h.header.version \in {1, 2}
        /\ h.header.version # version =>
              inner.ix.dim = dim /\ Len(inner.ix.rows) = Len(ix.rows)
    BY <2>2, RegionRecovered
  <2> QED BY <1>1, <2>1, <2>3
<1>6. CASE h.header.version = 2
  <2>1. payload.raw = raw
    BY <1>3, <1>5, <1>6, PayloadInverts DEF CURRENT_VERSION, Accepts
  <2> QED BY <1>2, <2>1, LoadFromInverts DEF Storable, Accepts
<1>7. CASE h.header.version = 1
  <2>1. payload.raw = region
    BY <1>5, <1>7 DEF Payload, Accepts
  <2>2. PICK c \in Seq(Cells) : c = region
    BY SeqMonotonic DEF Cells
  <2>3. LoadFromFields(c, inner.ix)
    <3>1. LoadFrom(c).err = "Ok" /\ inner = LoadFrom(c)
      BY <2>1, <2>2 DEF Accepts, Passes
    <3> QED BY <3>1, LoadFromRead
  <2>4. inner.ix.dim = dim /\ Len(inner.ix.rows) = n
    BY <1>5, <1>7
  <2>5. n = 0
    <3> SUFFICES ASSUME n # 0 PROVE FALSE
      OBVIOUS
    <3>1. PICK d : Part(region, 0, d) /\ Len(d) = W64 /\ dim = AsUsize(Num(d))
      BY <2>2, <2>3, <2>4 DEF LoadFromFields
    <3>2. Len(raw) < Pow[W64 - 1]
      BY <1>1, <1>2 DEF Storable
    <3>3. Num(d) = SchemeTag(scheme) + Base * Len(raw) /\ SchemeTag(scheme) \in 0..2
      BY <1>3, <3>1, <3>2, RegionAsPayload
    <3>4. AsUsize(SchemeTag(scheme) + Base * PayloadCells(dim, n)) # dim
      BY <1>1, <3>3 DEF Storable, Unmistakable
    <3> QED BY <1>2, <3>1, <3>3, <3>4
  <2>6. inner.ix = [dim |-> dim, metric |-> Cosine, rows |-> <<>>]
    BY <2>3, <2>4, <2>5 DEF LoadFromFields
  <2> QED BY <1>1, <2>5, <2>6
<1> QED BY <1>5, <1>6, <1>7

\* A snapshot of format 1.
LEMMA LegacyNeverLies ==
    ASSUME CodecsAreFinite, NEW dim \in Nat, NEW ix \in EvenIndexesOf(dim), Storable(dim, Len(ix.rows)),
           NEW f, Damaged(f, LegacySnapshot(ix)),
           NEW features, NEW h, NEW payload, NEW inner, Accepts(f, features, h, payload, inner)
    PROVE  inner.ix = Reloaded(ix)
<1>1. PICK n \in Nat : n = Len(ix.rows)
  BY LenProperties DEF EvenIndexesOf
<1>2. PICK raw \in Seq(Digits) : raw = SaveTo(ix) /\ Len(raw) = PayloadCells(dim, n)
  BY <1>1, PayloadSaved
<1>3. PICK region \in Seq(Plain) : region = raw
  BY SeqMonotonic DEF Plain
<1>4. Damaged(f, File(ix, 1, region))
  BY <1>2, <1>3 DEF LegacySnapshot
<1>5. /\ h.rest = region /\ h.header.version \in {1, 2}
      /\ h.header.version # 1 => inner.ix.dim = dim /\ Len(inner.ix.rows) = n
  BY <1>1, <1>4, RegionRecovered
<1>6. CASE h.header.version = 1
  <2>1. payload.raw = raw
    BY <1>3, <1>5, <1>6 DEF Payload, Accepts
  <2> QED BY <1>2, <2>1, LoadFromInverts DEF Storable, Accepts
<1>7. CASE h.header.version = 2
  <2>1. payload = Payload(CURRENT_VERSION, raw, features) /\ payload.err = "Ok"
    BY <1>3, <1>5, <1>7 DEF Accepts, Passes, CURRENT_VERSION
  <2>2. PICK c \in Seq(Cells) : c = payload.raw /\ Len(c) < Len(raw)
    BY <2>1, DigitsTakenForRegion
  <2>3. LoadFromFields(c, inner.ix)
    <3>1. LoadFrom(c).err = "Ok" /\ inner = LoadFrom(c)
      BY <2>2 DEF Accepts, Passes
    <3> QED BY <3>1, LoadFromRead
  <2>4. 2 * W64 + n * RowCells(dim) <= Len(c)
    BY <1>5, <1>7, <2>3 DEF LoadFromFields
  <2>5. PICK m \in Nat : m = Len(raw) /\ m = 2 * W64 + n * RowCells(dim)
    BY <1>2, CountFits, LenProperties
  <2>6. Len(c) \in Nat
    BY LenProperties
  <2> QED BY <2>2, <2>4, <2>5, <2>6
<1> QED BY <1>5, <1>6, <1>7

\* Every snapshot of ix there is, by what packed it.
Written(g, ix, kind) ==
    \/ kind \in Kinds /\ \E scheme : scheme.kind = kind /\ g = Snapshot(ix, scheme)
    \/ kind = "legacy" /\ g = LegacySnapshot(ix)

\* load never returns another index than the one that was saved
\* (write_snapshot and load, persisted.rs): for every index and scheme, in
\* both formats, whichever cell of the file is damaged and wherever it is
\* cut, and whatever codecs the build that reads it has.
THEOREM SnapshotNeverLies ==
    ASSUME CodecsAreFinite, NEW dim \in Nat, NEW ix \in EvenIndexesOf(dim), Storable(dim, Len(ix.rows)),
           NEW g, NEW kind, Written(g, ix, kind), NEW f, Damaged(f, g),
           NEW type, NEW features, Load(f, type, features).err = "Ok"
    PROVE  Load(f, type, features).ix = Reloaded(ix)
<1>1. PICK h : h = ReadHeader(f)
  OBVIOUS
<1>2. PICK payload : payload = Payload(h.header.version, h.rest, features)
  OBVIOUS
<1>3. PICK inner : inner = LoadFrom(payload.raw)
  OBVIOUS
<1>4. Load(f, type, features) = Assemble(h, payload, inner, type)
  BY <1>1, <1>2, <1>3 DEF Load
<1>5. Accepts(f, features, h, payload, inner)
  BY <1>1, <1>2, <1>3, <1>4, AssemblePasses DEF Accepts
<1>6. inner.ix = Reloaded(ix)
  <2>1. CASE \E scheme : scheme.kind \in Kinds /\ g = Snapshot(ix, scheme)
    <3>1. PICK scheme : scheme.kind \in Kinds /\ g = Snapshot(ix, scheme)
      BY <2>1
    <3> QED BY <1>5, <3>1, CurrentNeverLies
  <2>2. CASE g = LegacySnapshot(ix)
    BY <1>5, <2>2, LegacyNeverLies
  <2> QED BY <2>1, <2>2 DEF Written
<1> QED BY <1>4, <1>6 DEF Assemble

-----------------------------------------------------------------------------
(* Which errors load returns *)

Outcomes == Errors \cup {"Ok", "Panic"}

\* Those of the format itself, not of an index's load_from.
FormatErrors == Outcomes \ {"Io", "Panic"}

LEMMA HeaderErrTyped ==
    ASSUME NEW f
    PROVE  ReadHeader(f).err \in FormatErrors
<1> DEFINE magic == Take(Cursor(f), 1)
           version == Take(magic, W32)
           len == Take(version, W64)
           type == Take(len, Num(len.val))
           dim == Take(type, W64)
           metric == Take(dim, 1)
           n == Take(metric, W64)
           crc == Take(n, W32)
           checks == << <<~magic.ok, "TruncatedHeader">>,
                <<Num(magic.val) # MAGIC, "BadMagic">>,
                <<~version.ok, "TruncatedHeader">>,
                <<Num(version.val) \notin MIN_SUPPORTED_VERSION..CURRENT_VERSION,
                  "UnsupportedVersion">>,
                <<~len.ok, "TruncatedHeader">>,
                <<~FitsUsize(Num(len.val)), "InvalidPayload">>,
                <<Num(len.val) > MaxIndexTypeLen, "InvalidPayload">>,
                <<~type.ok, "TruncatedHeader">>,
                <<~Utf8(type.val), "InvalidPayload">>,
                <<~dim.ok, "TruncatedHeader">>,
                <<~FitsUsize(Num(dim.val)), "InvalidPayload">>,
                <<~metric.ok, "TruncatedHeader">>,
                <<Num(metric.val) \notin MetricTags, "InvalidMetric">>,
                <<~n.ok, "TruncatedHeader">>,
                <<~FitsUsize(Num(n.val)), "InvalidPayload">>,
                <<~crc.ok, "TruncatedHeader">> >>
<1>1. ReadHeader(f).err = FirstError(checks)
  BY DEF ReadHeader
<1> HIDE DEF magic, version, len, type, dim, metric, n, crc
<1>2. DOMAIN checks = 1..16
  OBVIOUS
<1>3. \A i \in 1..16 : checks[i][2] \in FormatErrors
  <2>1. /\ checks[1][2] \in FormatErrors /\ checks[2][2] \in FormatErrors /\ checks[3][2] \in FormatErrors
        /\ checks[4][2] \in FormatErrors /\ checks[5][2] \in FormatErrors /\ checks[6][2] \in FormatErrors
        /\ checks[7][2] \in FormatErrors /\ checks[8][2] \in FormatErrors
    BY DEF FormatErrors, Outcomes, Errors
  <2>2. /\ checks[9][2] \in FormatErrors /\ checks[10][2] \in FormatErrors /\ checks[11][2] \in FormatErrors
        /\ checks[12][2] \in FormatErrors /\ checks[13][2] \in FormatErrors /\ checks[14][2] \in FormatErrors
        /\ checks[15][2] \in FormatErrors /\ checks[16][2] \in FormatErrors
    BY DEF FormatErrors, Outcomes, Errors
  <2> HIDE DEF checks
  <2> QED BY <2>1, <2>2
<1> HIDE DEF checks
<1>4. "Ok" \in FormatErrors
  BY DEF FormatErrors, Outcomes
<1> QED BY <1>1, <1>2, <1>3, <1>4, FirstErrorTyped

LEMMA PayloadErrTyped ==
    ASSUME NEW version, NEW region, NEW features
    PROVE  Payload(version, region, features).err \in FormatErrors
<1>0. "Ok" \in FormatErrors
  BY DEF FormatErrors, Outcomes
<1>1. ASSUME NEW tag, NEW data, NEW len PROVE Decompress(tag, data, len, features).err \in FormatErrors
  <2> DEFINE raw == IF tag = SCHEME_NONE THEN data ELSE Inflate(data)
             checks == << <<len > Len(data) * MaxRatio, "InvalidPayload">>,
                <<tag \notin {SCHEME_ZSTD, SCHEME_LZ4}, "InvalidPayload">>,
                <<tag \notin Codecs(features), "Unsupported">>,
                <<~Inflates(tag, data), "Compression">>,
                <<Len(raw) # len, "Compression">> >>
  <2>1. Decompress(tag, data, len, features).err \in {"Ok", FirstError(checks)}
    BY DEF Decompress
  <2> HIDE DEF raw
  <2>2. DOMAIN checks = 1..5 /\ \A i \in 1..5 : checks[i][2] \in FormatErrors
    <3>1. /\ checks[1][2] \in FormatErrors /\ checks[2][2] \in FormatErrors /\ checks[3][2] \in FormatErrors
          /\ checks[4][2] \in FormatErrors /\ checks[5][2] \in FormatErrors /\ DOMAIN checks = 1..5
      BY DEF FormatErrors, Outcomes, Errors
    <3> HIDE DEF checks
    <3> QED BY <3>1
  <2> HIDE DEF checks
  <2>3. FirstError(checks) \in FormatErrors
    BY <1>0, <2>2, FirstErrorTyped
  <2> QED BY <1>0, <2>1, <2>3
<1> DEFINE tag == Take(Cursor(region), 1)
           len == Take(tag, W64)
           data == Decompress(Num(tag.val), len.rest, Num(len.val), features)
           checks == << <<~len.ok, "TruncatedPayload">>,
                     <<~FitsUsize(Num(len.val)), "InvalidPayload">>,
                     <<data.err # "Ok", data.err>> >>
<1>2. Payload(version, region, features).err \in {"Ok", FirstError(checks)}
  BY DEF Payload
<1>3. data.err \in FormatErrors
  BY <1>1
<1> HIDE DEF tag, len, data
<1>4. DOMAIN checks = 1..3 /\ \A i \in 1..3 : checks[i][2] \in FormatErrors
  <2>1. checks[1][2] \in FormatErrors /\ checks[2][2] \in FormatErrors /\ DOMAIN checks = 1..3
    BY DEF FormatErrors, Outcomes, Errors
  <2>2. checks[3][2] \in FormatErrors
    BY <1>3
  <2> HIDE DEF checks
  <2> QED BY <2>1, <2>2
<1> HIDE DEF checks
<1>5. FirstError(checks) \in FormatErrors
  BY <1>0, <1>4, FirstErrorTyped
<1> QED BY <1>0, <1>2, <1>5

LEMMA LoadFromErrTyped ==
    ASSUME NEW raw
    PROVE  LoadFrom(raw).err \in Outcomes
<1> DEFINE d == Take(Cursor(raw), W64)
           c == Take(d, W64)
           dim == AsUsize(Num(d.val))
           n == AsUsize(Num(c.val))
           rows == Take(c, n * RowCells(dim))
           checks == << <<~c.ok, "Io">>,
                <<TooManyBytes(n * RowSize), "Panic">>,
                <<n > 0 /\ Take(c, W64).ok /\ TooManyBytes(dim * W32), "Panic">>,
                <<~rows.ok, "Io">> >>
<1>1. LoadFrom(raw).err = FirstError(checks)
  BY DEF LoadFrom
<1> HIDE DEF d, c, dim, n, rows
<1>2. DOMAIN checks = 1..4 /\ \A i \in 1..4 : checks[i][2] \in Outcomes
  <2>1. /\ checks[1][2] \in Outcomes /\ checks[2][2] \in Outcomes /\ checks[3][2] \in Outcomes
        /\ checks[4][2] \in Outcomes /\ DOMAIN checks = 1..4
    BY DEF Outcomes, Errors
  <2> HIDE DEF checks
  <2> QED BY <2>1
<1> HIDE DEF checks
<1>3. "Ok" \in Outcomes
  BY DEF Outcomes
<1> QED BY <1>1, <1>2, <1>3, FirstErrorTyped

\* load of a snapshot ends with one of the errors of PersistError, whatever
\* the file holds.
LEMMA LoadErrTyped ==
    ASSUME NEW f, NEW type, NEW features
    PROVE  Load(f, type, features).err \in Outcomes
<1>1. PICK h : h = ReadHeader(f)
  OBVIOUS
<1>2. PICK payload : payload = Payload(h.header.version, h.rest, features)
  OBVIOUS
<1>3. PICK inner : inner = LoadFrom(payload.raw)
  OBVIOUS
<1>4. h.err \in FormatErrors /\ payload.err \in FormatErrors /\ inner.err \in Outcomes
  BY <1>1, <1>2, <1>3, HeaderErrTyped, PayloadErrTyped, LoadFromErrTyped
<1>9. FormatErrors \subseteq Outcomes
  BY DEF FormatErrors
<1> DEFINE checks ==
         << <<h.err # "Ok", h.err>>,
            <<h.header.index_type # type, "InvalidIndexType">>,
            <<~Intact(h.rest, h.header.crc32), "ChecksumMismatch">>,
            <<payload.err # "Ok", payload.err>>,
            <<inner.err # "Ok", inner.err>>,
            <<inner.ix.dim # h.header.dim, "InvalidPayload">>,
            <<inner.ix.metric # h.header.metric, "InvalidPayload">>,
            <<Len(inner.ix.rows) # h.header.n_vectors, "InvalidPayload">> >>
<1>5. Load(f, type, features).err = FirstError(checks)
  <2>1. Load(f, type, features) = Assemble(h, payload, inner, type)
    BY <1>1, <1>2, <1>3 DEF Load
  <2> QED BY <2>1 DEF Assemble
<1>6. DOMAIN checks = 1..8 /\ \A i \in 1..8 : checks[i][2] \in Outcomes
  <2>1. /\ checks[2][2] \in Outcomes /\ checks[3][2] \in Outcomes /\ checks[6][2] \in Outcomes
        /\ checks[7][2] \in Outcomes /\ checks[8][2] \in Outcomes /\ DOMAIN checks = 1..8
    BY DEF Outcomes, Errors
  <2>2. checks[1][2] \in Outcomes /\ checks[4][2] \in Outcomes /\ checks[5][2] \in Outcomes
    BY <1>4, <1>9
  <2> HIDE DEF checks
  <2> QED BY <2>1, <2>2
<1> HIDE DEF checks
<1>7. "Ok" \in Outcomes
  BY DEF Outcomes
<1> QED BY <1>5, <1>6, <1>7, FirstErrorTyped

-----------------------------------------------------------------------------
(* What load_from is given *)

\* One cell is changed, or the file is cut.
Hurt(f, g) == Damaged(f, g) /\ (Len(f) < Len(g) => \A p \in 1..Len(f) : f[p] = g[p])

VersionOf(kind) == IF kind = "legacy" THEN 1 ELSE 2

\* What follows a header of the right type and agrees with its checksum is
\* the region that was written, even where nothing is left of the file.
LEMMA RegionKept ==
    ASSUME NEW g, NEW version, NEW dim, NEW n, NEW region \in Seq(Plain), region # <<>>,
           FileParts(g, version, dim, n, region), NEW f, Hurt(f, g),
           NEW h, HeaderFields(f, h, 2), Intact(h.rest, h.header.crc32)
    PROVE  h.rest = region
<1>1. CASE h.rest # <<>>
  BY <1>1, RestIsRegion DEF Hurt
<1>2. CASE h.rest = <<>>
  <2>1. PICK w \in Nat, ww \in Nat : w = W32 /\ ww = W64 /\ w # 0
    BY Widths
  <2>2. PICK b \in Nat : b = 4 + w + 3 * ww /\ b = BeforeCrc /\ HeaderCells = b + w
    BY <2>1 DEF BeforeCrc, HeaderCells
  <2>3. PICK l \in Nat, m \in Nat : l = Len(f) /\ m = Len(region) /\ m # 0
    BY LenProperties, EmptySeq DEF Hurt, Damaged
  <2>4. l = b + w
    <3>1. PICK r \in Seq(Cells) : r = h.rest /\ r = <<>>
      BY <1>2 DEF HeaderFields, Part
    <3>2. Len(r) = 0
      BY <3>1, EmptySeq
    <3>3. Len(r) = Len(f) - (2 + 2 * W32 + 3 * W64 + 2)
      BY <3>1 DEF HeaderFields
    <3> QED BY <2>1, <2>2, <2>3, <3>2, <3>3
  <2>5. Len(g) = (b + w) + m
    BY <2>2, <2>3 DEF FileParts
  <2>6. \A p \in 1..l : f[p] = g[p]
    BY <2>3, <2>4, <2>5 DEF Hurt
  <2>7. b + 1 \in 1..l /\ 1 \in 1..w
    BY <2>1, <2>4
  <2>8. f[b + 1] = <<0>>
    <3>1. PICK crc : crc = h.header.crc32 /\ crc = Crc(<<>>)
      BY <1>2 DEF Intact
    <3>2. crc[1] = <<0>>
      BY <2>1, <2>7, <3>1 DEF Crc
    <3>3. Part(f, 2 + W32 + 3 * W64 + 2, crc) /\ Len(crc) = W32
      BY <3>1 DEF HeaderFields
    <3>4. 2 + W32 + 3 * W64 + 2 = b
      BY <2>1, <2>2
    <3>5. Holds(f, b, crc) /\ Len(crc) = w
      BY <2>1, <3>3, <3>4 DEF Part
    <3> QED BY <2>7, <3>2, <3>5 DEF Holds
  <2>9. g[b + 1] = <<Base, 1, region>>
    <3>1. region \in Seq(Cells)
      BY SeqMonotonic DEF Cells
    <3>2. Crc(region)[1] = <<Base, 1, region>>
      BY <2>1, <2>7, <3>1, CrcCells
    <3>3. Len(Crc(region)) = w /\ Holds(g, b, Crc(region))
      BY <2>1, <2>2, CrcTyped DEF FileParts
    <3> QED BY <2>7, <3>2, <3>3 DEF Holds
  <2>10. <<0>> \in Digits
    BY ZeroTyped
  <2> QED BY <2>6, <2>7, <2>8, <2>9, <2>10, NoDigit
<1> QED BY <1>1, <1>2

\* The region of a snapshot, in either format, and the payload it stands for.
LEMMA WrittenParts ==
    ASSUME CodecsAreFinite, NEW dim \in Nat, NEW ix \in EvenIndexesOf(dim),
           NEW g, NEW kind, Written(g, ix, kind)
    PROVE  \E region \in Seq(Plain) :
             /\ region # <<>>
             /\ FileParts(g, VersionOf(kind), dim, Len(ix.rows), region)
             /\ MetricHeld(g, ix.metric)
             /\ \A features : Payload(VersionOf(kind), region, features).raw = SaveTo(ix)
             /\ kind \in Kinds =>
                  \E scheme : scheme.kind = kind /\ region = Region(SaveTo(ix), scheme)
             /\ kind \notin Kinds => region = SaveTo(ix)
<1>1. PICK rows \in Seq(Rows(dim)), n \in Nat, metric \in MetricTags :
        /\ rows = ix.rows /\ n = Len(rows) /\ metric = ix.metric
        /\ ix = [dim |-> dim, metric |-> metric, rows |-> rows]
  BY LenProperties DEF EvenIndexesOf, Rows
<1>2. PICK raw \in Seq(Digits) :
        raw = SaveTo(ix) /\ Len(raw) = PayloadCells(dim, n)
  BY <1>1, PayloadSaved
<1>3. ASSUME NEW version \in Nat, NEW region \in Seq(Plain)
      PROVE  /\ FileParts(File(ix, version, region), version, dim, n, region)
             /\ MetricHeld(File(ix, version, region), metric)
  BY <1>1, <1>3, FileHolds
<1>4. CASE kind \in Kinds /\ \E scheme : scheme.kind = kind /\ g = Snapshot(ix, scheme)
  <2>1. PICK scheme : scheme.kind = kind /\ g = Snapshot(ix, scheme)
    BY <1>4
  <2>2. PICK a \in Seq(Digits), b \in Seq(Digits), data \in Seq(Plain) :
          RegionParts(raw, scheme, a, b, data)
    BY <1>4, <2>1, RegionWritten
  <2>3. PICK region \in Seq(Plain) : region = Region(raw, scheme)
    BY <1>4, <2>1, RegionWritten DEF RegionParts
  <2>4. region # <<>>
    <3> SUFFICES ASSUME region = <<>> PROVE FALSE
      OBVIOUS
    <3>1. region = a \o (b \o data) /\ Len(a) = 1
      BY <2>2, <2>3 DEF RegionParts
    <3>2. a \in Seq(Plain) /\ b \in Seq(Plain)
      BY SeqMonotonic DEF Plain
    <3>3. PICK bd \in Seq(Plain) : bd = b \o data
      BY <3>2, ConcatProperties
    <3>4. Len(region) = Len(a) + Len(bd) /\ Len(bd) \in Nat
      BY <3>1, <3>2, <3>3, ConcatProperties, LenProperties
    <3>5. Len(region) = 0
      BY EmptySeq
    <3> QED BY <3>1, <3>4, <3>5
  <2>5. VersionOf(kind) = 2 /\ kind # "legacy"
    BY <1>4 DEF VersionOf, Kinds
  <2>6. g = File(ix, 2, region)
    BY <1>2, <2>1, <2>3 DEF Snapshot, CURRENT_VERSION
  <2>7. \A features : Payload(2, region, features).raw = raw
    BY <1>4, <2>1, <2>3, PayloadInverts DEF CURRENT_VERSION
  <2>8. FileParts(g, 2, dim, n, region) /\ MetricHeld(g, metric)
    BY <1>3, <2>6
  <2> QED BY <1>1, <1>2, <1>4, <2>1, <2>3, <2>4, <2>5, <2>7, <2>8
<1>5. CASE kind = "legacy" /\ g = LegacySnapshot(ix)
  <2>1. PICK region \in Seq(Plain) : region = raw
    BY SeqMonotonic DEF Plain
  <2>2. VersionOf(kind) = 1 /\ kind \notin Kinds
    BY <1>5 DEF VersionOf, Kinds
  <2>3. FileParts(g, 1, dim, n, region) /\ MetricHeld(g, metric)
    BY <1>2, <1>3, <1>5, <2>1 DEF LegacySnapshot
  <2>4. \A features : Payload(1, region, features).raw = raw
    BY <2>1 DEF Payload
  <2>5. region # <<>>
    <3> SUFFICES ASSUME region = <<>> PROVE FALSE
      OBVIOUS
    <3>1. Len(raw) = 0
      BY <2>1, EmptySeq
    <3>2. n * RowCells(dim) \in Nat /\ PayloadCells(dim, n) = 2 * W64 + n * RowCells(dim)
      BY CountFits
    <3>3. PICK m \in Nat, x \in Nat \ {0} : m = n * RowCells(dim) /\ x = W64
      BY <3>2, Widths
    <3>4. 2 * x + m = 0
      BY <1>2, <3>1, <3>2, <3>3
    <3> QED BY <3>4
  <2> QED BY <1>1, <1>2, <2>1, <2>2, <2>3, <2>4, <2>5
<1> QED BY <1>4, <1>5 DEF Written

\* An index's own load_from is given what its save_to wrote, unless the
\* version in the header was changed: everything else that comes to it has
\* passed a check.
LEMMA MisledByVersion ==
    ASSUME CodecsAreFinite, NEW dim \in Nat, NEW ix \in EvenIndexesOf(dim), Storable(dim, Len(ix.rows)),
           NEW g, NEW kind, Written(g, ix, kind), NEW f, Hurt(f, g), NEW features,
           Load(f, INDEX_TYPE, features).err \in {"Io", "Panic"}
    PROVE  ReadHeader(f).header.version # VersionOf(kind)
<1> SUFFICES ASSUME ReadHeader(f).header.version = VersionOf(kind) PROVE FALSE
  OBVIOUS
<1>1. PICK h : h = ReadHeader(f)
  OBVIOUS
<1>2. PICK payload : payload = Payload(h.header.version, h.rest, features)
  OBVIOUS
<1>3. PICK inner : inner = LoadFrom(payload.raw)
  OBVIOUS
<1>4. h.err \in FormatErrors /\ payload.err \in FormatErrors
  BY <1>1, <1>2, HeaderErrTyped, PayloadErrTyped
<1> DEFINE checks ==
         << <<h.err # "Ok", h.err>>,
            <<h.header.index_type # INDEX_TYPE, "InvalidIndexType">>,
            <<~Intact(h.rest, h.header.crc32), "ChecksumMismatch">>,
            <<payload.err # "Ok", payload.err>>,
            <<inner.err # "Ok", inner.err>>,
            <<inner.ix.dim # h.header.dim, "InvalidPayload">>,
            <<inner.ix.metric # h.header.metric, "InvalidPayload">>,
            <<Len(inner.ix.rows) # h.header.n_vectors, "InvalidPayload">> >>
<1>5. FirstError(checks) \in {"Io", "Panic"}
  <2>1. Load(f, INDEX_TYPE, features) = Assemble(h, payload, inner, INDEX_TYPE)
    BY <1>1, <1>2, <1>3 DEF Load
  <2> QED BY <2>1 DEF Assemble
<1>6. DOMAIN checks = 1..8
  OBVIOUS
<1>7. \A i \in 1..8 : i # 5 => checks[i][2] \notin {"Io", "Panic"}
  <2>1. /\ checks[2][2] \notin {"Io", "Panic"} /\ checks[3][2] \notin {"Io", "Panic"}
        /\ checks[6][2] \notin {"Io", "Panic"} /\ checks[7][2] \notin {"Io", "Panic"}
        /\ checks[8][2] \notin {"Io", "Panic"}
    OBVIOUS
  <2>2. checks[1][2] \notin {"Io", "Panic"} /\ checks[4][2] \notin {"Io", "Panic"}
    BY <1>4 DEF FormatErrors
  <2> HIDE DEF checks
  <2> QED BY <2>1, <2>2
<1> HIDE DEF checks
<1>8. checks[5][1] /\ \A j \in 1..4 : ~checks[j][1]
  <2>1. \E i \in 1..8 : checks[i][1]
    BY <1>5, <1>6 DEF FirstError
  <2>2. PICK z \in 1..8 : /\ checks[z][1] /\ FirstError(checks) = checks[z][2]
                          /\ \A j \in 1..(z - 1) : ~checks[j][1]
    <3>1. PICK L \in Nat : L = 8
      OBVIOUS
    <3> QED BY <1>6, <2>1, <3>1, FirstErrorFound
  <2>3. z = 5
    BY <1>5, <1>7, <2>2
  <2> QED BY <2>2, <2>3
<1>9. inner.err # "Ok"
  BY <1>8 DEF checks
<1>10. h.err = "Ok" /\ h.header.index_type = INDEX_TYPE /\ Intact(h.rest, h.header.crc32)
  <2>1. ~checks[1][1] /\ ~checks[2][1] /\ ~checks[3][1]
    BY <1>8
  <2> QED BY <2>1 DEF checks
<1>11. HeaderFields(f, h, 2)
  <2>1. PICK t \in Nat : HeaderFields(f, h, t)
    BY <1>1, <1>10, HeaderRead DEF Hurt, Damaged
  <2>2. t = Len(INDEX_TYPE)
    BY <1>10, <2>1 DEF HeaderFields
  <2>3. Len(INDEX_TYPE) = 2
    BY DEF INDEX_TYPE
  <2> QED BY <2>1, <2>2, <2>3
<1>12. PICK region \in Seq(Plain) :
         /\ region # <<>> /\ FileParts(g, VersionOf(kind), dim, Len(ix.rows), region)
         /\ \A fs : Payload(VersionOf(kind), region, fs).raw = SaveTo(ix)
  BY WrittenParts
<1>13. h.rest = region
  BY <1>10, <1>11, <1>12, RegionKept
<1>14. payload.raw = SaveTo(ix)
  BY <1>1, <1>2, <1>12, <1>13
<1>15. inner.err = "Ok"
  BY <1>3, <1>14, LoadFromInverts DEF Storable
<1> QED BY <1>9, <1>15

-----------------------------------------------------------------------------
(* A snapshot that nothing happened to *)

\* Where no check fails there is no error.
LEMMA NoError ==
    ASSUME NEW L \in Nat, NEW checks, DOMAIN checks = 1..L, \A i \in 1..L : ~checks[i][1]
    PROVE  FirstError(checks) = "Ok"
BY DEF FirstError

\* The header of an index whose region is `region'.
HeaderOf(version, dim, metric, n, region) ==
    [version |-> version, index_type |-> INDEX_TYPE, dim |-> dim, metric |-> metric,
     n_vectors |-> n, crc32 |-> Crc(region)]

\* What is found in a file is what a reader that stands there is given.
LEMMA NumberHeld ==
    ASSUME NEW f \in Seq(Cells), NEW p \in Nat, NEW c, Ready(f, p, c),
           NEW n \in Nat, NEW w \in Nat, n < Pow[w], Holds(f, p, LE(n, w)), p + w <= Len(f)
    PROVE  Num(Take(c, w).val) = n /\ Ready(f, p + w, Take(c, w))
<1>1. PICK s \in Seq(Cells) : s = LE(n, w) /\ Len(s) = w
  <2>1. LE(n, w) \in Seq(Digits) /\ Len(LE(n, w)) = w
    BY LETyped
  <2>2. LE(n, w) \in Seq(Cells)
    BY <2>1, SeqMonotonic DEF Cells, Plain
  <2> QED BY <2>1, <2>2
<1>2. Follow(f, p, s, w)
  BY <1>1 DEF Follow
<1>3. Take(c, w).val = s /\ Ready(f, p + w, Take(c, w))
  BY <1>2, TakeHeld
<1> QED BY <1>1, <1>3, NumLE

\* The type tag is text of two bytes.
LEMMA TypeIsText ==
    /\ INDEX_TYPE \in Seq(Digits) /\ Len(INDEX_TYPE) = 2 /\ Utf8(INDEX_TYPE)
<1>1. 22 \in 0..(Base - 1) /\ 5 \in 0..(Base - 1) /\ 22 # Base - 1 /\ 5 # Base - 1
  BY WidthAssumption, TagAssumption DEF WAL_MAGIC
<1>2. <<22>> \in Digits /\ <<5>> \in Digits
  BY <1>1 DEF Digits
<1>3. INDEX_TYPE \in Seq(Digits) /\ Len(INDEX_TYPE) = 2 /\ DOMAIN INDEX_TYPE = {1, 2}
  BY <1>2 DEF INDEX_TYPE
<1>4. Digit(INDEX_TYPE[1]) = 22 /\ Digit(INDEX_TYPE[2]) = 5
  <2>1. Digit(<<22>>) = 22 /\ Digit(<<5>>) = 5
    BY <1>1, CellDigit
  <2> QED BY <2>1 DEF INDEX_TYPE
<1>5. Utf8(INDEX_TYPE)
  BY <1>1, <1>3, <1>4 DEF Utf8
<1> QED BY <1>3, <1>5

\* A byte in its cell.
LEMMA ByteHeld ==
    ASSUME NEW f \in Seq(Cells), NEW p \in Nat, NEW c, Ready(f, p, c),
           NEW n \in 0..(Base - 1), Holds(f, p, Byte(n)), p + 1 <= Len(f)
    PROVE  Num(Take(c, 1).val) = n /\ Ready(f, p + 1, Take(c, 1))
<1>1. PICK s \in Seq(Cells) : s = Byte(n) /\ Len(s) = 1 /\ Num(s) = n
  <2>1. Byte(n) \in Seq(Digits) /\ Len(Byte(n)) = 1 /\ Num(Byte(n)) = n
    BY ByteRead
  <2>2. Byte(n) \in Seq(Cells)
    BY <2>1, SeqMonotonic DEF Cells, Plain
  <2> QED BY <2>1, <2>2
<1>2. Follow(f, p, s, 1)
  BY <1>1 DEF Follow
<1>3. Take(c, 1).val = s /\ Ready(f, p + 1, Take(c, 1))
  BY <1>2, TakeHeld
<1> QED BY <1>1, <1>3

\* read_header accepts what write_header wrote, and finds it (format.rs).
LEMMA HeaderAccepted ==
    ASSUME NEW version \in {1, 2}, NEW dim \in Nat, NEW n \in Nat, dim <= UsizeMax, n <= UsizeMax,
           NEW region \in Seq(Plain), NEW f, FileParts(f, version, dim, n, region),
           NEW tag \in MetricTags, MetricHeld(f, tag)
    PROVE  ReadHeader(f) = [err |-> "Ok", header |-> HeaderOf(version, dim, tag, n, region),
                            rest |-> region]
<1>1. PICK w \in Nat \ {0}, ww \in Nat \ {0} : w = W32 /\ ww = W64 /\ ww = 2 * w
  BY Widths
<1>2. PICK b \in Nat, m \in Nat :
        /\ b = 4 + w + 3 * ww /\ b = BeforeCrc /\ HeaderCells = b + w
        /\ m = Len(region) /\ Len(f) = b + w + m
  <2>1. PICK m \in Nat : m = Len(region)
    BY LenProperties
  <2>2. BeforeCrc = 4 + w + 3 * ww /\ HeaderCells = BeforeCrc + w
    BY <1>1 DEF BeforeCrc, HeaderCells
  <2>3. PICK b \in Nat : b = 4 + w + 3 * ww
    OBVIOUS
  <2> QED BY <2>1, <2>2, <2>3 DEF FileParts
<1>3. /\ f \in Seq(Cells)
      /\ Holds(f, 0, Byte(MAGIC)) /\ Holds(f, 1, LE(version, w))
      /\ Holds(f, 1 + w, LE(2, ww)) /\ Holds(f, 1 + w + ww, INDEX_TYPE)
      /\ Holds(f, 3 + w + ww, LE(dim, ww)) /\ Holds(f, 3 + w + 2 * ww, Byte(tag))
      /\ Holds(f, 4 + w + 2 * ww, LE(n, ww))
      /\ Holds(f, b, Crc(region)) /\ Holds(f, b + w, region)
  <2> HIDE DEF Holds
  <2> QED BY <1>1, <1>2, TypeIsText DEF FileParts, FixedParts, MetricHeld
<1>4. version < Pow[w] /\ 2 < Pow[ww] /\ dim < Pow[ww] /\ n < Pow[ww]
  <2>1. PICK x \in Nat, y \in Nat, u \in Nat :
          x = Pow[w] /\ y = Pow[ww] /\ u = UsizeMax /\ u < y /\ Base <= x /\ Base <= y
    <3>1. Pow[1] = Base
      <4>1. Pow[0 + 1] = Base * Pow[0] /\ Pow[0] = 1
        BY PowDef
      <4> QED BY <4>1, WidthAssumption
    <3>2. Pow[1] <= Pow[w] /\ Pow[1] <= Pow[ww]
      BY <1>1, PowMonotone
    <3> QED BY <1>1, <3>1, <3>2, PowDef, WidthAssumption
  <2>2. 2 < Base /\ Base \in Nat
    BY WidthAssumption, TagAssumption DEF WAL_MAGIC
  <2> QED BY <2>1, <2>2, SMTT(30)
<1>5. MAGIC \in 0..(Base - 1) /\ tag \in 0..(Base - 1)
  BY WidthAssumption, TagAssumption DEF MAGIC, WAL_MAGIC, MetricTags
<1> DEFINE c == Cursor(f)
           magic == Take(c, 1)
           v == Take(magic, W32)
           len == Take(v, W64)
           t == Num(len.val)
           type == Take(len, t)
           d == Take(type, W64)
           metric == Take(d, 1)
           k == Take(metric, W64)
           crc == Take(k, W32)
<1> DEFINE checks ==
           << <<~magic.ok, "TruncatedHeader">>,
              <<Num(magic.val) # MAGIC, "BadMagic">>,
              <<~v.ok, "TruncatedHeader">>,
              <<Num(v.val) \notin MIN_SUPPORTED_VERSION..CURRENT_VERSION,
                "UnsupportedVersion">>,
              <<~len.ok, "TruncatedHeader">>,
              <<~FitsUsize(t), "InvalidPayload">>,
              <<t > MaxIndexTypeLen, "InvalidPayload">>,
              <<~type.ok, "TruncatedHeader">>,
              <<~Utf8(type.val), "InvalidPayload">>,
              <<~d.ok, "TruncatedHeader">>,
              <<~FitsUsize(Num(d.val)), "InvalidPayload">>,
              <<~metric.ok, "TruncatedHeader">>,
              <<Num(metric.val) \notin MetricTags, "InvalidMetric">>,
              <<~k.ok, "TruncatedHeader">>,
              <<~FitsUsize(Num(k.val)), "InvalidPayload">>,
              <<~crc.ok, "TruncatedHeader">> >>
<1>6. ReadHeader(f) = [err    |-> FirstError(checks),
                        header |-> [version |-> Num(v.val), index_type |-> type.val,
                                    dim |-> Num(d.val), metric |-> Num(metric.val),
                                    n_vectors |-> Num(k.val), crc32 |-> crc.val],
                        rest   |-> crc.rest]
  BY Zenon DEF ReadHeader
<1>7. /\ c = Cursor(f) /\ magic = Take(c, 1) /\ v = Take(magic, W32) /\ len = Take(v, W64)
      /\ t = Num(len.val) /\ type = Take(len, t) /\ d = Take(type, W64) /\ metric = Take(d, 1)
      /\ k = Take(metric, W64) /\ crc = Take(k, W32)
  OBVIOUS
<1> HIDE DEF checks, c, magic, v, len, t, type, d, metric, k, crc
<1>8. Ready(f, 0, c)
  BY <1>3, <1>7, LenProperties, ElementOfSeq DEF Ready, Stands, Cursor
<1>9. PICK l \in Nat : l = Len(f) /\ l = b + w + m
  BY <1>2
<1>10. Num(magic.val) = MAGIC /\ Ready(f, 1, magic)
  <2>1. 0 + 1 <= Len(f)
    BY <1>2, <1>9
  <2>2. Num(Take(c, 1).val) = MAGIC /\ Ready(f, 0 + 1, Take(c, 1))
    BY <1>3, <1>5, <1>8, <2>1, ByteHeld
  <2> QED BY <1>7, <2>2
<1>11. PICK p1 \in Nat : p1 = 1 + w /\ Num(v.val) = version /\ Ready(f, p1, v)
  <2>1. PICK p1 \in Nat : p1 = 1 + w /\ p1 <= Len(f)
    BY <1>2, <1>9
  <2>2. Holds(f, 1, LE(version, w))
    BY <1>3
  <2>3. Num(Take(magic, w).val) = version /\ Ready(f, 1 + w, Take(magic, w))
    BY <1>3, <1>4, <1>10, <2>1, <2>2, NumberHeld
  <2> QED BY <1>1, <1>7, <2>1, <2>3
<1>12. PICK p2 \in Nat : p2 = p1 + ww /\ t = 2 /\ Ready(f, p2, len)
  <2>1. PICK p2 \in Nat : p2 = p1 + ww /\ p2 <= Len(f)
    BY <1>2, <1>9, <1>11
  <2>2. Holds(f, p1, LE(2, ww))
    BY <1>3, <1>11
  <2>3. Num(Take(v, ww).val) = 2 /\ Ready(f, p1 + ww, Take(v, ww))
    BY <1>3, <1>4, <1>11, <2>1, <2>2, NumberHeld
  <2> QED BY <1>1, <1>7, <2>1, <2>3
<1>13. PICK p3 \in Nat : p3 = p2 + 2 /\ type.val = INDEX_TYPE /\ Ready(f, p3, type)
  <2>1. PICK p3 \in Nat : p3 = p2 + 2 /\ p3 <= Len(f)
    BY <1>2, <1>9, <1>11, <1>12
  <2>2. PICK s \in Seq(Cells) : s = INDEX_TYPE /\ Len(s) = 2
    BY TypeIsText, SeqMonotonic DEF Cells, Plain
  <2>3. Holds(f, p2, s)
    BY <1>3, <1>11, <1>12, <2>2
  <2>4. Follow(f, p2, s, 2)
    BY <2>1, <2>2, <2>3 DEF Follow
  <2>5. f \in Seq(Cells)
    BY <1>3
  <2>6. Take(len, 2).val = s /\ Ready(f, p2 + 2, Take(len, 2))
    BY <1>12, <2>2, <2>4, <2>5, TakeHeld
  <2> QED BY <1>7, <1>12, <2>1, <2>2, <2>6
<1>14. PICK p4 \in Nat : p4 = p3 + ww /\ Num(d.val) = dim /\ Ready(f, p4, d)
  <2>1. PICK p4 \in Nat : p4 = p3 + ww /\ p4 <= Len(f)
    BY <1>2, <1>9, <1>11, <1>12, <1>13
  <2>2. p3 = 3 + w + ww
    BY <1>11, <1>12, <1>13
  <2>3. Holds(f, p3, LE(dim, ww))
    BY <1>3, <2>2
  <2>4. Num(Take(type, ww).val) = dim /\ Ready(f, p3 + ww, Take(type, ww))
    BY <1>3, <1>4, <1>13, <2>1, <2>3, NumberHeld, SMTT(30)
  <2> QED BY <1>1, <1>7, <2>1, <2>4
<1>15. PICK p5 \in Nat : p5 = p4 + 1 /\ Num(metric.val) = tag /\ Ready(f, p5, metric)
  <2>1. PICK p5 \in Nat : p5 = p4 + 1 /\ p5 <= Len(f)
    BY <1>2, <1>9, <1>11, <1>12, <1>13, <1>14
  <2>2. p4 = 3 + w + 2 * ww
    BY <1>11, <1>12, <1>13, <1>14
  <2>3. Holds(f, p4, Byte(tag))
    BY <1>3, <2>2
  <2>4. Num(Take(d, 1).val) = tag /\ Ready(f, p4 + 1, Take(d, 1))
    BY <1>3, <1>5, <1>14, <2>1, <2>3, ByteHeld
  <2> QED BY <1>7, <2>1, <2>4
<1>16. PICK p6 \in Nat : p6 = p5 + ww /\ Num(k.val) = n /\ Ready(f, p6, k)
  <2>1. PICK p6 \in Nat : p6 = p5 + ww /\ p6 <= Len(f)
    BY <1>2, <1>9, <1>11, <1>12, <1>13, <1>14, <1>15
  <2>2. p5 = 4 + w + 2 * ww
    BY <1>11, <1>12, <1>13, <1>14, <1>15
  <2>3. Holds(f, p5, LE(n, ww))
    BY <1>3, <2>2
  <2>4. Num(Take(metric, ww).val) = n /\ Ready(f, p5 + ww, Take(metric, ww))
    BY <1>3, <1>4, <1>15, <2>1, <2>3, NumberHeld, SMTT(30)
  <2> QED BY <1>1, <1>7, <2>1, <2>4
<1>17. p6 = b
  BY <1>2, <1>11, <1>12, <1>13, <1>14, <1>15, <1>16
<1>18. crc.val = Crc(region) /\ Ready(f, b + w, crc)
  <2>1. PICK s \in Seq(Cells) : s = Crc(region) /\ Len(s) = w
    BY <1>1, CrcTyped
  <2>2. b + w <= Len(f)
    BY <1>2
  <2>3. Holds(f, b, s)
    BY <1>3, <2>1
  <2>4. Follow(f, b, s, w)
    BY <2>1, <2>2, <2>3 DEF Follow
  <2>5. Ready(f, b, k) /\ w \in Nat /\ crc = Take(k, w)
    BY <1>1, <1>7, <1>16, <1>17
  <2> QED BY <1>2, <1>3, <2>1, <2>4, <2>5, TakeHeld, SMTT(30)
<1>19. crc.rest = region
  <2>1. PICK q \in Nat : q = b + w
    BY <1>2
  <2>2. crc.rest \in Seq(Cells) /\ Len(crc.rest) = m /\ \A i \in 1..m : crc.rest[i] = f[q + i]
    <3>1. Stands(f, q, crc)
      BY <1>18, <2>1 DEF Ready
    <3>2. Len(f) - q = m
      BY <1>2, <1>9, <2>1
    <3> QED BY <3>1, <3>2 DEF Stands
  <2>3. \A i \in 1..m : f[q + i] = region[i]
    BY <1>2, <1>3, <2>1 DEF Holds
  <2>4. PICK r \in Seq(Cells) : r = region /\ Len(r) = m
    BY <1>2, SeqMonotonic DEF Cells
  <2>5. PICK s \in Seq(Cells) : s = crc.rest
    BY <2>2
  <2>6. Len(s) = Len(r) /\ \A i \in 1..Len(s) : s[i] = r[i]
    BY <2>2, <2>3, <2>4, <2>5
  <2> QED BY <2>4, <2>5, <2>6, SeqEqual
<1>20. /\ magic.ok = TRUE /\ v.ok = TRUE /\ len.ok = TRUE /\ type.ok = TRUE /\ d.ok = TRUE
       /\ metric.ok = TRUE /\ k.ok = TRUE /\ crc.ok = TRUE
  BY <1>10, <1>11, <1>12, <1>13, <1>14, <1>15, <1>16, <1>18 DEF Ready
<1>21. FirstError(checks) = "Ok"
  <2>1. DOMAIN checks = 1..16
    BY DEF checks
  <2>2. /\ ~checks[1][1] /\ ~checks[3][1] /\ ~checks[5][1] /\ ~checks[8][1] /\ ~checks[10][1]
        /\ ~checks[12][1] /\ ~checks[14][1] /\ ~checks[16][1]
    BY <1>20 DEF checks
  <2>3. ~checks[2][1]
    BY <1>10 DEF checks
  <2>4. ~checks[4][1]
    <3>1. version \in MIN_SUPPORTED_VERSION..CURRENT_VERSION
      BY DEF MIN_SUPPORTED_VERSION, CURRENT_VERSION
    <3> QED BY <1>11, <3>1 DEF checks
  <2>5. ~checks[6][1] /\ ~checks[7][1]
    <3>1. FitsUsize(2) /\ ~(2 > MaxIndexTypeLen)
      <4>1. 2 <= UsizeMax
        <5>1. PICK x \in Nat, u \in Nat : x = Pow[w] /\ u = UsizeMax /\ x <= u + 1 /\ Base <= x
          <6>1. Pow[1] = Base
            <7>1. Pow[0 + 1] = Base * Pow[0] /\ Pow[0] = 1
              BY PowDef
            <7> QED BY <7>1, WidthAssumption
          <6>2. Pow[1] <= Pow[w]
            BY <1>1, PowMonotone
          <6> QED BY <1>1, <6>1, <6>2, PowDef, WidthAssumption
        <5>2. 3 <= Base /\ Base \in Nat
          BY WidthAssumption, TagAssumption DEF WAL_MAGIC
        <5> QED BY <5>1, <5>2
      <4>2. 2 <= MaxIndexTypeLen /\ MaxIndexTypeLen \in Nat
        BY FormatAssumption, TypeIsText
      <4> QED BY <4>1, <4>2 DEF FitsUsize
    <3>2. ~checks[6][1]
      BY <1>12, <3>1 DEF checks
    <3>3. ~checks[7][1]
      BY <1>12, <3>1 DEF checks
    <3> QED BY <3>2, <3>3
  <2>6. ~checks[9][1]
    BY <1>13, TypeIsText DEF checks
  <2>7. ~checks[11][1]
    BY <1>14 DEF checks, FitsUsize
  <2>8. ~checks[13][1]
    <3> QED BY <1>15 DEF checks
  <2>9. ~checks[15][1]
    BY <1>16 DEF checks, FitsUsize
  <2> HIDE DEF checks
  <2>10. PICK L \in Nat : L = 16
    OBVIOUS
  <2>11. \A i \in 1..16 : ~checks[i][1]
    <3>1. \A i \in 1..8 : ~checks[i][1]
      BY <2>2, <2>3, <2>4, <2>5, SMTT(30)
    <3>2. \A i \in 9..16 : ~checks[i][1]
      BY <2>2, <2>6, <2>7, <2>8, <2>9, SMTT(30)
    <3>3. \A i \in 1..16 : i \in 1..8 \/ i \in 9..16
      OBVIOUS
    <3> QED BY <3>1, <3>2, <3>3, Zenon
  <2> QED BY <2>1, <2>10, <2>11, NoError
<1> QED BY <1>6, <1>11, <1>13, <1>14, <1>15, <1>16, <1>18, <1>19, <1>21 DEF HeaderOf

\* No codec makes less of a payload than the guard of decode allows: the
\* ratio of saved payloads is small, says the comment on
\* MAX_DECOMPRESS_RATIO.
RatioIsSmall(raw) ==
    \A tag \in {SCHEME_ZSTD, SCHEME_LZ4} : Len(raw) <= Len(Deflate(tag, raw)) * MaxRatio

\* The codec of a scheme is the one its tag stands for.
LEMMA TagOfKind ==
    ASSUME NEW scheme, scheme.kind \in Kinds
    PROVE  /\ SchemeTag(scheme) = SchemeTag([kind |-> scheme.kind])
           /\ scheme.kind = "none" <=> SchemeTag(scheme) = SCHEME_NONE
           /\ scheme.kind # "none" => SchemeTag(scheme) \in {SCHEME_ZSTD, SCHEME_LZ4}
<1>1. CASE scheme.kind = "none"
  BY <1>1 DEF SchemeTag, SCHEME_NONE, SCHEME_ZSTD, SCHEME_LZ4
<1>2. CASE scheme.kind = "zstd"
  BY <1>2 DEF SchemeTag, SCHEME_NONE, SCHEME_ZSTD, SCHEME_LZ4
<1>3. CASE scheme.kind = "lz4"
  BY <1>3 DEF SchemeTag, SCHEME_NONE, SCHEME_ZSTD, SCHEME_LZ4
<1> QED BY <1>1, <1>2, <1>3 DEF Kinds

\* decode accepts what encode made in a build that has its codec, if the
\* ratio is small (compression.rs).
LEMMA PayloadAccepted ==
    ASSUME CodecsAreFinite, NEW raw \in Seq(Digits), Len(raw) <= UsizeMax,
           RatioIsSmall(raw), NEW scheme, scheme.kind \in Kinds,
           NEW features, Supported([kind |-> scheme.kind], features)
    PROVE  Payload(CURRENT_VERSION, Region(raw, scheme), features) = [err |-> "Ok", raw |-> raw]
<1>1. PICK a \in Seq(Digits), b \in Seq(Digits), data \in Seq(Plain) :
        RegionParts(raw, scheme, a, b, data)
  BY RegionWritten
<1>2. a \in Seq(Plain) /\ b \in Seq(Plain)
  BY SeqMonotonic DEF Plain
<1>3. PICK region : region = Region(raw, scheme)
  OBVIOUS
<1>4. PICK k \in 0..2 : k = SchemeTag(scheme)
  BY <1>1 DEF RegionParts
<1>5. /\ region = a \o (b \o data) /\ Len(a) = 1 /\ Len(b) = W64 /\ Num(a) = k
      /\ b = LE(Len(raw), W64) /\ data = Compress(scheme, raw)
  BY <1>1, <1>3, <1>4 DEF RegionParts
<1>6. PICK n \in Nat : n = Len(raw) /\ n <= UsizeMax /\ Num(b) = n
  BY <1>5, LenProperties, UsizeRead
<1>7. PICK c0 : c0 = Cursor(region)
  OBVIOUS
<1>8. PICK bd \in Seq(Plain) : bd = b \o data
  BY <1>2, ConcatProperties
<1>9. Take(c0, 1) = Read(a, bd)
  <2>1. At(c0, a \o bd)
    BY <1>5, <1>7, <1>8 DEF At, Cursor
  <2> QED BY <1>2, <1>5, <2>1, TakeNext
<1>10. PICK tag : tag = Read(a, bd)
  OBVIOUS
<1>11. tag.val = a /\ At(tag, b \o data)
  BY <1>8, <1>10, ReadOn
<1>12. Take(tag, W64) = Read(b, data)
  BY <1>2, <1>5, <1>11, TakeNext
<1>13. PICK len : len = Read(b, data)
  OBVIOUS
<1>14. len.rest = data /\ len.val = b /\ len.ok = TRUE
  BY <1>13 DEF Read
<1>15. Take(Cursor(region), 1) = tag /\ Take(tag, W64) = len
  BY <1>7, <1>9, <1>10, <1>12, <1>13
<1>16. PICK d : d = Decompress(k, data, n, features)
  OBVIOUS
<1>17. d.err = "Ok" /\ d.raw = raw
  <2>1. CASE k = SCHEME_NONE
    <3>1. data = raw
      BY <1>1, <1>4, <2>1 DEF RegionParts
    <3> QED BY <1>16, <2>1, <3>1 DEF Decompress
  <2>2. CASE k # SCHEME_NONE
    <3>1. /\ scheme.kind # "none" /\ k \in {SCHEME_ZSTD, SCHEME_LZ4}
          /\ k = SchemeTag([kind |-> scheme.kind])
      BY <1>4, <2>2, TagOfKind
    <3>2. data = Deflate(k, raw)
      BY <1>4, <1>5, <3>1 DEF Compress
    <3>3. data # <<>> /\ data[1] = <<Base + k, raw>>
      BY <1>1, <1>4, <2>2 DEF RegionParts
    <3>4. Inflate(data) = raw
      <4>1. Len(data[1]) = 2 /\ data[1][2] = raw
        BY <3>3
      <4> QED BY <3>3, <4>1 DEF Inflate
    <3>5. Inflates(k, data)
      BY <3>2, <3>4 DEF Inflates
    <3>6. k \in Codecs(features)
      <4>1. scheme.kind \in features
        BY <3>1 DEF Supported
      <4> QED BY <3>1, <4>1 DEF Codecs
    <3>7. ~(n > Len(data) * MaxRatio)
      <4>1. PICK l \in Nat : l = Len(data)
        BY LenProperties
      <4>2. n <= l * MaxRatio
        BY <1>6, <3>1, <3>2, <4>1 DEF RatioIsSmall
      <4>3. MaxRatio \in Nat
        BY FormatAssumption
      <4>4. PICK m \in Nat : m = l * MaxRatio
        BY <4>3
      <4> QED BY <4>1, <4>2, <4>4
    <3> DEFINE checks == << <<n > Len(data) * MaxRatio, "InvalidPayload">>,
                            <<k \notin {SCHEME_ZSTD, SCHEME_LZ4}, "InvalidPayload">>,
                            <<k \notin Codecs(features), "Unsupported">>,
                            <<~Inflates(k, data), "Compression">>,
                            <<Len(Inflate(data)) # n, "Compression">> >>
    <3>8. d = [err |-> FirstError(checks), raw |-> Inflate(data)]
      BY <1>16, <2>2 DEF Decompress
    <3>9. DOMAIN checks = 1..5
      OBVIOUS
    <3>10. ~checks[1][1]
      BY <3>7
    <3>11. ~checks[2][1] /\ ~checks[3][1] /\ ~checks[4][1]
      BY <3>1, <3>5, <3>6
    <3>12. ~checks[5][1]
      BY <1>6, <3>4
    <3> HIDE DEF checks
    <3>13. FirstError(checks) = "Ok"
      <4>1. PICK L \in Nat : L = 5
        OBVIOUS
      <4>2. \A i \in 1..5 : ~checks[i][1]
        BY <3>10, <3>11, <3>12
      <4> QED BY <3>9, <4>1, <4>2, NoError
    <3> QED BY <3>4, <3>8, <3>13
  <2> QED BY <2>1, <2>2
<1> DEFINE checks == << <<~len.ok, "TruncatedPayload">>,
                        <<~FitsUsize(Num(len.val)), "InvalidPayload">>,
                        <<d.err # "Ok", d.err>> >>
<1>18. Payload(CURRENT_VERSION, region, features) = [err |-> FirstError(checks), raw |-> d.raw]
  <2>1. d = Decompress(Num(tag.val), len.rest, Num(len.val), features)
    BY <1>5, <1>6, <1>11, <1>14, <1>16
  <2>2. ~(CURRENT_VERSION < 2)
    BY DEF CURRENT_VERSION
  <2> QED BY <1>15, <2>1, <2>2 DEF Payload
<1>18a. DOMAIN checks = 1..3
  OBVIOUS
<1>19. ~checks[1][1]
  BY <1>14
<1>19a. ~checks[3][1]
  BY <1>17
<1>20. ~checks[2][1]
  BY <1>6, <1>14 DEF FitsUsize
<1> HIDE DEF checks
<1>21. FirstError(checks) = "Ok"
  <2>1. PICK L \in Nat : L = 3
    OBVIOUS
  <2>2. \A i \in 1..3 : ~checks[i][1]
    BY <1>19, <1>19a, <1>20
  <2> QED BY <1>18a, <2>1, <2>2, NoError
<1> QED BY <1>3, <1>17, <1>18, <1>21

\* The sizes of an index that fits the memory are numbers of its header.
LEMMA SizesFit ==
    ASSUME NEW dim \in Nat, NEW n \in Nat, FitsMemory(dim, n)
    PROVE  dim <= UsizeMax /\ n <= UsizeMax /\ PayloadCells(dim, n) <= UsizeMax
<1>1. PICK m \in Nat : m = n * RowCells(dim) /\ n <= m
  BY CountFits
<1>2. PayloadCells(dim, n) = 2 * W64 + m
  BY <1>1, CountFits
<1>3. PICK u \in Nat, x \in Nat : u = UsizeMax /\ x = W64
  BY WidthAssumption, Widths
<1>4. dim <= u /\ 2 * x + m <= u
  BY <1>2, <1>3 DEF FitsMemory
<1> QED BY <1>1, <1>2, <1>3, <1>4, SMTT(30)

\* An index that does not have the metric its load_from sets is refused by
\* every load of its own snapshot (persisted.rs:206).
LEMMA OnlyCosineLoads ==
    ASSUME CodecsAreFinite, NEW dim \in Nat, NEW ix \in EvenIndexesOf(dim), Storable(dim, Len(ix.rows)),
           NEW g, NEW kind, Written(g, ix, kind),
           NEW type, NEW features, Load(g, type, features).err = "Ok"
    PROVE  ix.metric = Cosine
<1>1. PICK n \in Nat, tag \in MetricTags : n = Len(ix.rows) /\ tag = ix.metric
  BY LenProperties DEF EvenIndexesOf, Rows
<1>2. PICK v \in {1, 2} : v = VersionOf(kind)
  BY DEF VersionOf
<1>3. PICK region \in Seq(Plain) : FileParts(g, v, dim, n, region) /\ MetricHeld(g, tag)
  BY <1>1, <1>2, WrittenParts
<1>4. dim <= UsizeMax /\ n <= UsizeMax
  BY <1>1, SizesFit DEF Storable
<1>5. ReadHeader(g).header = HeaderOf(v, dim, tag, n, region)
  BY <1>3, <1>4, HeaderAccepted
<1>6. PICK h : h = ReadHeader(g) /\ h.header.metric = tag
  BY <1>5 DEF HeaderOf
<1>7. PICK payload : payload = Payload(h.header.version, h.rest, features)
  OBVIOUS
<1>8. PICK inner : inner = LoadFrom(payload.raw) /\ inner.ix.metric = Cosine
  <2>1. \E d, rows : LoadFrom(payload.raw).ix = [dim |-> d, metric |-> Cosine, rows |-> rows]
    BY Zenon DEF LoadFrom
  <2> QED BY <2>1
<1>9. Load(g, type, features) = Assemble(h, payload, inner, type)
  BY <1>6, <1>7, <1>8 DEF Load
<1>10. inner.ix.metric = h.header.metric
  BY <1>9, AssemblePasses
<1> QED BY <1>1, <1>6, <1>8, <1>10

\* What load (persisted.rs) makes of a snapshot that nothing happened to, in
\* either format and with every codec of the build that reads it: an index
\* with the metric Cosine comes back as it was, and one with another metric
\* is refused, because its own load_from does not agree with the header.
\* Every other check lets pass what write_snapshot wrote.
THEOREM SavedIsLoaded ==
    ASSUME CodecsAreFinite, NEW dim \in Nat, NEW ix \in EvenIndexesOf(dim), Storable(dim, Len(ix.rows)),
           RatioIsSmall(SaveTo(ix)), NEW g, NEW kind, Written(g, ix, kind),
           NEW features, kind \in Kinds => Supported([kind |-> kind], features)
    PROVE  Load(g, INDEX_TYPE, features) =
             [err |-> IF ix.metric = Cosine THEN "Ok" ELSE "InvalidPayload", ix |-> Reloaded(ix)]
<1>1. PICK rows \in Seq(Rows(dim)), n \in Nat, tag \in MetricTags :
        rows = ix.rows /\ n = Len(rows) /\ tag = ix.metric
  BY LenProperties DEF EvenIndexesOf, Rows
<1>2. PICK raw \in Seq(Digits) : raw = SaveTo(ix) /\ Len(raw) = PayloadCells(dim, n)
  BY <1>1, PayloadSaved
<1>3. PICK v \in {1, 2} : v = VersionOf(kind)
  BY DEF VersionOf
<1>4. PICK region \in Seq(Plain) :
        /\ FileParts(g, v, dim, n, region) /\ MetricHeld(g, tag)
        /\ \A fs : Payload(v, region, fs).raw = raw
        /\ kind \in Kinds => \E scheme : scheme.kind = kind /\ region = Region(raw, scheme)
  BY <1>1, <1>2, <1>3, WrittenParts, SMTT(30)
<1>5. FitsMemory(dim, n)
  BY <1>1 DEF Storable
<1>6. dim <= UsizeMax /\ n <= UsizeMax /\ Len(raw) <= UsizeMax
  BY <1>2, <1>5, SizesFit
<1>7. PICK h : /\ h = ReadHeader(g)
               /\ h = [err |-> "Ok", header |-> HeaderOf(v, dim, tag, n, region), rest |-> region]
  BY <1>4, <1>6, HeaderAccepted
<1>8. PICK payload : payload = Payload(v, region, features)
  OBVIOUS
<1>9. payload.err = "Ok" /\ payload.raw = raw
  <2>1. CASE kind \in Kinds
    <3>1. PICK scheme : scheme.kind = kind /\ region = Region(raw, scheme)
      BY <1>4, <2>1
    <3>2. v = CURRENT_VERSION
      BY <1>3, <2>1 DEF VersionOf, Kinds, CURRENT_VERSION
    <3>3. Supported([kind |-> scheme.kind], features)
      BY <2>1, <3>1
    <3>4. RatioIsSmall(raw)
      BY <1>2
    <3> QED BY <1>6, <1>8, <2>1, <3>1, <3>2, <3>3, <3>4, PayloadAccepted
  <2>2. CASE kind \notin Kinds
    <3>1. v = 1
      BY <1>3, <2>2 DEF Written, VersionOf
    <3>2. payload.err = "Ok"
      BY <1>8, <3>1 DEF Payload
    <3> QED BY <1>4, <1>8, <3>2
  <2> QED BY <2>1, <2>2
<1>10. PICK inner : inner = LoadFrom(payload.raw) /\ inner = [err |-> "Ok", ix |-> Reloaded(ix)]
  BY <1>1, <1>2, <1>5, <1>9, LoadFromInverts
<1>11. Load(g, INDEX_TYPE, features) = Assemble(h, payload, inner, INDEX_TYPE)
  <2>1. h.header.version = v /\ h.rest = region
    BY <1>7 DEF HeaderOf
  <2> QED BY <1>7, <1>8, <1>10, <2>1 DEF Load
<1> DEFINE checks ==
         << <<h.err # "Ok", h.err>>,
            <<h.header.index_type # INDEX_TYPE, "InvalidIndexType">>,
            <<~Intact(h.rest, h.header.crc32), "ChecksumMismatch">>,
            <<payload.err # "Ok", payload.err>>,
            <<inner.err # "Ok", inner.err>>,
            <<inner.ix.dim # h.header.dim, "InvalidPayload">>,
            <<inner.ix.metric # h.header.metric, "InvalidPayload">>,
            <<Len(inner.ix.rows) # h.header.n_vectors, "InvalidPayload">> >>
<1>12. Load(g, INDEX_TYPE, features) = [err |-> FirstError(checks), ix |-> inner.ix]
  BY <1>11 DEF Assemble
<1>13. DOMAIN checks = 1..8
  OBVIOUS
<1>14. /\ h.header.index_type = INDEX_TYPE /\ Intact(h.rest, h.header.crc32)
       /\ h.header.dim = dim /\ h.header.metric = tag /\ h.header.n_vectors = n
       /\ inner.ix.dim = dim /\ inner.ix.metric = Cosine /\ Len(inner.ix.rows) = n
       /\ h.err = "Ok" /\ inner.err = "Ok"
  BY <1>1, <1>7, <1>10, ReloadedRows DEF HeaderOf, Intact
<1>15. ~checks[1][1]
  BY <1>14
<1>15a. ~checks[2][1]
  BY <1>14
<1>15b. ~checks[3][1]
  BY <1>14
<1>15c. ~checks[4][1]
  BY <1>9
<1>16. ~checks[5][1]
  BY <1>14
<1>16a. ~checks[6][1]
  BY <1>14
<1>16b. checks[7][2] = "InvalidPayload" /\ (checks[7][1] <=> tag # Cosine)
  BY <1>14
<1>16c. ~checks[8][1]
  BY <1>14
<1> HIDE DEF checks
<1>17. PICK L \in Nat : L = 8
  OBVIOUS
<1>18. \A i \in 1..8 : i # 7 => ~checks[i][1]
  BY <1>15, <1>15a, <1>15b, <1>15c, <1>16, <1>16a, <1>16c, SMTT(30)
<1>19. CASE tag = Cosine
  <2>1. \A i \in 1..8 : ~checks[i][1]
    BY <1>16b, <1>18, <1>19
  <2>2. FirstError(checks) = "Ok"
    BY <1>13, <1>17, <2>1, NoError
  <2> QED BY <1>1, <1>10, <1>12, <1>19, <2>2
<1>20. CASE tag # Cosine
  <2>1. PICK z \in 1..8 : checks[z][1] /\ FirstError(checks) = checks[z][2]
    <3>1. \E i \in 1..8 : checks[i][1]
      <4>1. 7 \in 1..8 /\ checks[7][1]
        BY <1>16b, <1>20
      <4> QED BY <4>1
    <3>2. DOMAIN checks = 1..L /\ \E i \in 1..L : checks[i][1]
      BY <1>13, <1>17, <3>1
    <3> QED BY <1>17, <3>2, FirstErrorFound
  <2>2. FirstError(checks) = "InvalidPayload"
    BY <1>16b, <1>18, <2>1
  <2> QED BY <1>1, <1>10, <1>12, <1>20, <2>2
<1> QED BY <1>19, <1>20
=============================================================================
