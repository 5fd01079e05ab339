------------------------------- MODULE VecIndex -------------------------------
(***************************************************************************)
(* The index of examples/wal_recovery.rs, the smallest one a user of the   *)
(* crate writes: rows of an id and a vector, and the payload that stands   *)
(* for them in a snapshot.  It keeps the U64 ids only, and no metadata; it  *)
(* takes a vector of any length, and a snapshot does not keep its metric.  *)
(***************************************************************************)
EXTENDS WalFrames

INDEX_TYPE == <<<<22>>, <<5>>>>   \* "vec"

\* metric_to_tag and tag_to_metric: the tags of the five metrics.
MetricTags == 0..4
Cosine == 0

\* All the indexes of a dimension.
IndexesOf(dim) ==
    [dim : {dim}, metric : MetricTags, rows : Seq([id : Words(W64), vector : Vectors])]

\* Every row has the dimension: what save_to writes, load_from can cut into
\* rows again.
Even(ix) == \A i \in DOMAIN ix.rows : Len(ix.rows[i].vector) = ix.dim

EvenIndexesOf(dim) ==
    [dim : {dim}, metric : MetricTags,
     rows : Seq([id : Words(W64), vector : [1..dim -> Words(W32)]])]

\* IndexCore::insert and delete: neither refuses anything.
Insert(ix, r) ==
    IF r.id.kind = VID_U64
      THEN [ix EXCEPT !.rows = Append(@, [id |-> r.id.bits, vector |-> r.vector])]
      ELSE ix

\* Of the first i rows, those that do not have the id.
Retained(rows, id) ==
    LET kept[i \in 0..Len(rows)] ==
          IF i = 0 THEN <<>>
          ELSE IF rows[i].id = id THEN kept[i - 1] ELSE Append(kept[i - 1], rows[i])
    IN  kept

Delete(ix, r) ==
    IF r.id.kind = VID_U64
      THEN [ix EXCEPT !.rows = Retained(@, r.id.bits)[Len(@)]]
      ELSE ix

ApplyRecord(ix, r) == IF r.op = OP_INSERT THEN Insert(ix, r) ELSE Delete(ix, r)

\* The index after the first n records.
Applying(ix, rs) ==
    LET after[n \in 0..Len(rs)] ==
          IF n = 0 THEN ix ELSE ApplyRecord(after[n - 1], rs[n])
    IN  after

ApplyAll(ix, rs) == Applying(ix, rs)[Len(rs)]

-----------------------------------------------------------------------------
(* Persistable *)

RowCells(dim) == W64 + dim * W32

\* The length of the payload of n rows.
PayloadCells(dim, n) == 2 * W64 + n * RowCells(dim)

SaveRow(row) == row.id \o Flat(row.vector, W32)

\* save_to, of an index that is Even.  The metric is not written.
SaveTo(ix) ==
    LE(ix.dim, W64) \o LE(Len(ix.rows), W64)
      \o Flat([i \in DOMAIN ix.rows |-> SaveRow(ix.rows[i])], RowCells(ix.dim))

\* Vec::with_capacity panics above isize::MAX bytes.  A row is a u64 and a
\* fat pointer.
TooManyBytes(n) == n > UsizeMax \div 2

RowSize == 2 * W64

ReadRow(s, dim) ==
    [id |-> SubSeq(s, 1, W64),
     vector |-> [j \in 1..dim |-> Chunk(SubSeq(s, W64 + 1, Len(s)), W32, j)]]

\* load_from: dim and n are converted with `as usize', a short payload is
\* an I/O error, what follows the rows is not looked at, and the metric is
\* always the same.
LoadFrom(raw) ==
    LET d == Take(Cursor(raw), W64)
        c == Take(d, W64)
        dim == AsUsize(Num(d.val))
        n == AsUsize(Num(c.val))
        rows == Take(c, n * RowCells(dim))
    IN  [err |-> FirstError(
             << <<~c.ok, "Io">>,
                <<TooManyBytes(n * RowSize), "Panic">>,
                <<n > 0 /\ Take(c, W64).ok /\ TooManyBytes(dim * W32), "Panic">>,
                <<~rows.ok, "Io">> >>),
         ix |-> [dim |-> dim, metric |-> Cosine,
                 rows |-> [i \in 1..(IF rows.ok THEN n ELSE 0) |->
                             ReadRow(Chunk(rows.val, RowCells(dim), i), dim)]]]

\* What is left of an index that is saved and loaded: all but its metric.
Reloaded(ix) == [ix EXCEPT !.metric = Cosine]
=============================================================================
