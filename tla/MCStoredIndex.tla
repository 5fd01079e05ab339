---------------------------- MODULE MCStoredIndex ----------------------------
(***************************************************************************)
(* StoredIndex for TLC: digits below 32, numbers of one cell (u32) and two *)
(* (u64) on a host whose usize lies between them, vectors of dimension 1.  *)
(***************************************************************************)
EXTENDS StoredIndex

Row(id, x) == [id |-> LE(id, W64), vector |-> <<LE(x, W32)>>]

DotProduct == 1

\* Two indexes that come back from a load, and one whose metric does not.
MCBases ==
    {[dim |-> 1, metric |-> Cosine, rows |-> <<>>],
     [dim |-> 1, metric |-> Cosine, rows |-> <<Row(0, 0)>>],
     [dim |-> 1, metric |-> DotProduct, rows |-> <<>>]}

\* One row of a long vector of zeros, which zstd makes very short.
MCFlatBases ==
    {[dim |-> 8, metric |-> Cosine,
      rows |-> <<[id |-> LE(0, W64),
                             vector |-> [i \in 1..8 |-> LE(0, W32)]]>>]}

U64(id) == [kind |-> VID_U64, bits |-> LE(id, W64)]

Entry(key, kind, bits) ==
    [key |-> LE(key, 1), value |-> [kind |-> kind, bits |-> bits]]

InsertRecord(id, x, meta) ==
    [op |-> OP_INSERT, id |-> id, vector |-> <<LE(x, W32)>>, meta |-> meta]

\* A plain insert; a delete; an id of bytes with metadata of every kind; a
\* string that makes the record too long to be read back; and a vector of
\* another length than that of the index.
MCRecords ==
    {InsertRecord(U64(1), 3, <<>>),
     [op |-> OP_DELETE, id |-> U64(1), vector |-> <<>>, meta |-> <<>>],
     InsertRecord([kind |-> VID_BYTES, bits |-> <<<<8>>>>], 3,
                  <<<<Entry(4, VAL_STRING, <<<<6>>>>), Entry(5, VAL_INT, LE(40, W64)),
                      Entry(6, VAL_BOOL, <<<<1>>>>), Entry(7, VAL_NULL, <<>>)>>>>),
     InsertRecord(U64(2), 0, <<<<Entry(4, VAL_STRING, [i \in 1..17 |-> <<1>>])>>>>),
     [InsertRecord(U64(1), 3, <<>>) EXCEPT !.vector = @ \o @]}

Handle(type, features, kind, level) ==
    [type |-> type, features |-> features, scheme |-> [kind |-> kind, level |-> level]]

Plain == Handle(INDEX_TYPE, {}, "none", 0)
BadLevel == Handle(INDEX_TYPE, {"zstd", "lz4"}, "zstd", 99)

MCConfigs ==
    {Plain, BadLevel,
     Handle(INDEX_TYPE, {"zstd", "lz4"}, "zstd", 3),
     Handle(INDEX_TYPE, {"zstd", "lz4"}, "lz4", 0),
     Handle(INDEX_TYPE, {}, "zstd", 3),
     Handle(<<<<6>>, <<5>>>>, {"zstd", "lz4"}, "none", 0)}

MCAppendConfigs == {Plain}
MCLogConfigs == {Plain, BadLevel}

\* Zstd makes little of equal cells in a row; LZ4's ratio is bounded.
MCCodecLen(tag, raw) ==
    IF tag = SCHEME_ZSTD
      THEN Cardinality({i \in DOMAIN raw : i = 1 \/ raw[i] # raw[i - 1]})
      ELSE Len(raw)
=============================================================================
