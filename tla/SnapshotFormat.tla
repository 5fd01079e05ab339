---------------------------- MODULE SnapshotFormat ----------------------------
(***************************************************************************)
(* The bytes of a snapshot (src/format.rs, src/compression.rs): what       *)
(* write_snapshot writes for an index, and the checks load makes of a      *)
(* file, in their order, up to the index it rebuilds.                      *)
(*                                                                         *)
(* A compression scheme is [kind, level].  The zstd and lz4 libraries are  *)
(* external: a compressed payload is one cell that holds what was          *)
(* compressed, and zeros up to the length CodecLen gives it.               *)
(***************************************************************************)
EXTENDS VecIndex

CONSTANTS
    MaxIndexTypeLen,   \* MAX_INDEX_TYPE_LEN
    MaxRatio,          \* MAX_DECOMPRESS_RATIO
    CodecLen(_, _)     \* cells that a codec makes of a payload

ASSUME FormatAssumption ==
    /\ MaxIndexTypeLen \in Nat /\ MaxRatio \in Nat
    /\ Len(INDEX_TYPE) <= MaxIndexTypeLen

\* PersistError, as far as load returns it for these files; "Panic"
\* is the end of a thread that an index's own load_from brings about.
Errors == {"Io", "BadMagic", "UnsupportedVersion", "ChecksumMismatch",
           "TruncatedHeader", "TruncatedPayload", "InvalidMetric",
           "InvalidIndexType", "InvalidPayload", "Compression", "Unsupported"}

MAGIC == 29
MIN_SUPPORTED_VERSION == 1
CURRENT_VERSION == 2

SCHEME_NONE == 0
SCHEME_ZSTD == 1
SCHEME_LZ4 == 2

-----------------------------------------------------------------------------
(* The header *)

WriteHeader(h) ==
    Byte(MAGIC) \o LE(h.version, W32)
      \o LE(Len(h.index_type), W64) \o h.index_type
      \o LE(h.dim, W64) \o Byte(h.metric) \o LE(h.n_vectors, W64) \o h.crc32

ReadHeader(f) ==
    LET magic == Take(Cursor(f), 1)
        version == Take(magic, W32)
        len == Take(version, W64)
        type == Take(len, Num(len.val))
        dim == Take(type, W64)
        metric == Take(dim, 1)
        n == Take(metric, W64)
        crc == Take(n, W32)
    IN  [err |-> FirstError(
             << <<~magic.ok, "TruncatedHeader">>,
                <<Num(magic.val) # MAGIC, "BadMagic">>,
                <<~version.ok, "TruncatedHeader">>,
                <<Num(version.val) \notin MIN_SUPPORTED_VERSION..CURRENT_VERSION,
                  "UnsupportedVersion">>,
                <<~len.ok, "TruncatedHeader">>,
                <<~FitsUsize(Num(len.val)), "InvalidPayload">>,
                <<Num(len.val) > MaxIndexTypeLen, "InvalidPayload">>,
                <<~type.ok, "TruncatedHeader">>,
                <<~Utf8(type.val), "InvalidPayload">>,
                <<~dim.ok, "TruncatedHeader">>,
                <<~FitsUsize(Num(dim.val)), "InvalidPayload">>,
                <<~metric.ok, "TruncatedHeader">>,
                <<Num(metric.val) \notin MetricTags, "InvalidMetric">>,
                <<~n.ok, "TruncatedHeader">>,
                <<~FitsUsize(Num(n.val)), "InvalidPayload">>,
                <<~crc.ok, "TruncatedHeader">> >>),
         header |-> [version |-> Num(version.val), index_type |-> type.val,
                     dim |-> Num(dim.val), metric |-> Num(metric.val),
                     n_vectors |-> Num(n.val), crc32 |-> crc.val],
         rest |-> crc.rest]

-----------------------------------------------------------------------------
(* Compression *)

Kinds == {"none", "zstd", "lz4"}

SchemeTag(scheme) ==
    CASE scheme.kind = "none" -> SCHEME_NONE
      [] scheme.kind = "zstd" -> SCHEME_ZSTD
      [] scheme.kind = "lz4" -> SCHEME_LZ4

\* validate_config: the codec of the scheme is in this build.
Supported(scheme, features) == scheme.kind \in features \cup {"none"}

\* encode fails only here; validate_config does not look at the level.
LevelRejected(scheme) == scheme.kind = "zstd" /\ scheme.level \notin 1..22

Deflate(tag, raw) ==
    <<<<Base + tag, raw>>>>
      \o [i \in 1..(CodecLen(tag, raw) - 1) |-> <<0>>]

Compress(scheme, raw) ==
    IF scheme.kind = "none" THEN raw ELSE Deflate(SchemeTag(scheme), raw)

\* What a codec makes of bytes: those that are a payload it compressed.
Inflate(data) ==
    IF data # <<>> /\ Len(data[1]) = 2 THEN data[1][2] ELSE <<>>

Inflates(tag, data) == data = Deflate(tag, Inflate(data))

Codecs(features) ==
    {SchemeTag([kind |-> k]) : k \in features}

\* decode.  Without compression the recorded length plays no part.
Decompress(tag, data, len, features) ==
    LET raw == IF tag = SCHEME_NONE THEN data ELSE Inflate(data)
    IN  [err |-> IF tag = SCHEME_NONE THEN "Ok" ELSE FirstError(
             << <<len > Len(data) * MaxRatio, "InvalidPayload">>,
                <<tag \notin {SCHEME_ZSTD, SCHEME_LZ4}, "InvalidPayload">>,
                <<tag \notin Codecs(features), "Unsupported">>,
                <<~Inflates(tag, data), "Compression">>,
                <<Len(raw) # len, "Compression">> >>),
         raw |-> raw]

-----------------------------------------------------------------------------
(* write_snapshot and load *)

Region(raw, scheme) ==
    Byte(SchemeTag(scheme)) \o LE(Len(raw), W64) \o Compress(scheme, raw)

File(ix, version, region) ==
    WriteHeader([version |-> version, index_type |-> INDEX_TYPE,
                 dim |-> ix.dim, metric |-> ix.metric,
                 n_vectors |-> Len(ix.rows), crc32 |-> Crc(region)]) \o region

\* Variant: the checksum covers the payload before it is compressed.
SnapshotRawCrc(ix, scheme) ==
    WriteHeader([version |-> CURRENT_VERSION, index_type |-> INDEX_TYPE,
                 dim |-> ix.dim, metric |-> ix.metric,
                 n_vectors |-> Len(ix.rows), crc32 |-> Crc(SaveTo(ix))])
      \o Region(SaveTo(ix), scheme)

Snapshot(ix, scheme) == File(ix, CURRENT_VERSION, Region(SaveTo(ix), scheme))

\* A snapshot of a build that wrote format 1, the payload verbatim.
LegacySnapshot(ix) == File(ix, 1, SaveTo(ix))

\* The payload region: verbatim in format 1, behind a preamble since.
Payload(version, region, features) ==
    LET tag == Take(Cursor(region), 1)
        len == Take(tag, W64)
        data == Decompress(Num(tag.val), len.rest, Num(len.val), features)
    IN  IF version < 2 THEN [err |-> "Ok", raw |-> region]
        ELSE [err |-> FirstError(
                  << <<~len.ok, "TruncatedPayload">>,
                     <<~FitsUsize(Num(len.val)), "InvalidPayload">>,
                     <<data.err # "Ok", data.err>> >>),
              raw |-> data.raw]

\* What load makes of the header, the payload and the index read from it.
Assemble(h, payload, inner, type) ==
    [err |-> FirstError(
         << <<h.err # "Ok", h.err>>,
            <<h.header.index_type # type, "InvalidIndexType">>,
            <<~Intact(h.rest, h.header.crc32), "ChecksumMismatch">>,
            <<payload.err # "Ok", payload.err>>,
            <<inner.err # "Ok", inner.err>>,
            <<inner.ix.dim # h.header.dim, "InvalidPayload">>,
            <<inner.ix.metric # h.header.metric, "InvalidPayload">>,
            <<Len(inner.ix.rows) # h.header.n_vectors, "InvalidPayload">> >>),
     ix |-> inner.ix]

\* load up to the point where the log comes in, for a caller whose index
\* has the type tag `type' and whose build has the codecs `features'.
Load(f, type, features) ==
    LET Rebuild(h, payload) == Assemble(h, payload, LoadFrom(payload.raw), type)
        Unpack(h) == Rebuild(h, Payload(h.header.version, h.rest, features))
    IN  Unpack(ReadHeader(f))

-----------------------------------------------------------------------------
(* Indexes that a snapshot can hold *)

\* An index of n rows fits the memory of the host, and so does its payload.
FitsMemory(dim, n) ==
    /\ dim <= UsizeMax /\ PayloadCells(dim, n) <= UsizeMax
    /\ ~TooManyBytes(n * RowSize) /\ (n # 0 => ~TooManyBytes(dim * W32))

\* A region of format 2 does not begin like a payload of format 1 of the same
\* dimension.  It cannot where usize has 64 bits: what it begins with is
\* a multiple of the length of the payload.
Unmistakable(dim, n) ==
    \A tag \in 0..2 : AsUsize(tag + Base * PayloadCells(dim, n)) # dim

\* No more bytes than a u64 counts whose highest byte is 0.
Storable(dim, n) ==
    /\ FitsMemory(dim, n) /\ PayloadCells(dim, n) < Pow[W64 - 1]
    /\ n # 0 => Unmistakable(dim, n)
=============================================================================
