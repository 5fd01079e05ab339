------------------------------ MODULE WalFrames ------------------------------
(***************************************************************************)
(* The bytes of the write-ahead log (src/wal.rs): how a mutation becomes a *)
(* frame, and how parse_records walks the frames of a file.                *)
(*                                                                         *)
(* A record is [op, id, vector, meta]: id and metadata values are pairs    *)
(* [kind, bits]; vector is a sequence of components; meta is <<>> for None *)
(* or <<m>> with m the sequence of [key, value] entries.  A delete has an  *)
(* empty vector and no metadata.                                           *)
(***************************************************************************)
EXTENDS Bytes

CONSTANT MaxRecordLen   \* MAX_RECORD_LEN

WAL_MAGIC == 30
WAL_VERSION == 1

OP_INSERT == 1
OP_DELETE == 2
VID_U64 == 0
VID_BYTES == 1
VAL_STRING == 0
VAL_INT == 1
VAL_FLOAT == 2
VAL_BOOL == 3
VAL_NULL == 4

\* Every tag is a byte.
ASSUME TagAssumption == WAL_MAGIC < Base /\ MaxRecordLen \in Nat

WalHeader == Byte(WAL_MAGIC) \o LE(WAL_VERSION, W32)

-----------------------------------------------------------------------------
(* What the types of the code can hold *)

Ids ==
    [kind : {VID_U64}, bits : Words(W64)] \cup [kind : {VID_BYTES}, bits : Seq(Digits)]

Values ==
    [kind : {VAL_STRING}, bits : Strings]
      \cup [kind : {VAL_INT, VAL_FLOAT}, bits : Words(W64)]
      \cup [kind : {VAL_BOOL}, bits : {Byte(0), Byte(1)}]
      \cup [kind : {VAL_NULL}, bits : {<<>>}]

Metadata == Seq([key : Strings, value : Values])

\* A vector is as long as its caller makes it.
Vectors == Seq(Words(W32))

Inserts ==
    [op : {OP_INSERT}, id : Ids, vector : Vectors,
     meta : [1..0 -> Metadata] \cup [1..1 -> Metadata]]

Deletes == [op : {OP_DELETE}, id : Ids, vector : {<<>>}, meta : {<<>>}]

Mutations == Inserts \cup Deletes

-----------------------------------------------------------------------------
(* Encoding *)

EncodeId(id) ==
    Byte(id.kind)
      \o (IF id.kind = VID_BYTES THEN LE(Len(id.bits), W64) ELSE <<>>)
      \o id.bits

EncodeValue(v) ==
    Byte(v.kind)
      \o (IF v.kind = VAL_STRING THEN LE(Len(v.bits), W32) ELSE <<>>)
      \o v.bits

EncodeEntry(e) == LE(Len(e.key), W32) \o e.key \o EncodeValue(e.value)

\* The last i entries.
LastEntries(m) ==
    LET last[i \in 0..Len(m)] ==
          IF i = 0 THEN <<>> ELSE EncodeEntry(m[Len(m) - i + 1]) \o last[i - 1]
    IN  last

EncodeMetadata(m) == LE(Len(m), W32) \o LastEntries(m)[Len(m)]

\* Variant: nothing says whether metadata follows.
EncodeNoMetaFlag(r) ==
    Byte(r.op) \o EncodeId(r.id)
      \o (IF r.op = OP_DELETE THEN <<>>
          ELSE LE(Len(r.vector), W32) \o Flat(r.vector, W32)
                 \o (IF r.meta = <<>> THEN <<>> ELSE EncodeMetadata(r.meta[1])))

\* append_insert and append_delete: the body in `scratch'.
Encode(r) ==
    Byte(r.op) \o EncodeId(r.id)
      \o (IF r.op = OP_DELETE THEN <<>>
          ELSE LE(Len(r.vector), W32) \o Flat(r.vector, W32)
                 \o Byte(Len(r.meta))
                 \o (IF r.meta = <<>> THEN <<>> ELSE EncodeMetadata(r.meta[1])))

\* commit_record: head and body.
Frame(r) == LET body == Encode(r) IN LE(Len(body), W32) \o Crc(body) \o body

-----------------------------------------------------------------------------
(* Decoding a body: each reader leaves in val what it read *)

ReadId(c) ==
    LET k == Take(c, 1)
        kind == Num(k.val)
        l == IF kind = VID_BYTES THEN Take(k, W64) ELSE k
        width == IF kind = VID_BYTES THEN Num(l.val) ELSE W64
        bits == Take(Need(l, kind = VID_BYTES => FitsUsize(width)), width)
    IN  Yield(Need(bits, kind \in {VID_U64, VID_BYTES}),
              [kind |-> kind, bits |-> bits.val])

ReadValue(c) ==
    LET k == Take(c, 1)
        kind == Num(k.val)
        l == IF kind = VAL_STRING THEN Take(k, W32) ELSE k
        width == CASE kind = VAL_STRING -> Num(l.val)
                   [] kind \in {VAL_INT, VAL_FLOAT} -> W64
                   [] kind = VAL_BOOL -> 1
                   [] OTHER -> 0
        bits == Take(l, width)
    IN  Yield(Need(bits, /\ kind \in VAL_STRING..VAL_NULL
                         /\ kind = VAL_STRING => Utf8(bits.val)),
              [kind |-> kind,
               bits |-> IF kind = VAL_BOOL THEN Byte(IF Num(bits.val) = 0 THEN 0 ELSE 1)
                        ELSE bits.val])

ReadEntry(c, entries) ==
    LET l == Take(c, W32)
        key == Take(l, Num(l.val))
        value == ReadValue(Need(key, Utf8(key.val)))
    IN  Yield(value, Append(entries, [key |-> key.val, value |-> value.val]))

\* The cursor behind the i-th of n entries.
ReadEntries(c, n) ==
    LET read[i \in 0..n] ==
          IF i = 0 THEN Yield(c, <<>>) ELSE ReadEntry(read[i - 1], read[i - 1].val)
    IN  read

ReadMetadata(c) ==
    LET Entries(n) == ReadEntries(n, Num(n.val))[Num(n.val)]
    IN  Entries(Take(c, W32))

\* Only a flag of exactly 1 announces metadata.
ReadMeta(c) ==
    LET flag == Take(c, 1)
        Some(m) == Yield(m, <<m.val>>)
    IN  IF Num(flag.val) = 1 THEN Some(ReadMetadata(flag)) ELSE Yield(flag, <<>>)

ReadVector(c) ==
    LET n == Take(c, W32)
        v == Take(n, Num(n.val) * W32)
    IN  Yield(v, [i \in 1..(Len(v.val) \div W32) |-> Chunk(v.val, W32, i)])

DecodeInsert(id) ==
    LET Record(v, m) ==
          [ok |-> m.ok, rec |-> [op |-> OP_INSERT, id |-> id.val,
                                 vector |-> v.val, meta |-> m.val]]
        Behind(v) == Record(v, ReadMeta(v))
    IN  Behind(ReadVector(id))

DecodeDelete(id) ==
    [ok |-> id.ok, rec |-> [op |-> OP_DELETE, id |-> id.val,
                            vector |-> <<>>, meta |-> <<>>]]

\* decode_record; `ok' is FALSE where it returns InvalidPayload.  Bytes
\* behind the record are not looked at.
Decode(body) ==
    LET op == Take(Cursor(body), 1)
    IN  CASE Num(op.val) = OP_INSERT -> DecodeInsert(ReadId(op))
          [] Num(op.val) = OP_DELETE -> DecodeDelete(ReadId(op))
          [] OTHER -> [ok |-> FALSE, rec |-> <<>>]

-----------------------------------------------------------------------------
(* Parsing a file *)

\* Fewer bytes than a header hold no record, whatever they are.
NoHeader(f) == Len(f) < Len(WalHeader)

LogVerdict(f) ==
    LET magic == Take(Cursor(f), 1)
        version == Take(magic, W32)
    IN  FirstError(<< <<Num(magic.val) # WAL_MAGIC, "BadMagic">>,
                      <<Num(version.val) # WAL_VERSION, "UnsupportedVersion">> >>)

\* The frame behind the first pos cells: its length, checksum and body.
FrameAt(f, pos) ==
    LET len == Take(Cursor(SubSeq(f, pos + 1, Len(f))), W32)
        crc == Take(len, W32)
        body == Take(crc, Num(len.val))
    IN  [len |-> Num(len.val), crc |-> crc.val, body |-> body.val, ok |-> body.ok]

FrameEnd(f, pos) == pos + 2 * W32 + FrameAt(f, pos).len

\* Variant: the checksum of a frame is not looked at.
TornByLength(f, pos) ==
    LET frame == FrameAt(f, pos) IN ~frame.ok \/ frame.len > MaxRecordLen

\* What ends the loop at pos with the records read before it: the file ends
\* in the frame, or its length or its checksum is wrong.
Torn(f, pos) ==
    LET frame == FrameAt(f, pos)
    IN  \/ ~frame.ok
        \/ frame.len > MaxRecordLen
        \/ ~Intact(frame.body, frame.crc)

ParseFrame(f, p) ==
    LET Accept(record) ==
          IF record.ok
            THEN [p EXCEPT !.pos = FrameEnd(f, @), !.recs = Append(@, record.rec)]
            ELSE [p EXCEPT !.done = TRUE, !.err = "InvalidPayload"]
    IN  IF p.done THEN p
        ELSE IF Torn(f, p.pos) THEN [p EXCEPT !.done = TRUE]
        ELSE Accept(Decode(FrameAt(f, p.pos).body))

\* The loop after n frames.
Parsing(f) ==
    LET start == [pos |-> Len(WalHeader), recs |-> <<>>, done |-> NoHeader(f), err |-> "Ok"]
        after[n \in 0..Len(f)] == IF n = 0 THEN start ELSE ParseFrame(f, after[n - 1])
    IN  after

\* parse_records.  A file has fewer frames than cells.
ParseRecords(f) ==
    LET Result(end) == [err |-> end.err, recs |-> end.recs]
        Refused(verdict) == [err |-> verdict, recs |-> <<>>]
    IN  IF ~NoHeader(f) /\ LogVerdict(f) # "Ok" THEN Refused(LogVerdict(f))
        ELSE Result(Parsing(f)[Len(f)])
=============================================================================
