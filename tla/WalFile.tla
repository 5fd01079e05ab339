------------------------------- MODULE WalFile -------------------------------
(***************************************************************************)
(* The write-ahead log file (src/wal.rs): its content, what of it has      *)
(* reached the disk, and the primitives of the Wal handle.                 *)
(*                                                                         *)
(* The file is a sequence of chunks, one per write_all of the code: its    *)
(* header and then one chunk per frame.  An intact frame (length, CRC32    *)
(* and body agree) is the mutation it holds.  What crashes and failed      *)
(* writes leave is a chunk too: PartHeader, the first bytes of a header;   *)
(* Torn, a non-empty proper prefix of a frame; Zeros, at least eight zero  *)
(* bytes where a chunk was to be (a file whose new length reached the disk *)
(* before its data).  A CRC32 is assumed to tell a damaged frame apart.    *)
(*                                                                         *)
(* set_len and the seek that follows it are one step: seeking a regular    *)
(* file to an offset inside it does not fail.  The handle's offset is      *)
(* therefore always the end of the file and needs no variable.             *)
(***************************************************************************)
EXTENDS Naturals, Sequences

CONSTANTS
    Mutation,    \* WalRecord: what one frame can say
    TooLong,     \* those whose body is above MAX_RECORD_LEN, yet fits a u32
    Header, PartHeader, Torn, Zeros,
    Policy       \* PersistConfig::fsync_policy

ASSUME TooLongAssumption == TooLong \subseteq Mutation

ASSUME PolicyAssumption == Policy \in {"Always", "Periodic", "Never"}

Mark == {Header, PartHeader, Torn, Zeros}

ASSUME MarkAssumption ==
    /\ Header \notin {PartHeader, Torn, Zeros}
    /\ PartHeader \notin {Torn, Zeros} /\ Torn # Zeros
    /\ Mark \cap Mutation = {}

Chunk == Mark \cup Mutation

\* commit_record writes a body of any length that a u32 counts; the parser
\* takes a longer one than MAX_RECORD_LEN for the tail of a torn write.
Readable == Mutation \ TooLong

VARIABLES
    walExists,   \* the log file exists
    walLinked,   \* its directory entry is on disk
    wal,         \* its content, as every process sees it
    walSurv,     \* the contents a power loss may leave
    synced       \* Wal::last_fsync is Some

walVars == <<walExists, walLinked, wal, walSurv, synced>>

WalTypeOK ==
    /\ walExists \in BOOLEAN
    /\ walLinked \in BOOLEAN
    /\ wal \in Seq(Chunk)
    /\ walSurv \subseteq Seq(Chunk)
    /\ synced \in BOOLEAN

WalInit ==
    /\ walExists = FALSE
    /\ walLinked = FALSE
    /\ wal = <<>>
    /\ walSurv = {<<>>}
    /\ synced = FALSE

-----------------------------------------------------------------------------
(* Writing *)

\* open(2) with create, and with truncate when `fresh': an empty file.  Its
\* directory entry is not synced here.
CreateEmpty ==
    /\ walExists' = TRUE
    /\ wal' = <<>>
    /\ walSurv' = walSurv \cup {<<>>}
    /\ synced' = FALSE
    /\ UNCHANGED walLinked

\* Write chunk c at the end.  Until the next sync the disk may hold the file
\* without it, with all of it, with its first bytes, or with zeros for it.
Put(c, part) ==
    /\ wal' = Append(wal, c)
    /\ walSurv' = walSurv \cup {Append(wal, x) : x \in {c, part, Zeros}}
    /\ UNCHANGED <<walExists, walLinked, synced>>

\* A write_all that returns an error has written nothing or the first bytes.
PutFails(part) == Put(part, part) \/ UNCHANGED walVars

WriteHeader == Put(Header, PartHeader)

\* commit_record issues two writes.  The first, the frame's head, leaves a
\* torn frame; the second, its body, turns it into the mutation.
WriteFrameHead == Put(Torn, Torn)

WriteFrameBody(m) ==
    /\ wal' = [wal EXCEPT ![Len(wal)] = m]
    /\ walSurv' = walSurv \cup {wal'}
    /\ UNCHANGED <<walExists, walLinked, synced>>

\* Variant: keeps one chunk too many.
SetLenLate(n) ==
    /\ wal' = SubSeq(wal, 1, n + 1)
    /\ walSurv' = walSurv \cup {wal'}
    /\ UNCHANGED <<walExists, walLinked, synced>>

\* set_len(n) and the seek to n.
SetLen(n) ==
    /\ wal' = SubSeq(wal, 1, n)
    /\ walSurv' = walSurv \cup {wal'}
    /\ UNCHANGED <<walExists, walLinked, synced>>

SyncNow ==
    /\ walSurv' = {wal}
    /\ synced' = TRUE
    /\ UNCHANGED <<walExists, walLinked, wal>>

\* Variant: Always treated like the other policies between intervals.
SyncDueSometimes == BOOLEAN

\* maybe_sync: whether the policy asks for a sync after an append.  Under
\* Periodic the clock decides, except that the first append is always due.
SyncDue ==
    IF Policy = "Always" THEN {TRUE}
    ELSE IF Policy = "Never" THEN {FALSE}
    ELSE IF synced THEN BOOLEAN ELSE {TRUE}

-----------------------------------------------------------------------------
(* Crashes *)

\* A killed process loses its handle; the page cache keeps the content.
WalKill == synced' = FALSE /\ UNCHANGED <<walExists, walLinked, wal, walSurv>>

\* A power loss leaves one of the possible contents, or no file at all if
\* its directory entry was never synced.
WalPowerLoss ==
    /\ walExists' \in (IF walExists /\ ~walLinked THEN BOOLEAN ELSE {walExists})
    /\ walLinked' = walExists'
    /\ wal' \in (IF walExists' THEN walSurv ELSE {<<>>})
    /\ walSurv' = {wal'}
    /\ synced' = FALSE

-----------------------------------------------------------------------------
(* Reading *)

\* What parse_records makes of a file's first twelve bytes: fewer than
\* twelve hold no record, others must be the header.  The first bytes of a
\* frame, or zeros, may be fewer or more than twelve.
HeaderVerdicts(w) ==
    IF w \in {<<>>, <<PartHeader>>} THEN {"none"}
    ELSE IF w[1] = Header THEN {"good"}
    ELSE IF \E i \in 1..Len(w) : w[i] \in Mutation THEN {"bad"}
    ELSE {"none", "bad"}

\* Variant: the last frame is taken for a torn one.
FrameBeforeLast(w, n) == n \in 2..(Len(w) - 1) /\ \A i \in 2..n : w[i] \in Readable

\* The parser has passed chunks 2..n-1 and finds an intact frame, not above
\* MAX_RECORD_LEN, at n.
FrameAt(w, n) == n \in 2..Len(w) /\ \A i \in 2..n : w[i] \in Readable

\* Eight zero bytes are a frame of length 0 whose CRC32, 0, is right: the
\* parser takes it for intact and decode_record refuses its empty body.
\* Any other damaged chunk, and a frame that is too long, ends the loop with
\* what was read before it.
DecodeFails(w) ==
    \E n \in 2..Len(w) : w[n] = Zeros /\ \A i \in 2..(n-1) : w[i] \in Readable
=============================================================================
