-------------------------------- MODULE Bytes --------------------------------
(***************************************************************************)
(* File contents: bytes, little-endian numbers, CRC32 and bounds-checked   *)
(* reading (src/checksum.rs, and what src/wal.rs and src/format.rs share). *)
(*                                                                         *)
(* A file is a sequence of cells.  A cell stands for a fixed number of     *)
(* bytes: u8 takes one, u32 and f32 take W32 and u64, i64 and f64 take     *)
(* W64 of them.  It is a digit <<d>>, d < Base, or one of the W32 cells of *)
(* a checksum, <<Base, i, s>>, which holds what was summed: CRC32 is taken *)
(* to tell any two contents apart.  SnapshotFormat adds <<Base + t, s>>,   *)
(* what a codec made of s.                                                 *)
(***************************************************************************)
EXTENDS Naturals, SequencesExt

CONSTANTS Base, W32, W64,
          UsizeMax    \* usize::MAX; smaller than u64::MAX on a 32-bit host

\* How many numbers w cells hold.
Pow[w \in Nat] == IF w = 0 THEN 1 ELSE Base * Pow[w - 1]

\* usize has the 32 bits of a length, or more, and at most 64.
ASSUME WidthAssumption ==
    /\ Base \in Nat \ {0, 1} /\ W32 \in Nat \ {0}
    /\ W64 = 2 * W32
    /\ UsizeMax \in Nat /\ Pow[W32] <= UsizeMax + 1 /\ UsizeMax < Pow[W64]

Digits == {<<d>> : d \in 0..(Base - 1)}

\* What fills w cells without a checksum.
Words(w) == [1..w -> Digits]

Bounded(n, w) == n < Pow[w]

\* to_le_bytes and from_le_bytes.  A checksum read as a number is the
\* number its first byte happens to be.
LE(n, w) == [i \in 1..w |-> <<(n \div Pow[i - 1]) % Base>>]

Digit(c) == IF Len(c) = 1 THEN c[1] ELSE Len(c[Len(c)]) % Base

\* What the first i cells count.
Sums(s) ==
    LET sum[i \in 0..Len(s)] ==
          IF i = 0 THEN 0 ELSE sum[i - 1] + Pow[i - 1] * Digit(s[i])
    IN  sum

Num(s) == Sums(s)[Len(s)]

Byte(n) == LE(n, 1)

\* usize::try_from(u64), and the unchecked `as usize'.
FitsUsize(n) == n <= UsizeMax

AsUsize(n) == n % (UsizeMax + 1)

\* Items of w cells each, one behind the other, and cut apart again.
Flat(items, w) ==
    [p \in 1..(Len(items) * w) |-> items[(p - 1) \div w + 1][((p - 1) % w) + 1]]

Chunk(s, w, i) == SubSeq(s, (i - 1) * w + 1, i * w)

\* String::from_utf8: in this scale the highest digit is no UTF-8.
Utf8(s) == \A i \in DOMAIN s : Digit(s[i]) # Base - 1

Strings == Seq(Digits \ {<<Base - 1>>})

-----------------------------------------------------------------------------
(* checksum.rs *)

\* CRC32 of nothing is 0.
Crc(s) ==
    [i \in 1..W32 |-> IF s = <<>> THEN <<0>> ELSE <<Base, i, s>>]

\* Variant: nothing is verified.
IntactAlways(s, crc) == TRUE

\* checksum::verify.
Intact(s, crc) == crc = Crc(s)

-----------------------------------------------------------------------------
(* Reading: a cursor knows what is left, what was read last, and whether   *)
(* every read so far found enough bytes.                                   *)

Cursor(s) == [rest |-> s, val |-> <<>>, ok |-> TRUE]

Take(c, n) ==
    IF c.ok /\ n <= Len(c.rest)
      THEN [rest |-> SubSeq(c.rest, n + 1, Len(c.rest)),
            val  |-> SubSeq(c.rest, 1, n), ok |-> TRUE]
      ELSE [rest |-> c.rest, val |-> <<>>, ok |-> FALSE]

\* The reader goes on with what it made of the bytes, or refuses them.
Yield(c, v) == [rest |-> c.rest, val |-> v, ok |-> c.ok]

Need(c, cond) == IF cond THEN c ELSE [c EXCEPT !.ok = FALSE]

\* The first check that fails decides; `checks' is in the code's order.
FirstError(checks) ==
    IF \A i \in DOMAIN checks : ~checks[i][1] THEN "Ok"
    ELSE checks[CHOOSE i \in DOMAIN checks :
                   checks[i][1] /\ \A j \in 1..(i - 1) : ~checks[j][1]][2]
=============================================================================
