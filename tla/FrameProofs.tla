----------------------------- MODULE FrameProofs -----------------------------
(***************************************************************************)
(* What is written to the log is what is read from it: the numbers, the    *)
(* records and the frames of WalFrames, for every width, record and file.  *)
(*                                                                         *)
(* Recursive functions are proved about with two lemmas that speak of sets *)
(* and functions instead of predicates and operators: NaturalsCovered for  *)
(* induction, FiniteRecursion for a function that is defined by recursion. *)
(***************************************************************************)
EXTENDS WalFrames, WellFoundedInduction, SequenceTheorems, TLAPS

\* A set that holds 0, and with every number the next one, holds them all.
LEMMA NaturalsCovered ==
    ASSUME NEW S, 0 \in S, \A n \in Nat : n \in S => n + 1 \in S
    PROVE  Nat \subseteq S
<1> DEFINE T == Nat \ S
           R == OpToRel(<, Nat)
<1> SUFFICES ASSUME T # {} PROVE FALSE
  OBVIOUS
<1>1. PICK x \in T : \A y \in T : <<y, x>> \notin R
  <2>1. IsWellFoundedOn(R, Nat)
    BY NatLessThanWellFounded
  <2> HIDE DEF R
  <2> QED BY <2>1, WFMin
<1>2. x \in Nat /\ x # 0
  OBVIOUS
<1>3. x - 1 \in T /\ x - 1 < x
  BY <1>2
<1>4. <<x - 1, x>> \in R
  BY <1>2, <1>3 DEF OpToRel
<1> QED BY <1>1, <1>3, <1>4

\* The same up to a bound.
LEMMA UpTo ==
    ASSUME NEW L \in Nat, NEW S, 0 \in S, \A i \in 1..L : i - 1 \in S => i \in S
    PROVE  \A i \in 0..L : i \in S
<1> DEFINE T == {n \in Nat : n <= L => n \in S}
<1>1. 0 \in T
  OBVIOUS
<1>2. ASSUME NEW n \in Nat, n \in T PROVE n + 1 \in T
  <2> SUFFICES ASSUME n + 1 <= L PROVE n + 1 \in S
    OBVIOUS
  <2>1. n + 1 \in 1..L /\ (n + 1) - 1 = n /\ n \in S
    BY <1>2
  <2> QED BY <2>1
<1>3. Nat \subseteq T
  <2> HIDE DEF T
  <2> QED BY <1>1, <1>2, NaturalsCovered
<1> QED BY <1>3

\* f starts with c, and step makes every value of the one before.
Follows(f, c, L, step) ==
    f[0] = c /\ \A n \in 1..L : f[n] = step[<<n, f[n - 1]>>]

\* There is such a function.
LEMMA FiniteRecursion ==
    ASSUME NEW V, NEW c \in V, NEW L \in Nat, NEW step \in [(1..L) \X V -> V]
    PROVE  \E f \in [0..L -> V] : Follows(f, c, L, step)
<1> DEFINE Good(n, f) ==
             f[0] = c /\ \A i \in 1..n : f[i] = step[<<i, f[i - 1]>>]
           S == {n \in Nat : n <= L => \E f \in [0..n -> V] : Good(n, f)}
<1>1. 0 \in S
  <2> DEFINE f == [i \in 0..0 |-> c]
  <2>1. f \in [0..0 -> V] /\ Good(0, f)
    OBVIOUS
  <2> QED BY <2>1
<1>2. ASSUME NEW n \in Nat, n \in S PROVE n + 1 \in S
  <2> SUFFICES ASSUME n + 1 <= L PROVE \E f \in [0..(n + 1) -> V] : Good(n + 1, f)
    OBVIOUS
  <2>1. PICK f \in [0..n -> V] : Good(n, f)
    BY <1>2
  <2> DEFINE next == step[<<n + 1, f[n]>>]
             g == [i \in 0..(n + 1) |-> IF i = n + 1 THEN next ELSE f[i]]
  <2>2. <<n + 1, f[n]>> \in (1..L) \X V
    BY <2>1
  <2>3. g \in [0..(n + 1) -> V]
    BY <2>1, <2>2
  <2>4. ASSUME NEW i \in 1..(n + 1) PROVE g[i] = step[<<i, g[i - 1]>>]
    <3>1. CASE i = n + 1
      <4>1. g[i] = next
        BY <3>1
      <4>2. g[i - 1] = f[n] /\ i = n + 1
        BY <3>1
      <4> QED BY <4>1, <4>2
    <3>2. CASE i # n + 1
      <4>1. i \in 1..n /\ g[i] = f[i] /\ g[i - 1] = f[i - 1]
        BY <3>2
      <4> QED BY <4>1, <2>1
    <3> QED BY <3>1, <3>2
  <2>5. g[0] = c
    BY <2>1
  <2> QED BY <2>3, <2>4, <2>5
<1>3. \E f \in [0..L -> V] : Good(L, f)
  <2> HIDE DEF Good
  <2>1. Nat \subseteq S
    <3> HIDE DEF S
    <3> QED BY <1>1, <1>2, NaturalsCovered
  <2> QED BY <2>1
<1> QED BY <1>3 DEF Follows

\* The same for a function on all of Nat.
Iterates(f, c, step) == f[0] = c /\ \A n \in Nat : f[n + 1] = step[f[n]]

\* The same without end: what the recursive function Pow is.
LEMMA NaturalRecursion ==
    ASSUME NEW V, NEW c \in V, NEW step \in [V -> V]
    PROVE  \E f \in [Nat -> V] : Iterates(f, c, step)
<1> DEFINE Good(n, f) == f = [i \in 0..n |-> IF i = 0 THEN c ELSE step[f[i - 1]]]
           S == {n \in Nat : \A m \in Nat : \A f, g :
                    n <= m /\ Good(n, f) /\ Good(m, g) => f[n] = g[n]}
<1>1. \A n \in Nat : \E f \in [0..n -> V] : Good(n, f)
  <2> TAKE n \in Nat
  <2>1. PICK s \in [(1..n) \X V -> V] : s = [iv \in (1..n) \X V |-> step[iv[2]]]
    OBVIOUS
  <2>2. PICK f \in [0..n -> V] : Follows(f, c, n, s)
    BY FiniteRecursion, Zenon
  <2>3. ASSUME NEW i \in 1..n PROVE s[<<i, f[i - 1]>>] = step[f[i - 1]]
    <3>1. <<i, f[i - 1]>> \in (1..n) \X V
      OBVIOUS
    <3> QED BY <2>1, <3>1
  <2>4. ASSUME NEW i \in 0..n PROVE f[i] = IF i = 0 THEN c ELSE step[f[i - 1]]
    <3>1. CASE i = 0
      BY <2>2, <3>1 DEF Follows
    <3>2. CASE i # 0
      <4>1. i \in 1..n
        BY <3>2
      <4>2. f[i] = s[<<i, f[i - 1]>>]
        BY <2>2, <3>2 DEF Follows
      <4> QED BY <2>3, <4>1, <4>2, <3>2
    <3> QED BY <3>1, <3>2
  <2>5. f = [i \in 0..n |-> f[i]]
    OBVIOUS
  <2> QED BY <2>4, <2>5
<1>2. Nat \subseteq S
  <2>1. 0 \in S
    OBVIOUS
  <2>2. ASSUME NEW n \in Nat, n \in S PROVE n + 1 \in S
    <3> SUFFICES ASSUME NEW m \in Nat, NEW f, NEW g, n + 1 <= m, Good(n + 1, f), Good(m, g)
                 PROVE  f[n + 1] = g[n + 1]
      OBVIOUS
    <3> DEFINE h == [i \in 0..n |-> f[i]]
    <3>1. Good(n, h)
      <4>1. \A i \in 0..n : h[i] = IF i = 0 THEN c ELSE step[h[i - 1]]
        OBVIOUS
      <4>2. h = [i \in 0..n |-> h[i]]
        OBVIOUS
      <4> HIDE DEF h
      <4> QED BY <4>1, <4>2
    <3>2. h[n] = g[n]
      <4> HIDE DEF h, Good
      <4> QED BY <3>1, <2>2
    <3> QED BY <3>2
  <2> HIDE DEF S
  <2> QED BY <2>1, <2>2, NaturalsCovered
<1> DEFINE F(n) == CHOOSE f \in [0..n -> V] : Good(n, f)
           G == [n \in Nat |-> F(n)[n]]
<1>3. \A n \in Nat : F(n) \in [0..n -> V] /\ Good(n, F(n))
  <2> HIDE DEF Good
  <2> QED BY <1>1
<1> HIDE DEF F
<1>4. G \in [Nat -> V]
  BY <1>3
<1>5. G[0] = c
  BY <1>3
<1>6. ASSUME NEW n \in Nat PROVE G[n + 1] = step[G[n]]
  <2>1. n + 1 \in Nat /\ n + 1 \in 0..(n + 1) /\ n <= n + 1 /\ (n + 1) - 1 = n
    OBVIOUS
  <2>2. F(n + 1)[n + 1] = step[F(n + 1)[n]]
    BY <1>3, <2>1
  <2>3. F(n)[n] = F(n + 1)[n]
    <3> HIDE DEF Good
    <3> QED BY <1>2, <1>3, <2>1
  <2> QED BY <2>1, <2>2, <2>3
<1> HIDE DEF G
<1> QED BY <1>4, <1>5, <1>6 DEF Iterates

-----------------------------------------------------------------------------
(* Numbers *)

\* Quotient and remainder: what they are, and that nothing else is.
LEMMA DivMod ==
    ASSUME NEW n \in Nat, NEW d \in Nat \ {0}
    PROVE  /\ n \div d \in Nat /\ n % d \in Nat /\ n % d < d
           /\ n = d * (n \div d) + (n % d)
OBVIOUS

\* A number has only one quotient and remainder.
LEMMA DivModUnique ==
    ASSUME NEW d \in Nat \ {0}, NEW q \in Nat, NEW r \in Nat, r < d
    PROVE  (d * q + r) \div d = q /\ (d * q + r) % d = r
<1> DEFINE n == d * q + r
           k == n \div d
           m == n % d
<1>1. n \in Nat
  OBVIOUS
<1>2. k \in Nat /\ m \in Nat /\ m < d /\ n = d * k + m
  <2> HIDE DEF n
  <2> QED BY <1>1, DivMod
<1> HIDE DEF k, m
<1>3. d * q + r = d * k + m
  BY <1>2
<1>4. ~ (k < q)
  <2> SUFFICES ASSUME k + 1 <= q PROVE FALSE
    BY <1>2
  <2>1. d * (k + 1) <= d * q
    BY <1>2
  <2>2. d * (k + 1) = d * k + d
    BY <1>2
  <2> QED BY <2>1, <2>2, <1>2, <1>3
<1>5. ~ (q < k)
  <2> SUFFICES ASSUME q + 1 <= k PROVE FALSE
    BY <1>2
  <2>1. d * (q + 1) <= d * k
    BY <1>2
  <2>2. d * (q + 1) = d * q + d
    OBVIOUS
  <2> QED BY <2>1, <2>2, <1>2, <1>3
<1>6. k = q
  BY <1>2, <1>4, <1>5
<1>7. m = r
  BY <1>2, <1>3, <1>6
<1> QED BY <1>6, <1>7 DEF k, m

\* The recursive definition of Pow is one.
LEMMA PowDef ==
    /\ Pow[0] = 1
    /\ \A n \in Nat : Pow[n] \in Nat \ {0} /\ Pow[n + 1] = Base * Pow[n]
<1> DEFINE step == [v \in Nat |-> Base * v]
<1>1. step \in [Nat -> Nat]
  BY WidthAssumption
<1>2. PICK f \in [Nat -> Nat] : Iterates(f, 1, step)
  <2>1. 1 \in Nat
    OBVIOUS
  <2> HIDE DEF step
  <2> QED BY <1>1, <2>1, NaturalRecursion, Zenon
<1>3. f = [n \in Nat |-> IF n = 0 THEN 1 ELSE Base * f[n - 1]]
  <2>1. ASSUME NEW n \in Nat
        PROVE  f[n] = IF n = 0 THEN 1 ELSE Base * f[n - 1]
    <3>1. CASE n = 0
      BY <1>2, <3>1 DEF Iterates
    <3>2. CASE n # 0
      <4>1. n - 1 \in Nat /\ (n - 1) + 1 = n
        BY <3>2
      <4>2. f[n] = step[f[n - 1]]
        BY <1>2, <4>1 DEF Iterates
      <4> QED BY <3>2, <4>1, <4>2
    <3> QED BY <3>1, <3>2
  <2>2. f = [n \in Nat |-> f[n]]
    OBVIOUS
  <2> QED BY <2>1, <2>2
<1>4. Pow = [n \in Nat |-> IF n = 0 THEN 1 ELSE Base * Pow[n - 1]]
  BY <1>3 DEF Pow
<1>5. Pow[0] = 1 /\ \A n \in Nat : Pow[n + 1] = Base * Pow[n]
  <2> HIDE DEF Pow
  <2>1. ASSUME NEW n \in Nat PROVE Pow[n + 1] = Base * Pow[n]
    <3>1. n + 1 \in Nat /\ n + 1 # 0 /\ (n + 1) - 1 = n
      OBVIOUS
    <3> QED BY <1>4, <3>1
  <2> QED BY <1>4, <2>1
<1>6. \A n \in Nat : Pow[n] \in Nat \ {0}
  <2> HIDE DEF Pow
  <2> DEFINE S == {n \in Nat : Pow[n] \in Nat \ {0}}
  <2>1. 0 \in S
    BY <1>5
  <2>2. ASSUME NEW n \in Nat, n \in S PROVE n + 1 \in S
    <3>1. Base * Pow[n] \in Nat \ {0}
      <4> DEFINE v == Pow[n]
      <4>1. v \in Nat \ {0}
        BY <2>2
      <4> HIDE DEF v
      <4>2. Base * v \in Nat \ {0}
        BY <4>1, WidthAssumption
      <4> QED BY <4>2 DEF v
    <3> QED BY <1>5, <3>1
  <2>3. Nat \subseteq S
    <3> HIDE DEF S
    <3> QED BY <2>1, <2>2, NaturalsCovered
  <2> QED BY <2>3
<1> QED BY <1>5, <1>6

\* What a file can hold: digits, packed payloads and checksums of those.
Packed == {<<Base + t, s>> : t \in Nat, s \in Seq(Digits)}
Plain == Digits \cup Packed
Checksums == {<<Base, i, s>> : i \in 1..W32, s \in Seq(Plain)}
Cells == Plain \cup Checksums

\* Every cell can be read as a digit.
LEMMA CellDigit ==
    /\ \A d \in 0..(Base - 1) : Digit(<<d>>) = d
    /\ \A c \in Cells : Digit(c) \in Nat
<1>1. ASSUME NEW d \in 0..(Base - 1) PROVE Digit(<<d>>) = d
  BY DEF Digit
<1>2. ASSUME NEW c \in Digits PROVE Digit(c) \in Nat
  <2>1. PICK d \in 0..(Base - 1) : c = <<d>>
    BY DEF Digits
  <2> QED BY <1>1, <2>1, WidthAssumption
<1>3. ASSUME NEW t \in Nat, NEW s \in Seq(Digits) PROVE Digit(<<Base + t, s>>) \in Nat
  <2>1. Len(s) \in Nat
    BY LenProperties
  <2>2. Digit(<<Base + t, s>>) = Len(s) % Base
    BY DEF Digit
  <2> QED BY <2>1, <2>2, WidthAssumption
<1>4. ASSUME NEW i \in 1..W32, NEW s \in Seq(Plain) PROVE Digit(<<Base, i, s>>) \in Nat
  <2>1. Len(s) \in Nat
    BY LenProperties
  <2>2. Digit(<<Base, i, s>>) = Len(s) % Base
    BY DEF Digit
  <2> QED BY <2>1, <2>2, WidthAssumption
<1>5. ASSUME NEW c \in Packed PROVE Digit(c) \in Nat
  BY <1>3 DEF Packed
<1>6. ASSUME NEW c \in Checksums PROVE Digit(c) \in Nat
  BY <1>4 DEF Checksums
<1> QED BY <1>1, <1>2, <1>5, <1>6 DEF Cells, Plain

\* A number in w cells is w digits.
LEMMA LETyped ==
    ASSUME NEW n \in Nat, NEW w \in Nat
    PROVE  /\ LE(n, w) \in Words(w) /\ LE(n, w) \in Seq(Digits) /\ Len(LE(n, w)) = w
           /\ \A i \in 1..w : Digit(LE(n, w)[i]) = (n \div Pow[i - 1]) % Base
<1>1. ASSUME NEW i \in 1..w PROVE (n \div Pow[i - 1]) % Base \in 0..(Base - 1)
  <2>1. i - 1 \in Nat
    OBVIOUS
  <2>2. Pow[i - 1] \in Nat \ {0}
    BY <2>1, PowDef
  <2>3. n \div Pow[i - 1] \in Nat
    BY <2>2, DivMod
  <2> QED BY <2>3, DivMod, WidthAssumption
<1>2. LE(n, w) \in Words(w)
  BY <1>1 DEF LE, Words, Digits
<1>3. LE(n, w) \in Seq(Digits) /\ Len(LE(n, w)) = w
  BY <1>2 DEF Words
<1> QED BY <1>1, <1>2, <1>3, CellDigit DEF LE

\* The recursive definition of Sums is one.
LEMMA SumsDef ==
    ASSUME NEW s \in Seq(Cells)
    PROVE  /\ Sums(s) \in [0..Len(s) -> Nat] /\ Sums(s)[0] = 0
           /\ \A i \in 1..Len(s) :
                Sums(s)[i] = Sums(s)[i - 1] + Pow[i - 1] * Digit(s[i])
<1> DEFINE L == Len(s)
           step == [iv \in (1..L) \X Nat |-> iv[2] + Pow[iv[1] - 1] * Digit(s[iv[1]])]
<1>1. L \in Nat /\ \A i \in 1..L : s[i] \in Cells
  BY LenProperties
<1>2. ASSUME NEW i \in 1..L PROVE Pow[i - 1] * Digit(s[i]) \in Nat
  <2> DEFINE a == Pow[i - 1]
             b == Digit(s[i])
  <2>1. i - 1 \in Nat
    BY <1>1
  <2>2. a \in Nat /\ b \in Nat
    BY <1>1, <2>1, PowDef, CellDigit
  <2> HIDE DEF a, b
  <2>3. a * b \in Nat
    BY <2>2
  <2> QED BY <2>3 DEF a, b
<1> HIDE DEF L
<1>3. step \in [(1..L) \X Nat -> Nat]
  BY <1>2
<1>4. PICK f \in [0..L -> Nat] : Follows(f, 0, L, step)
  <2>1. 0 \in Nat
    OBVIOUS
  <2> HIDE DEF step
  <2> QED BY <1>1, <1>3, <2>1, FiniteRecursion, Zenon
<1>5. \A i \in 1..L : f[i] = f[i - 1] + Pow[i - 1] * Digit(s[i])
  <2> TAKE i \in 1..L
  <2>1. <<i, f[i - 1]>> \in (1..L) \X Nat
    BY <1>1
  <2>2. f[i] = step[<<i, f[i - 1]>>]
    BY <1>4 DEF Follows
  <2> QED BY <2>1, <2>2
<1>6. f = [i \in 0..L |-> IF i = 0 THEN 0 ELSE f[i - 1] + Pow[i - 1] * Digit(s[i])]
  <2>1. ASSUME NEW i \in 0..L
        PROVE  f[i] = IF i = 0 THEN 0 ELSE f[i - 1] + Pow[i - 1] * Digit(s[i])
    <3>1. CASE i = 0
      BY <1>4, <3>1 DEF Follows
    <3>2. CASE i # 0
      <4>1. i \in 1..L
        BY <1>1, <3>2
      <4> QED BY <1>5, <3>2, <4>1
    <3> QED BY <3>1, <3>2
  <2>2. f = [i \in 0..L |-> f[i]]
    OBVIOUS
  <2> QED BY <2>1, <2>2
<1> DEFINE g == Sums(s)
<1>7. g = [i \in 0..L |-> IF i = 0 THEN 0 ELSE g[i - 1] + Pow[i - 1] * Digit(s[i])]
  BY <1>6 DEF Sums, L
<1> HIDE DEF g
<1>8. ASSUME NEW i \in 0..L PROVE g[i] = f[i]
  <2> DEFINE T == {n \in Nat : n <= L => g[n] = f[n]}
  <2>1. 0 \in T
    BY <1>1, <1>7, <1>4 DEF Follows
  <2>2. ASSUME NEW n \in Nat, n \in T PROVE n + 1 \in T
    <3> SUFFICES ASSUME n + 1 <= L PROVE g[n + 1] = f[n + 1]
      OBVIOUS
    <3>1. n + 1 \in 1..L /\ n + 1 \in 0..L /\ (n + 1) - 1 = n /\ n + 1 # 0
      BY <1>1
    <3>2. g[n] = f[n]
      BY <1>1, <2>2
    <3>3. g[n + 1] = g[n] + Pow[n] * Digit(s[n + 1])
      <4>1. g[n + 1] = IF n + 1 = 0 THEN 0
                       ELSE g[(n + 1) - 1] + Pow[(n + 1) - 1] * Digit(s[n + 1])
        BY <1>7, <3>1, Zenon
      <4> QED BY <3>1, <4>1, Zenon
    <3>4. f[n + 1] = f[(n + 1) - 1] + Pow[(n + 1) - 1] * Digit(s[n + 1])
      BY <1>5, <3>1, Zenon
    <3> QED BY <3>1, <3>2, <3>3, <3>4, Zenon
  <2>3. Nat \subseteq T
    <3> HIDE DEF T
    <3> QED BY <2>1, <2>2, NaturalsCovered
  <2> QED BY <2>3, <1>1
<1>9. g = f
  <2>1. f = [i \in 0..L |-> f[i]] /\ g = [i \in 0..L |-> g[i]]
    BY <1>7
  <2> QED BY <2>1, <1>8
<1> QED BY <1>4, <1>5, <1>9 DEF g, L, Follows

\* A number that fits is read back as it was written.
LEMMA NumLE ==
    ASSUME NEW n \in Nat, NEW w \in Nat, n < Pow[w]
    PROVE  Num(LE(n, w)) = n
<1> DEFINE s == LE(n, w)
<1>1. s \in Seq(Cells) /\ Len(s) = w
  BY LETyped, SeqMonotonic DEF Cells, Plain
<1>2. \A i \in 1..w : Digit(s[i]) = (n \div Pow[i - 1]) % Base
  BY LETyped
<1> HIDE DEF s
<1> DEFINE S == {i \in Nat : i <= w => Sums(s)[i] = n % Pow[i]}
<1>3. 0 \in S
  <2>1. n % 1 = 0
    OBVIOUS
  <2> QED BY <1>1, <2>1, SumsDef, PowDef
<1>4. ASSUME NEW i \in Nat, i \in S PROVE i + 1 \in S
  <2> SUFFICES ASSUME i + 1 <= w PROVE Sums(s)[i + 1] = n % Pow[i + 1]
    OBVIOUS
  <2>1. PICK p \in Nat \ {0} : p = Pow[i]
    BY PowDef
  <2>2. Pow[i + 1] = Base * p
    BY PowDef, <2>1
  <2> DEFINE q == n \div p
             r == n % p
             c == q \div Base
             d == q % Base
  <2>3. q \in Nat /\ r \in Nat /\ r < p /\ n = p * q + r
    BY DivMod
  <2>4. c \in Nat /\ d \in Nat /\ d < Base /\ q = Base * c + d
    <3> HIDE DEF q
    <3> QED BY <2>3, DivMod, WidthAssumption
  <2>5. Sums(s)[i + 1] = r + p * d
    <3>1. i + 1 \in 1..w /\ (i + 1) - 1 = i /\ i <= w
      OBVIOUS
    <3>2. Sums(s)[i + 1] = Sums(s)[i] + Pow[i] * Digit(s[i + 1])
      BY <1>1, <3>1, SumsDef
    <3>3. Sums(s)[i] = r
      BY <1>4, <3>1, <2>1
    <3>4. Digit(s[i + 1]) = d
      BY <1>2, <3>1, <2>1
    <3> QED BY <3>2, <3>3, <3>4, <2>1
  <2> HIDE DEF q, r, c, d
  <2>6. n = (Base * p) * c + (r + p * d)
    <3>1. p * q = p * (Base * c) + p * d
      BY <2>4, WidthAssumption
    <3>2. p * (Base * c) = (Base * p) * c
      BY <2>4, WidthAssumption
    <3> QED BY <3>1, <3>2, <2>3, <2>4, WidthAssumption
  <2>7. r + p * d \in Nat /\ r + p * d < Base * p
    <3>1. d + 1 <= Base
      BY <2>4, WidthAssumption
    <3>2. p * (d + 1) <= p * Base
      BY <3>1, <2>4, WidthAssumption
    <3>3. p * (d + 1) = p * d + p /\ p * Base = Base * p /\ p * d \in Nat
      BY <2>4, WidthAssumption
    <3> QED BY <3>2, <3>3, <2>3, <2>4, WidthAssumption
  <2>8. Base * p \in Nat \ {0}
    BY <2>2, PowDef
  <2>9. n % (Base * p) = r + p * d
    <3> DEFINE b == Base * p
               m == r + p * d
    <3> HIDE DEF b, m
    <3>1. (b * c + m) % b = m
      BY <2>4, <2>7, <2>8, DivModUnique DEF b, m
    <3> QED BY <3>1, <2>6 DEF b, m
  <2> QED BY <2>2, <2>5, <2>9
<1>5. Nat \subseteq S
  <2> HIDE DEF S
  <2> QED BY <1>3, <1>4, NaturalsCovered
<1>6. Sums(s)[w] = n % Pow[w]
  BY <1>5
<1>7. n % Pow[w] = n
  <2>1. PICK p \in Nat \ {0} : p = Pow[w]
    BY PowDef
  <2>2. p * 0 + n = n
    OBVIOUS
  <2> QED BY <2>1, <2>2, DivModUnique
<1> QED BY <1>1, <1>6, <1>7 DEF Num, s

-----------------------------------------------------------------------------
(* Reading what was written *)

\* A cursor that has found enough bytes so far, in front of s.
At(c, s) == c.ok = TRUE /\ c.rest = s

Read(v, s) == [rest |-> s, val |-> v, ok |-> TRUE]

\* Cur::take of what lies ahead.
LEMMA TakeNext ==
    ASSUME NEW S, NEW a \in Seq(S), NEW t \in Seq(S), NEW c, At(c, a \o t),
           NEW n, n = Len(a)
    PROVE  Take(c, n) = Read(a, t)
<1>1. /\ Len(a) \in Nat /\ Len(t) \in Nat
      /\ a \o t \in Seq(S) /\ Len(a \o t) = Len(a) + Len(t)
      /\ \A i \in 1..(Len(a) + Len(t)) :
            (a \o t)[i] = IF i <= Len(a) THEN a[i] ELSE t[i - Len(a)]
  BY LenProperties, ConcatProperties
<1> DEFINE x == SubSeq(a \o t, 1, n)
           y == SubSeq(a \o t, n + 1, Len(a \o t))
<1>2. x = a
  <2>1. \A i \in 1..n : (a \o t)[i] \in S
    BY <1>1, ElementOfSeq
  <2>2. x \in Seq(S) /\ Len(x) = n /\ \A i \in 1..n : x[i] = (a \o t)[i]
    BY <1>1, <2>1, SubSeqProperties
  <2> HIDE DEF x
  <2>3. \A i \in 1..Len(x) : x[i] = a[i]
    BY <1>1, <2>2
  <2> QED BY <2>2, <2>3, SeqEqual
<1>3. y = t
  <2> DEFINE m == n + 1
             k == Len(a \o t)
  <2>1. m \in Int /\ k \in Int /\ k - m + 1 = Len(t)
    BY <1>1
  <2>2. \A i \in m..k : (a \o t)[i] \in S
    BY <1>1, ElementOfSeq
  <2>3. /\ y \in Seq(S) /\ Len(y) = (IF m <= k THEN k - m + 1 ELSE 0)
        /\ \A i \in 1..(k - m + 1) : y[i] = (a \o t)[m + i - 1]
    <3> HIDE DEF m, k
    <3> QED BY <2>1, <2>2, SubSeqProperties DEF m, k
  <2> HIDE DEF y
  <2>4. Len(y) = Len(t)
    BY <1>1, <2>1, <2>3
  <2>5. ASSUME NEW i \in 1..Len(y) PROVE y[i] = t[i]
    <3>1. y[i] = (a \o t)[m + i - 1]
      BY <2>1, <2>3, <2>4
    <3>2. m + i - 1 \in 1..(Len(a) + Len(t)) /\ m + i - 1 > Len(a) /\ m + i - 1 - Len(a) = i
      BY <1>1, <2>4
    <3> QED BY <1>1, <3>1, <3>2
  <2> QED BY <2>3, <2>4, <2>5, SeqEqual
<1>4. n <= Len(a \o t)
  BY <1>1
<1> QED BY <1>2, <1>3, <1>4 DEF Take, At, Read

\* What the bytes of a tag and of a number say.
LEMMA ByteRead ==
    ASSUME NEW n \in 0..(Base - 1)
    PROVE  /\ Byte(n) \in Seq(Digits) /\ Len(Byte(n)) = 1 /\ Num(Byte(n)) = n
           /\ Byte(n) = <<<<n>>>>
<1>1. n \in Nat /\ Pow[1] = Base
  <2>1. Pow[0 + 1] = Base * Pow[0] /\ Pow[0] = 1
    BY PowDef
  <2> QED BY <2>1, WidthAssumption
<1>2. n < Pow[1]
  BY <1>1, WidthAssumption
<1>3. (n \div Pow[0]) % Base = n
  <2>1. n \div 1 = n
    BY <1>1
  <2>2. n % Base = n
    <3>1. (Base * 0 + n) % Base = n
      <4>1. Base \in Nat \ {0} /\ n < Base /\ 0 \in Nat
        BY WidthAssumption
      <4> QED BY <1>1, <4>1, DivModUnique
    <3>2. Base * 0 + n = n
      BY WidthAssumption
    <3> QED BY <3>1, <3>2
  <2> QED BY <2>1, <2>2, PowDef
<1>4. Byte(n) = <<<<n>>>>
  <2>1. Byte(n) = [i \in 1..1 |-> <<n>>]
    BY <1>3 DEF Byte, LE
  <2> QED BY <2>1
<1> QED BY <1>1, <1>2, <1>4, NumLE, LETyped DEF Byte

\* Reading goes on behind what was read, if it is what it has to be.
LEMMA ReadOn ==
    ASSUME NEW v, NEW s
    PROVE  /\ At(Read(v, s), s) /\ Read(v, s).val = v
           /\ \A w : Yield(Read(v, s), w) = Read(w, s)
BY DEF At, Read, Yield

\* Digits in front of digits.
LEMMA Join ==
    ASSUME NEW a \in Seq(Digits), NEW b \in Seq(Digits)
    PROVE  a \o b \in Seq(Digits) /\ Len(a \o b) = Len(a) + Len(b)
BY ConcatProperties

\* Nothing is in front of or behind digits.
LEMMA JoinEmpty ==
    ASSUME NEW a \in Seq(Digits)
    PROVE  a \o <<>> = a /\ <<>> \o a = a /\ Len(a) \in Nat
BY ConcatEmptySeq, LenProperties

\* Writing is associative: which `extend' came first does not matter.
LEMMA Regroup ==
    ASSUME NEW a \in Seq(Digits), NEW b \in Seq(Digits), NEW c \in Seq(Digits)
    PROVE  (a \o b) \o c = a \o (b \o c)
BY ConcatAssociative

Regroups3(a, b, c) == (a \o b) \o c = a \o (b \o c)

\* With the equation under a name.
LEMMA Regroup3 ==
    ASSUME NEW a \in Seq(Digits), NEW b \in Seq(Digits), NEW c \in Seq(Digits)
    PROVE  Regroups3(a, b, c)
BY Regroup DEF Regroups3

Regroups(a, b, c, d) == ((a \o b) \o c) \o d = a \o (b \o (c \o d))

\* The same of four parts.
LEMMA Regroup4 ==
    ASSUME NEW a \in Seq(Digits), NEW b \in Seq(Digits), NEW c \in Seq(Digits),
           NEW d \in Seq(Digits)
    PROVE  /\ (a \o b) \o c \in Seq(Digits) /\ c \o d \in Seq(Digits)
           /\ b \o (c \o d) \in Seq(Digits)
           /\ Regroups(a, b, c, d)
<1>1. a \o b \in Seq(Digits) /\ c \o d \in Seq(Digits)
  BY Join
<1>2. (a \o b) \o c \in Seq(Digits) /\ b \o (c \o d) \in Seq(Digits)
  BY <1>1, Join
<1>3. ((a \o b) \o c) \o d = (a \o b) \o (c \o d)
  <2> DEFINE e == a \o b
  <2>1. e \in Seq(Digits)
    BY <1>1
  <2> HIDE DEF e
  <2>2. (e \o c) \o d = e \o (c \o d)
    <3>1. Regroups3(e, c, d)
      BY <2>1, Regroup3, Zenon
    <3> QED BY <3>1 DEF Regroups3
  <2> QED BY <2>2 DEF e
<1>4. (a \o b) \o (c \o d) = a \o (b \o (c \o d))
  <2> DEFINE e == c \o d
  <2>1. e \in Seq(Digits)
    BY <1>1
  <2> HIDE DEF e
  <2>2. (a \o b) \o e = a \o (b \o e)
    <3>1. Regroups3(a, b, e)
      BY <2>1, Regroup3, Zenon
    <3> QED BY <3>1 DEF Regroups3
  <2> QED BY <2>2 DEF e
<1> QED BY <1>1, <1>2, <1>3, <1>4 DEF Regroups

\* More cells hold more numbers.
LEMMA PowMonotone ==
    ASSUME NEW i \in Nat, NEW j \in Nat, i <= j
    PROVE  Pow[i] <= Pow[j]
<1> DEFINE S == {n \in Nat : Pow[i] <= Pow[i + n]}
<1>1. 0 \in S
  BY PowDef
<1>2. ASSUME NEW n \in Nat, n \in S PROVE n + 1 \in S
  <2>1. PICK p \in Nat \ {0} : p = Pow[i + n]
    BY PowDef
  <2>2. Pow[i + (n + 1)] = Base * p
    <3>1. i + n \in Nat /\ i + (n + 1) = (i + n) + 1
      OBVIOUS
    <3> QED BY <2>1, <3>1, PowDef
  <2>3. p <= Base * p
    BY WidthAssumption
  <2>4. PICK q \in Nat : q = Pow[i]
    BY PowDef
  <2>5. Base * p \in Nat
    BY WidthAssumption
  <2>6. q <= p
    BY <1>2, <2>1, <2>4
  <2>7. q <= Base * p
    BY <2>3, <2>4, <2>5, <2>6
  <2> QED BY <2>2, <2>4, <2>7
<1>3. Nat \subseteq S
  <2> HIDE DEF S
  <2> QED BY <1>1, <1>2, NaturalsCovered
<1>4. j - i \in Nat /\ i + (j - i) = j
  OBVIOUS
<1> QED BY <1>3, <1>4

\* A length in front of what is that long.
LEMMA SizedRead ==
    ASSUME NEW b \in Seq(Digits), NEW w \in Nat, Len(b) < Pow[w], NEW t \in Seq(Digits),
           NEW c, At(c, LE(Len(b), w) \o (b \o t))
    PROVE  /\ Take(c, w) = Read(LE(Len(b), w), b \o t)
           /\ Num(LE(Len(b), w)) = Len(b)
           /\ Take(Read(LE(Len(b), w), b \o t), Len(b)) = Read(b, t)
<1>1. Len(b) \in Nat
  BY LenProperties
<1>2. LE(Len(b), w) \in Seq(Digits) /\ Len(LE(Len(b), w)) = w
  BY <1>1, LETyped
<1>3. b \o t \in Seq(Digits)
  BY Join
<1>4. Take(c, w) = Read(LE(Len(b), w), b \o t)
  BY <1>2, <1>3, TakeNext
<1>5. Take(Read(LE(Len(b), w), b \o t), Len(b)) = Read(b, t)
  BY ReadOn, TakeNext
<1>6. Num(LE(Len(b), w)) = Len(b)
  BY <1>1, NumLE
<1> QED BY <1>4, <1>5, <1>6

\* Bytes behind a tag, and behind their length if there is one.
Tagged(s, n, l, b) == s = (Byte(n) \o l) \o b

\* A tag in front of what has the length that the tag stands for.
LEMMA TagRead ==
    ASSUME NEW n \in 0..(Base - 1), NEW b \in Seq(Digits), NEW t \in Seq(Digits),
           NEW s, Tagged(s, n, <<>>, b), NEW c, At(c, s \o t)
    PROVE  /\ s \in Seq(Digits)
           /\ Take(c, 1) = Read(Byte(n), b \o t) /\ Num(Byte(n)) = n
           /\ Take(Read(Byte(n), b \o t), Len(b)) = Read(b, t)
<1>1. PICK k \in Seq(Digits) : k = Byte(n) /\ Len(k) = 1 /\ Num(k) = n
  BY ByteRead
<1>2. k \o <<>> = k
  BY JoinEmpty
<1>3. k \o b \in Seq(Digits) /\ b \o t \in Seq(Digits)
  BY Join
<1>4. (k \o b) \o t = k \o (b \o t)
  BY Regroup
<1>5. s = k \o b
  BY <1>1, <1>2 DEF Tagged
<1>6. Take(c, 1) = Read(k, b \o t)
  <2>1. At(c, k \o (b \o t))
    BY <1>4, <1>5
  <2> QED BY <1>1, <1>3, <2>1, TakeNext
<1>7. PICK x : x = Read(k, b \o t)
  OBVIOUS
<1>8. At(x, b \o t)
  BY <1>7, ReadOn
<1>9. Take(x, Len(b)) = Read(b, t)
  BY <1>8, TakeNext
<1> QED BY <1>1, <1>3, <1>5, <1>6, <1>7, <1>9

\* A tag in front of a length and of what is that long.
LEMMA TagSizedRead ==
    ASSUME NEW n \in 0..(Base - 1), NEW b \in Seq(Digits), NEW t \in Seq(Digits),
           NEW w \in Nat, Len(b) < Pow[w], NEW l, l = LE(Len(b), w),
           NEW s, Tagged(s, n, l, b), NEW c, At(c, s \o t)
    PROVE  /\ s \in Seq(Digits)
           /\ Take(c, 1) = Read(Byte(n), l \o (b \o t)) /\ Num(Byte(n)) = n
           /\ Take(Read(Byte(n), l \o (b \o t)), w) = Read(l, b \o t)
           /\ Num(l) = Len(b)
           /\ Take(Read(l, b \o t), Len(b)) = Read(b, t)
<1>1. PICK k \in Seq(Digits) : k = Byte(n) /\ Len(k) = 1 /\ Num(k) = n
  BY ByteRead
<1>2. l \in Seq(Digits)
  BY LETyped, JoinEmpty
<1>3. (k \o l) \o b \in Seq(Digits) /\ l \o (b \o t) \in Seq(Digits)
  BY <1>2, Regroup4, Zenon
<1>4. Regroups(k, l, b, t)
  BY <1>2, Regroup4, Zenon
<1>5. s = (k \o l) \o b /\ At(c, k \o (l \o (b \o t)))
  <2>1. s = (k \o l) \o b
    BY <1>1 DEF Tagged
  <2> QED BY <1>4, <2>1 DEF Regroups
<1>6. Take(c, 1) = Read(k, l \o (b \o t))
  BY <1>1, <1>3, <1>5, TakeNext
<1>7. PICK x : x = Read(k, l \o (b \o t))
  OBVIOUS
<1>8. At(x, l \o (b \o t))
  BY <1>7, ReadOn
<1>9. /\ Take(x, w) = Read(l, b \o t)
      /\ Num(l) = Len(b)
      /\ Take(Read(l, b \o t), Len(b)) = Read(b, t)
  BY <1>8, SizedRead
<1> QED BY <1>1, <1>3, <1>5, <1>6, <1>7, <1>9

\* Where the length is a u32, it is a usize as well.
LEMMA LengthFits ==
    ASSUME NEW n \in Nat, n < Pow[W32]
    PROVE  n < Pow[W64] /\ FitsUsize(n)
<1>1. W32 \in Nat /\ W64 \in Nat /\ W32 <= W64
  BY WidthAssumption
<1>2. Pow[W32] \in Nat /\ Pow[W64] \in Nat
  BY <1>1, PowDef
<1>3. Pow[W32] <= Pow[W64]
  BY <1>1, PowMonotone
<1> QED BY <1>2, <1>3, WidthAssumption DEF FitsUsize

\* An id is read back (decode_vector_id of encode_vector_id).
LEMMA IdRead ==
    ASSUME NEW id \in Ids, NEW t \in Seq(Digits), NEW c, At(c, EncodeId(id) \o t),
           id.kind = VID_BYTES => Len(id.bits) < Pow[W32]
    PROVE  EncodeId(id) \in Seq(Digits) /\ ReadId(c) = Read(id, t)
<1>1. 0 \in 0..(Base - 1) /\ 1 \in 0..(Base - 1) /\ W64 \in Nat
  BY WidthAssumption
<1>2. CASE id.kind = VID_U64
  <2>1. PICK b \in Seq(Digits) :
           b = id.bits /\ Len(b) = W64 /\ id = [kind |-> VID_U64, bits |-> b]
    BY <1>1, <1>2 DEF Ids, Words, VID_U64, VID_BYTES
  <2>2. Tagged(EncodeId(id), 0, <<>>, b)
    BY <1>2, <2>1 DEF Tagged, EncodeId, VID_U64, VID_BYTES
  <2>3. /\ EncodeId(id) \in Seq(Digits)
        /\ Take(c, 1) = Read(Byte(0), b \o t) /\ Num(Byte(0)) = 0
        /\ Take(Read(Byte(0), b \o t), W64) = Read(b, t)
    BY <1>1, <2>1, <2>2, TagRead
  <2>4. Need(Read(Byte(0), b \o t), VID_U64 = VID_BYTES => FitsUsize(W64))
          = Read(Byte(0), b \o t)
    BY DEF Need, VID_U64, VID_BYTES
  <2>5. Need(Read(b, t), VID_U64 \in {VID_U64, VID_BYTES}) = Read(b, t)
    BY DEF Need
  <2>6. ReadId(c) = Yield(Read(b, t), [kind |-> VID_U64, bits |-> b])
    BY <2>3, <2>4, <2>5, ReadOn DEF ReadId, VID_U64, VID_BYTES
  <2> QED BY <2>1, <2>3, <2>6, ReadOn
<1>3. CASE id.kind = VID_BYTES
  <2>1. PICK b \in Seq(Digits) : b = id.bits /\ id = [kind |-> VID_BYTES, bits |-> b]
    BY <1>3 DEF Ids, VID_U64, VID_BYTES
  <2>2. Len(b) \in Nat /\ Len(b) < Pow[W64] /\ FitsUsize(Len(b))
    BY <1>3, <2>1, LenProperties, LengthFits
  <2>3. PICK l : l = LE(Len(b), W64)
    OBVIOUS
  <2>4. Tagged(EncodeId(id), 1, l, b)
    BY <1>3, <2>1, <2>3 DEF Tagged, EncodeId, VID_BYTES
  <2>5. /\ EncodeId(id) \in Seq(Digits)
        /\ Take(c, 1) = Read(Byte(1), l \o (b \o t)) /\ Num(Byte(1)) = 1
        /\ Take(Read(Byte(1), l \o (b \o t)), W64) = Read(l, b \o t)
        /\ Num(l) = Len(b) /\ Take(Read(l, b \o t), Len(b)) = Read(b, t)
    BY <1>1, <2>2, <2>3, <2>4, TagSizedRead
  <2>6. Need(Read(l, b \o t), VID_BYTES = VID_BYTES => FitsUsize(Len(b))) = Read(l, b \o t)
    BY <2>2 DEF Need
  <2>7. Need(Read(b, t), VID_BYTES \in {VID_U64, VID_BYTES}) = Read(b, t)
    BY DEF Need
  <2>8. ReadId(c) = Yield(Read(b, t), [kind |-> VID_BYTES, bits |-> b])
    BY <2>5, <2>6, <2>7, ReadOn DEF ReadId, VID_U64, VID_BYTES
  <2> QED BY <2>1, <2>5, <2>8, ReadOn
<1> QED BY <1>2, <1>3 DEF Ids

\* A string is UTF-8.
LEMMA StringUtf8 ==
    ASSUME NEW s \in Strings
    PROVE  s \in Seq(Digits) /\ Utf8(s)
<1>1. s \in Seq(Digits)
  <2>1. Digits \ {<<Base - 1>>} \subseteq Digits
    OBVIOUS
  <2> QED BY <2>1, SeqMonotonic DEF Strings
<1>2. ASSUME NEW i \in DOMAIN s PROVE Digit(s[i]) # Base - 1
  <2>1. s[i] \in Digits \ {<<Base - 1>>}
    BY ElementOfSeq DEF Strings
  <2>2. PICK d \in 0..(Base - 1) : s[i] = <<d>>
    BY <2>1 DEF Digits
  <2>3. d # Base - 1
    BY <2>1, <2>2
  <2> QED BY <2>2, <2>3, CellDigit
<1> QED BY <1>1, <1>2 DEF Utf8

\* A value whose tag stands for its length.
LEMMA PlainValueRead ==
    ASSUME NEW k \in 1..4, NEW b \in Seq(Digits),
           k \in {1, 2} => Len(b) = W64,
           k = 3 => b \in {Byte(0), Byte(1)},
           k = 4 => b = <<>>,
           NEW v, v = [kind |-> k, bits |-> b],
           NEW t \in Seq(Digits), NEW c, At(c, EncodeValue(v) \o t)
    PROVE  EncodeValue(v) \in Seq(Digits) /\ ReadValue(c) = Read(v, t)
<1> USE DEF VAL_STRING, VAL_INT, VAL_FLOAT, VAL_BOOL, VAL_NULL
<1>1. k \in 0..(Base - 1)
  BY WidthAssumption, TagAssumption DEF WAL_MAGIC
<1>2. Tagged(EncodeValue(v), k, <<>>, b)
  <2>1. v.kind = k /\ v.bits = b /\ k # 0
    OBVIOUS
  <2>2. EncodeValue(v) = (Byte(v.kind) \o <<>>) \o v.bits
    BY <2>1 DEF EncodeValue
  <2> QED BY <2>1, <2>2 DEF Tagged
<1>3. /\ EncodeValue(v) \in Seq(Digits)
      /\ Take(c, 1) = Read(Byte(k), b \o t) /\ Num(Byte(k)) = k
      /\ Take(Read(Byte(k), b \o t), Len(b)) = Read(b, t)
  BY <1>1, <1>2, TagRead
<1>5. PICK x : x = Read(Byte(k), b \o t)
  OBVIOUS
<1>6. x.val = Byte(k)
  BY <1>5, ReadOn
<1>7. PICK y : y = Read(b, t)
  OBVIOUS
<1>8. y.val = b
  BY <1>7, ReadOn
<1>9. ReadValue(c) = Yield(y, [kind |-> k, bits |-> b])
  <2>1. Take(c, 1) = x /\ Num(x.val) = k /\ Take(x, Len(b)) = y
    BY <1>3, <1>5, <1>6, <1>7
  <2>2. CASE k \in {1, 2}
    BY <2>1, <2>2, <1>8 DEF ReadValue, Need
  <2>3. CASE k = 3
    <3>1. PICK d \in {0, 1} : b = Byte(d)
      BY <2>3
    <3>2. Len(b) = 1 /\ Num(b) = d
      <4>1. d \in 0..(Base - 1)
        BY WidthAssumption
      <4> QED BY <3>1, <4>1, ByteRead
    <3>3. CASE d = 0
      BY <2>1, <2>3, <3>1, <3>2, <3>3, <1>8 DEF ReadValue, Need
    <3>4. CASE d = 1
      BY <2>1, <2>3, <3>1, <3>2, <3>4, <1>8 DEF ReadValue, Need
    <3> QED BY <3>3, <3>4
  <2>4. CASE k = 4
    <3>1. Len(b) = 0
      BY <2>4
    <3> QED BY <2>1, <2>4, <3>1, <1>8 DEF ReadValue, Need
  <2> QED BY <2>2, <2>3, <2>4
<1> QED BY <1>3, <1>7, <1>9, ReadOn

\* A metadata value is read back (decode_value of encode_value).
LEMMA ValueRead ==
    ASSUME NEW v \in Values, NEW t \in Seq(Digits), NEW c, At(c, EncodeValue(v) \o t),
           v.kind = VAL_STRING => Len(v.bits) < Pow[W32]
    PROVE  EncodeValue(v) \in Seq(Digits) /\ ReadValue(c) = Read(v, t)
<1>1. 0..4 \subseteq 0..(Base - 1) /\ W64 \in Nat /\ W32 \in Nat
  BY WidthAssumption, TagAssumption DEF WAL_MAGIC
<1>2. CASE v.kind = VAL_STRING
  <2>1. PICK b \in Strings : b = v.bits /\ v = [kind |-> VAL_STRING, bits |-> b]
    BY <1>2 DEF Values, VAL_STRING, VAL_INT, VAL_FLOAT, VAL_BOOL, VAL_NULL
  <2>2. b \in Seq(Digits) /\ Utf8(b) /\ Len(b) < Pow[W32]
    BY <1>2, <2>1, StringUtf8
  <2>3. PICK l : l = LE(Len(b), W32)
    OBVIOUS
  <2>4. Tagged(EncodeValue(v), 0, l, b)
    BY <1>2, <2>1, <2>3 DEF Tagged, EncodeValue, VAL_STRING
  <2>5. /\ EncodeValue(v) \in Seq(Digits)
        /\ Take(c, 1) = Read(Byte(0), l \o (b \o t)) /\ Num(Byte(0)) = 0
        /\ Take(Read(Byte(0), l \o (b \o t)), W32) = Read(l, b \o t)
        /\ Num(l) = Len(b) /\ Take(Read(l, b \o t), Len(b)) = Read(b, t)
    BY <1>1, <2>2, <2>3, <2>4, TagSizedRead
  <2>6. PICK x : x = Read(Byte(0), l \o (b \o t))
    OBVIOUS
  <2>7. PICK y : y = Read(l, b \o t)
    OBVIOUS
  <2>8. PICK z : z = Read(b, t)
    OBVIOUS
  <2>9. x.val = Byte(0) /\ y.val = l /\ z.val = b
    BY <2>6, <2>7, <2>8, ReadOn
  <2>10. ReadValue(c) = Yield(z, [kind |-> VAL_STRING, bits |-> b])
    <3>1. /\ Take(c, 1) = x /\ Num(x.val) = 0 /\ Take(x, W32) = y
          /\ Num(y.val) = Len(b) /\ Take(y, Len(b)) = z
      BY <2>5, <2>6, <2>7, <2>8, <2>9
    <3> QED BY <3>1, <2>2, <2>9 DEF ReadValue, Need, VAL_STRING, VAL_INT, VAL_FLOAT, VAL_BOOL, VAL_NULL
  <2> QED BY <2>1, <2>5, <2>8, <2>10, ReadOn
<1>3. CASE v.kind \in {VAL_INT, VAL_FLOAT}
  <2>1. PICK k \in {1, 2}, b \in Seq(Digits) :
           Len(b) = W64 /\ v = [kind |-> k, bits |-> b]
    BY <1>1, <1>3 DEF Values, Words, VAL_STRING, VAL_INT, VAL_FLOAT, VAL_BOOL, VAL_NULL
  <2> QED BY <2>1, PlainValueRead
<1>4. CASE v.kind = VAL_BOOL
  <2>1. PICK b \in {Byte(0), Byte(1)} : v = [kind |-> 3, bits |-> b]
    BY <1>4 DEF Values, VAL_STRING, VAL_INT, VAL_FLOAT, VAL_BOOL, VAL_NULL
  <2>2. b \in Seq(Digits)
    BY <1>1, ByteRead
  <2> QED BY <2>1, <2>2, PlainValueRead
<1>5. CASE v.kind = VAL_NULL
  <2>1. v = [kind |-> 4, bits |-> <<>>]
    BY <1>5 DEF Values, VAL_STRING, VAL_INT, VAL_FLOAT, VAL_BOOL, VAL_NULL
  <2>2. <<>> \in Seq(Digits)
    OBVIOUS
  <2>3. PICK b \in Seq(Digits) : b = <<>>
    BY <2>2
  <2>4. v = [kind |-> 4, bits |-> b]
    BY <2>1, <2>3
  <2>5. 4 \in 1..4 /\ ~(4 \in {1, 2}) /\ 4 # 3
    OBVIOUS
  <2> QED BY <2>3, <2>4, <2>5, PlainValueRead, Zenon
<1> QED BY <1>2, <1>3, <1>4, <1>5 DEF Values

-----------------------------------------------------------------------------
(* Records *)

\* What a length or a tag is put in front of is shorter than the result.
LEMMA TaggedTyped ==
    ASSUME NEW n \in 0..(Base - 1), NEW l \in Seq(Digits), NEW b \in Seq(Digits),
           NEW s, Tagged(s, n, l, b)
    PROVE  s \in Seq(Digits) /\ Len(b) < Len(s) /\ Len(b) \in Nat /\ Len(s) \in Nat
<1>1. PICK k \in Seq(Digits) : k = Byte(n) /\ Len(k) = 1
  BY ByteRead
<1>2. PICK a \in Seq(Digits) : a = k \o l /\ Len(a) = 1 + Len(l)
  <2>1. k \o l \in Seq(Digits) /\ Len(k \o l) = Len(k) + Len(l)
    BY Join
  <2> QED BY <1>1, <2>1
<1>3. a \o b \in Seq(Digits) /\ Len(a \o b) = Len(a) + Len(b)
  BY Join
<1>4. s = a \o b
  BY <1>1, <1>2 DEF Tagged
<1>5. Len(l) \in Nat /\ Len(b) \in Nat
  BY LenProperties
<1> QED BY <1>2, <1>3, <1>4, <1>5

\* An id is written as more digits than it has (encode_id).
LEMMA IdTyped ==
    ASSUME NEW id \in Ids
    PROVE  /\ EncodeId(id) \in Seq(Digits)
           /\ Len(id.bits) < Len(EncodeId(id))
           /\ Len(id.bits) \in Nat /\ Len(EncodeId(id)) \in Nat
<1>1. 0 \in 0..(Base - 1) /\ 1 \in 0..(Base - 1) /\ W64 \in Nat
  BY WidthAssumption
<1>2. PICK b \in Seq(Digits) : b = id.bits
  BY <1>1 DEF Ids, Words
<1>3. CASE id.kind = VID_U64
  <2>1. Tagged(EncodeId(id), 0, <<>>, b)
    BY <1>2, <1>3 DEF Tagged, EncodeId, VID_U64, VID_BYTES
  <2>2. <<>> \in Seq(Digits)
    OBVIOUS
  <2> QED BY <1>1, <1>2, <2>1, <2>2, TaggedTyped
<1>4. CASE id.kind = VID_BYTES
  <2>1. PICK l \in Seq(Digits) : l = LE(Len(b), W64)
    BY <1>1, LenProperties, LETyped
  <2>2. Tagged(EncodeId(id), 1, l, b)
    BY <1>2, <1>4, <2>1 DEF Tagged, EncodeId, VID_BYTES
  <2> QED BY <1>1, <1>2, <2>2, TaggedTyped
<1> QED BY <1>3, <1>4 DEF Ids

\* So is a metadata value (encode_value).
LEMMA ValueTyped ==
    ASSUME NEW v \in Values
    PROVE  /\ EncodeValue(v) \in Seq(Digits)
           /\ Len(v.bits) < Len(EncodeValue(v))
           /\ Len(v.bits) \in Nat /\ Len(EncodeValue(v)) \in Nat
<1>1. 0..4 \subseteq 0..(Base - 1) /\ W64 \in Nat /\ W32 \in Nat
  BY WidthAssumption, TagAssumption DEF WAL_MAGIC
<1>2. PICK n \in 0..4 : n = v.kind
  BY DEF Values, VAL_STRING, VAL_INT, VAL_FLOAT, VAL_BOOL, VAL_NULL
<1>3. PICK b \in Seq(Digits) : b = v.bits
  <2>1. ASSUME NEW s \in Strings PROVE s \in Seq(Digits)
    BY StringUtf8
  <2>2. Byte(0) \in Seq(Digits) /\ Byte(1) \in Seq(Digits)
    BY <1>1, ByteRead
  <2>3. v.bits \in Strings \cup [1..W64 -> Digits] \cup {Byte(0), Byte(1)} \cup {<<>>}
    BY DEF Values, Words
  <2>4. [1..W64 -> Digits] \subseteq Seq(Digits) /\ <<>> \in Seq(Digits)
    BY <1>1
  <2>5. v.bits \in Seq(Digits)
    BY <2>1, <2>2, <2>3, <2>4
  <2> QED BY <2>5
<1>4. CASE n = VAL_STRING
  <2>1. PICK l \in Seq(Digits) : l = LE(Len(b), W32)
    BY <1>1, LenProperties, LETyped
  <2>2. Tagged(EncodeValue(v), n, l, b)
    BY <1>2, <1>3, <1>4, <2>1 DEF Tagged, EncodeValue
  <2> QED BY <1>1, <1>3, <2>2, TaggedTyped
<1>5. CASE n # VAL_STRING
  <2>1. Tagged(EncodeValue(v), n, <<>>, b)
    BY <1>2, <1>3, <1>5 DEF Tagged, EncodeValue
  <2>2. <<>> \in Seq(Digits)
    OBVIOUS
  <2> QED BY <1>1, <1>3, <2>1, <2>2, TaggedTyped
<1> QED BY <1>4, <1>5

Entries == [key : Strings, value : Values]

\* The parts of an entry, and that none is longer than the entry.
EntryParts(e, l, k, v) ==
    /\ l = LE(Len(e.key), W32) /\ k = e.key /\ v = EncodeValue(e.value)
    /\ EncodeEntry(e) = (l \o k) \o v

\* And a metadata entry, which has three parts (encode_metadata).
LEMMA EntryTyped ==
    ASSUME NEW e \in Entries
    PROVE  /\ EncodeEntry(e) \in Seq(Digits) /\ Len(EncodeEntry(e)) \in Nat \ {0}
           /\ e.key \in Strings /\ e.value \in Values
           /\ Len(e.key) < Len(EncodeEntry(e))
           /\ Len(e.value.bits) < Len(EncodeEntry(e))
           /\ \E l, k, v \in Seq(Digits) : EntryParts(e, l, k, v)
<1>1. e.key \in Strings /\ e.value \in Values /\ W32 \in Nat \ {0}
  BY WidthAssumption DEF Entries
<1>2. PICK k \in Seq(Digits) : k = e.key /\ Len(k) \in Nat
  BY <1>1, StringUtf8, LenProperties
<1>3. PICK l \in Seq(Digits) : l = LE(Len(k), W32) /\ Len(l) = W32
  BY <1>1, <1>2, LETyped
<1>4. PICK v \in Seq(Digits) :
         v = EncodeValue(e.value) /\ Len(e.value.bits) < Len(v)
         /\ Len(e.value.bits) \in Nat /\ Len(v) \in Nat
  BY <1>1, ValueTyped
<1>5. PICK a \in Seq(Digits) : a = l \o k /\ Len(a) = W32 + Len(k)
  <2>1. l \o k \in Seq(Digits) /\ Len(l \o k) = Len(l) + Len(k)
    BY Join
  <2> QED BY <1>3, <2>1
<1>6. a \o v \in Seq(Digits) /\ Len(a \o v) = Len(a) + Len(v)
  BY Join
<1>7. EncodeEntry(e) = (l \o k) \o v
  BY <1>2, <1>3, <1>4 DEF EncodeEntry
<1>8. EncodeEntry(e) = a \o v
  BY <1>5, <1>7
<1>9. EntryParts(e, l, k, v)
  BY <1>2, <1>3, <1>4, <1>7 DEF EntryParts
<1>10. Len(EncodeEntry(e)) = W32 + Len(k) + Len(v) /\ EncodeEntry(e) \in Seq(Digits)
  BY <1>5, <1>6, <1>8
<1>11. /\ Len(EncodeEntry(e)) \in Nat \ {0} /\ Len(e.key) < Len(EncodeEntry(e))
       /\ Len(e.value.bits) < Len(EncodeEntry(e))
  <2>1. PICK w \in Nat \ {0} : w = W32
    BY <1>1
  <2>2. PICK n \in Nat : n = Len(k)
    BY <1>2
  <2>3. PICK m \in Nat : m = Len(v)
    BY <1>4
  <2>4. PICK j \in Nat : j = Len(e.value.bits)
    BY <1>4
  <2>5. Len(e.key) = n
    BY <1>2, <2>2
  <2>6. Len(EncodeEntry(e)) = w + n + m
    BY <1>10, <2>1, <2>2, <2>3
  <2>7. j < m
    BY <1>4, <2>3, <2>4
  <2> HIDE <1>1, <1>2, <1>4, <1>10
  <2> QED BY <2>4, <2>5, <2>6, <2>7
<1>12. \E l_1, k_1, v_1 \in Seq(Digits) : EntryParts(e, l_1, k_1, v_1)
  BY <1>9
<1> QED BY <1>1, <1>10, <1>11, <1>12

\* An entry of metadata is read back (decode_metadata, wal.rs).
LEMMA EntryRead ==
    ASSUME NEW e \in Entries, Len(EncodeEntry(e)) < Pow[W32], NEW t \in Seq(Digits),
           NEW c, At(c, EncodeEntry(e) \o t), NEW entries
    PROVE  ReadEntry(c, entries) = Read(Append(entries, e), t)
<1>1. PICK l \in Seq(Digits), k \in Seq(Digits), v \in Seq(Digits) : EntryParts(e, l, k, v)
  BY EntryTyped
<1>2. W32 \in Nat /\ Pow[W32] \in Nat
  BY PowDef, WidthAssumption
<1>3. /\ e.key \in Strings /\ e.value \in Values
      /\ Len(e.key) < Pow[W32] /\ Len(e.value.bits) < Pow[W32]
  <2>1. Len(e.key) < Len(EncodeEntry(e)) /\ Len(e.value.bits) < Len(EncodeEntry(e))
    BY EntryTyped
  <2>2. e.key \in Strings /\ e.value \in Values /\ Len(EncodeEntry(e)) \in Nat
    BY EntryTyped
  <2>3. Len(e.key) \in Nat /\ Len(e.value.bits) \in Nat
    BY <2>2, StringUtf8, ValueTyped, LenProperties
  <2> QED BY <1>2, <2>1, <2>2, <2>3
<1>4. k = e.key /\ l = LE(Len(k), W32) /\ v = EncodeValue(e.value) /\ Utf8(k)
  BY <1>1, <1>3, StringUtf8 DEF EntryParts
<1>5. PICK u \in Seq(Digits) : u = v \o t
  BY Join
<1>6. At(c, l \o (k \o u))
  <2>1. EncodeEntry(e) = (l \o k) \o v
    BY <1>1 DEF EntryParts
  <2>2. Regroups(l, k, v, t)
    BY Regroup4, Zenon
  <2> QED BY <1>5, <2>1, <2>2 DEF Regroups
<1>7. /\ Take(c, W32) = Read(l, k \o u) /\ Num(l) = Len(k)
      /\ Take(Read(l, k \o u), Len(k)) = Read(k, u)
  BY <1>2, <1>3, <1>4, <1>6, SizedRead
<1>8. PICK x : x = Read(l, k \o u)
  OBVIOUS
<1>9. PICK y : y = Read(k, u)
  OBVIOUS
<1>10. x.val = l /\ y.val = k /\ At(y, EncodeValue(e.value) \o t)
  BY <1>4, <1>5, <1>8, <1>9, ReadOn
<1>11. ReadValue(y) = Read(e.value, t)
  BY <1>3, <1>10, ValueRead
<1>12. Need(y, Utf8(k)) = y
  BY <1>4 DEF Need
<1>13. ReadEntry(c, entries)
         = Yield(Read(e.value, t), Append(entries, [key |-> k, value |-> e.value]))
  <2>1. Read(e.value, t).val = e.value
    BY ReadOn
  <2>2. Take(c, W32) = x /\ Num(x.val) = Len(k) /\ Take(x, Len(k)) = y
    BY <1>7, <1>8, <1>9, <1>10
  <2> QED BY <1>10, <1>11, <1>12, <2>1, <2>2 DEF ReadEntry
<1>14. e = [key |-> k, value |-> e.value]
  BY <1>4 DEF Entries
<1> QED BY <1>13, <1>14, ReadOn

\* The recursive definition of LastEntries is one.
LEMMA LastEntriesDef ==
    ASSUME NEW m \in Seq(Entries)
    PROVE  /\ LastEntries(m)[0] = <<>>
           /\ \A i \in 1..Len(m) : /\ m[Len(m) - i + 1] \in Entries
                                   /\ LastEntries(m)[i] = EncodeEntry(m[Len(m) - i + 1])
                                                            \o LastEntries(m)[i - 1]
           /\ \A i \in 0..Len(m) : LastEntries(m)[i] \in Seq(Digits)
<1> DEFINE L == Len(m)
           V == Seq(Digits)
           step == [iv \in (1..L) \X V |-> EncodeEntry(m[L - iv[1] + 1]) \o iv[2]]
<1>1. L \in Nat /\ <<>> \in V
  BY LenProperties
<1>2. ASSUME NEW i \in 1..L PROVE m[L - i + 1] \in Entries
  <2>1. L - i + 1 \in 1..Len(m)
    BY <1>1
  <2> QED BY <2>1, ElementOfSeq
<1>3. ASSUME NEW i \in 1..L, NEW s \in V PROVE EncodeEntry(m[L - i + 1]) \o s \in V
  <2>1. EncodeEntry(m[L - i + 1]) \in Seq(Digits)
    BY <1>2, EntryTyped
  <2> QED BY <2>1, Join
<1> HIDE DEF L, V
<1>4. step \in [(1..L) \X V -> V]
  BY <1>3
<1>5. PICK f \in [0..L -> V] : Follows(f, <<>>, L, step)
  <2> HIDE DEF step
  <2> QED BY <1>1, <1>4, FiniteRecursion, Zenon
<1>6. \A i \in 1..L : f[i] = EncodeEntry(m[L - i + 1]) \o f[i - 1]
  <2> TAKE i \in 1..L
  <2>1. <<i, f[i - 1]>> \in (1..L) \X V
    BY <1>1
  <2>2. f[i] = step[<<i, f[i - 1]>>]
    BY <1>5 DEF Follows
  <2> QED BY <2>1, <2>2
<1>7. f = [i \in 0..L |-> IF i = 0 THEN <<>> ELSE EncodeEntry(m[L - i + 1]) \o f[i - 1]]
  <2>1. ASSUME NEW i \in 0..L
        PROVE  f[i] = IF i = 0 THEN <<>> ELSE EncodeEntry(m[L - i + 1]) \o f[i - 1]
    <3>1. CASE i = 0
      BY <1>5, <3>1 DEF Follows
    <3>2. CASE i # 0
      <4>1. i \in 1..L
        BY <1>1, <3>2
      <4> QED BY <1>6, <3>2, <4>1, Zenon
    <3> QED BY <3>1, <3>2
  <2>2. f = [i \in 0..L |-> f[i]]
    OBVIOUS
  <2> QED BY <2>1, <2>2
<1> DEFINE g == LastEntries(m)
<1>8. g = [i \in 0..L |-> IF i = 0 THEN <<>> ELSE EncodeEntry(m[L - i + 1]) \o g[i - 1]]
  BY <1>7, Zenon DEF LastEntries, L
<1> HIDE DEF g
<1>9. g[0] = <<>>
  BY <1>1, <1>8
<1>10. \A i \in 1..L : g[i] = EncodeEntry(m[L - i + 1]) \o g[i - 1]
  BY <1>1, <1>8
<1>11. \A i \in 0..L : g[i] \in V
  <2> DEFINE S == {i \in Nat : g[i] \in V}
  <2>1. 0 \in S
    BY <1>1, <1>9
  <2>2. \A i \in 1..L : i - 1 \in S => i \in S
    <3> SUFFICES ASSUME NEW i \in 1..L, g[i - 1] \in V PROVE i \in Nat /\ g[i] \in V
      OBVIOUS
    <3>1. i \in Nat
      BY <1>1
    <3>2. EncodeEntry(m[L - i + 1]) \o g[i - 1] \in V
      BY <1>3
    <3> QED BY <1>10, <3>1, <3>2
  <2>3. \A i \in 0..L : i \in S
    <3> HIDE DEF S
    <3> QED BY <1>1, <2>1, <2>2, UpTo
  <2> QED BY <2>3
<1> QED BY <1>2, <1>9, <1>10, <1>11 DEF g, L, V

\* Every entry takes cells of its own.
LEMMA LastEntriesLength ==
    ASSUME NEW m \in Seq(Entries)
    PROVE  \A i \in 0..Len(m) :
               /\ Len(LastEntries(m)[i]) \in Nat /\ i <= Len(LastEntries(m)[i])
               /\ \A j \in 1..i :
                    Len(EncodeEntry(m[Len(m) - j + 1])) <= Len(LastEntries(m)[i])
<1> DEFINE L == Len(m)
           g == LastEntries(m)
           E(i) == EncodeEntry(m[L - i + 1])
<1>1. L \in Nat
  BY LenProperties
<1>2. \A i \in 0..L : g[i] \in Seq(Digits) /\ Len(g[i]) \in Nat
  BY LastEntriesDef, LenProperties
<1>3. ASSUME NEW i \in 1..L
      PROVE  Len(E(i)) \in Nat \ {0} /\ Len(g[i]) = Len(E(i)) + Len(g[i - 1])
  <2>1. m[L - i + 1] \in Entries /\ g[i] = E(i) \o g[i - 1]
    BY LastEntriesDef
  <2>2. E(i) \in Seq(Digits) /\ Len(E(i)) \in Nat \ {0}
    BY <2>1, EntryTyped
  <2>3. g[i - 1] \in Seq(Digits)
    BY <1>1, <1>2
  <2> HIDE DEF g, E
  <2>4. Len(E(i) \o g[i - 1]) = Len(E(i)) + Len(g[i - 1])
    BY <2>2, <2>3, Join
  <2> QED BY <2>1, <2>2, <2>4
<1> HIDE DEF g, E, L
<1> DEFINE S == {i \in Nat : i <= Len(g[i]) /\ \A j \in 1..i : Len(E(j)) <= Len(g[i])}
<1>4. 0 \in S
  BY <1>1, <1>2
<1>5. ASSUME NEW i \in 1..L, i - 1 \in S PROVE i \in S
  <2>1. Len(g[i - 1]) \in Nat /\ Len(g[i]) \in Nat /\ i - 1 <= Len(g[i - 1])
    BY <1>1, <1>2, <1>5
  <2>2. Len(E(i)) \in Nat \ {0} /\ Len(g[i]) = Len(E(i)) + Len(g[i - 1])
    BY <1>3
  <2>3. i <= Len(g[i]) /\ Len(E(i)) <= Len(g[i]) /\ Len(g[i - 1]) <= Len(g[i])
    BY <2>1, <2>2
  <2>4. ASSUME NEW j \in 1..i PROVE Len(E(j)) <= Len(g[i])
    <3>1. CASE j = i
      BY <2>3, <3>1
    <3>2. CASE j # i
      <4>1. j \in 1..(i - 1) /\ j \in 1..L
        BY <3>2, <1>1
      <4>2. Len(E(j)) <= Len(g[i - 1]) /\ Len(E(j)) \in Nat
        BY <1>3, <1>5, <4>1
      <4> QED BY <2>1, <2>3, <4>2
    <3> QED BY <3>1, <3>2
  <2> QED BY <2>3, <2>4
<1>6. \A i \in 0..L : i \in S
  <2> HIDE DEF S
  <2> QED BY <1>1, <1>4, <1>5, UpTo
<1> QED BY <1>2, <1>6 DEF g, E, L

\* Metadata is read back, entry by entry.
LEMMA EntriesRead ==
    ASSUME NEW m \in Seq(Entries), NEW t \in Seq(Digits), NEW c,
           At(c, LastEntries(m)[Len(m)] \o t),
           Len(LastEntries(m)[Len(m)]) < Pow[W32]
    PROVE  ReadEntries(c, Len(m))[Len(m)] = Read(m, t)
<1> DEFINE n == Len(m)
           g == LastEntries(m)
<1>1. n \in Nat /\ \A i \in 1..n : m[i] \in Entries
  BY LenProperties, ElementOfSeq
<1>2. /\ \A i \in 0..n : g[i] \in Seq(Digits)
      /\ g[0] = <<>>
      /\ \A i \in 1..n : g[i] = EncodeEntry(m[n - i + 1]) \o g[i - 1]
  BY LastEntriesDef
<1>3. \A i \in 1..n : Len(EncodeEntry(m[i])) < Pow[W32]
  <2> TAKE i \in 1..n
  <2>1. n \in 0..n /\ n - i + 1 \in 1..n /\ n - (n - i + 1) + 1 = i
    BY <1>1
  <2>2. Len(EncodeEntry(m[n - (n - i + 1) + 1])) <= Len(g[n]) /\ Len(g[n]) \in Nat
    BY <2>1, LastEntriesLength
  <2>3. Len(EncodeEntry(m[i])) \in Nat
    BY <1>1, EntryTyped
  <2>4. Pow[W32] \in Nat
    BY PowDef, WidthAssumption
  <2> QED BY <2>1, <2>2, <2>3, <2>4
<1>4. c.ok = TRUE /\ c.rest = g[n] \o t
  BY DEF At
<1> HIDE DEF n, g
<1> DEFINE f == [i \in 0..n |-> Read(SubSeq(m, 1, i), g[n - i] \o t)]
<1>5. f[0] = Yield(c, <<>>)
  <2>1. SubSeq(m, 1, 0) = <<>>
    OBVIOUS
  <2>2. f[0] = Read(<<>>, g[n] \o t)
    <3>1. 0 \in 0..n /\ n - 0 = n
      BY <1>1
    <3>2. f[0] = Read(SubSeq(m, 1, 0), g[n - 0] \o t)
      BY <3>1
    <3> QED BY <2>1, <3>1, <3>2
  <2> QED BY <1>4, <2>2 DEF Read, Yield
<1>6. \A i \in 1..n : f[i] = ReadEntry(f[i - 1], f[i - 1].val)
  <2> TAKE i \in 1..n
  <2>1. PICK e \in Entries : e = m[i] /\ Len(EncodeEntry(e)) < Pow[W32]
    BY <1>1, <1>3
  <2>2. PICK q \in Seq(Digits) : q = g[n - i]
    <3>1. n - i \in 0..n
      BY <1>1
    <3> QED BY <1>2, <3>1
  <2>3. g[n - (i - 1)] = EncodeEntry(e) \o q
    <3>1. n - (i - 1) \in 1..n /\ n - (n - (i - 1)) + 1 = i /\ (n - (i - 1)) - 1 = n - i
      BY <1>1
    <3>2. g[n - (i - 1)] = EncodeEntry(m[n - (n - (i - 1)) + 1]) \o g[(n - (i - 1)) - 1]
      BY <1>2, <3>1
    <3> QED BY <2>1, <2>2, <3>1, <3>2
  <2>4. PICK b \in Seq(Digits) : b = EncodeEntry(e)
    BY EntryTyped
  <2>5. (b \o q) \o t = b \o (q \o t)
    BY Regroup
  <2>6. PICK u \in Seq(Digits) : u = q \o t
    BY Join
  <2>7. PICK d : d = f[i - 1]
    OBVIOUS
  <2>8. d = Read(SubSeq(m, 1, i - 1), g[n - (i - 1)] \o t)
    <3>1. i - 1 \in 0..n
      BY <1>1
    <3> QED BY <2>7, <3>1
  <2> HIDE DEF f
  <2>9. d.val = SubSeq(m, 1, i - 1) /\ At(d, EncodeEntry(e) \o u)
    BY <2>3, <2>4, <2>5, <2>6, <2>8, ReadOn
  <2>10. ReadEntry(d, d.val) = Read(Append(SubSeq(m, 1, i - 1), e), u)
    <3>1. PICK x : x = d.val
      OBVIOUS
    <3>2. ReadEntry(d, x) = Read(Append(x, e), u)
      BY <2>1, <2>9, EntryRead
    <3> QED BY <2>9, <3>1, <3>2
  <2>11. Append(SubSeq(m, 1, i - 1), e) = SubSeq(m, 1, i)
    BY <1>1, <2>1 DEF n
  <2>12. f[i] = Read(SubSeq(m, 1, i), q \o t)
    BY <1>1, <2>2 DEF f
  <2> QED BY <2>6, <2>7, <2>10, <2>11, <2>12
<1> HIDE DEF f
<1>7. f = [i \in 0..n |-> IF i = 0 THEN Yield(c, <<>>) ELSE ReadEntry(f[i - 1], f[i - 1].val)]
  <2>1. ASSUME NEW i \in 0..n
        PROVE  f[i] = IF i = 0 THEN Yield(c, <<>>) ELSE ReadEntry(f[i - 1], f[i - 1].val)
    <3>1. CASE i = 0
      BY <1>5, <3>1
    <3>2. CASE i # 0
      <4>1. i \in 1..n
        BY <1>1, <3>2
      <4> QED BY <1>6, <3>2, <4>1
    <3> QED BY <3>1, <3>2
  <2>2. f = [i \in 0..n |-> f[i]]
    BY DEF f
  <2> QED BY <2>1, <2>2
<1> DEFINE h == ReadEntries(c, n)
<1>8. h = [i \in 0..n |-> IF i = 0 THEN Yield(c, <<>>) ELSE ReadEntry(h[i - 1], h[i - 1].val)]
  BY <1>7 DEF ReadEntries
<1> HIDE DEF h
<1>9. \A i \in 0..n : h[i] = f[i]
  <2> DEFINE S == {i \in Nat : h[i] = f[i]}
  <2>1. h[0] = f[0]
    BY <1>1, <1>5, <1>8
  <2>2. \A i \in 1..n : h[i - 1] = f[i - 1] => h[i] = f[i]
    BY <1>1, <1>6, <1>8
  <2>3. 0 \in S /\ \A i \in 1..n : i - 1 \in S => i \in S
    BY <1>1, <2>1, <2>2
  <2>4. \A i \in 0..n : i \in S
    <3> HIDE DEF S
    <3> QED BY <1>1, <2>3, UpTo
  <2> QED BY <2>4
<1>10. f[n] = Read(m, t)
  <2>1. SubSeq(m, 1, n) = m
    BY <1>1 DEF n
  <2>2. <<>> \o t = t
    BY JoinEmpty
  <2>3. n \in 0..n /\ n - n = 0
    BY <1>1
  <2>4. f[n] = Read(SubSeq(m, 1, n), g[0] \o t)
    BY <2>3 DEF f
  <2> QED BY <1>2, <2>1, <2>2, <2>4
<1> QED BY <1>1, <1>9, <1>10 DEF h, n

\* Metadata are read back (encode_metadata, decode_metadata).
LEMMA MetadataRead ==
    ASSUME NEW m \in Metadata
    PROVE  /\ EncodeMetadata(m) \in Seq(Digits)
           /\ Len(EncodeMetadata(m)) < Pow[W32] =>
                \A t \in Seq(Digits) : \A c :
                    At(c, EncodeMetadata(m) \o t) => ReadMetadata(c) = Read(m, t)
<1>1. m \in Seq(Entries) /\ Len(m) \in Nat
  BY LenProperties DEF Metadata, Entries
<1>2. PICK b \in Seq(Digits) : b = LastEntries(m)[Len(m)] /\ Len(b) \in Nat /\ Len(m) <= Len(b)
  <2>1. Len(m) \in 0..Len(m)
    BY <1>1
  <2>2. LastEntries(m)[Len(m)] \in Seq(Digits)
    BY <1>1, <2>1, LastEntriesDef
  <2>3. Len(LastEntries(m)[Len(m)]) \in Nat /\ Len(m) <= Len(LastEntries(m)[Len(m)])
    BY <1>1, <2>1, LastEntriesLength
  <2> QED BY <2>2, <2>3
<1>3. W32 \in Nat /\ Pow[W32] \in Nat
  BY PowDef, WidthAssumption
<1>4. PICK l \in Seq(Digits) : l = LE(Len(m), W32) /\ Len(l) = W32
  BY <1>1, <1>3, LETyped
<1>5. EncodeMetadata(m) = l \o b
  BY <1>2, <1>4 DEF EncodeMetadata
<1>6. l \o b \in Seq(Digits) /\ Len(l \o b) = W32 + Len(b)
  BY <1>4, Join
<1>7. ASSUME Len(EncodeMetadata(m)) < Pow[W32]
      PROVE  Len(b) < Pow[W32] /\ Num(l) = Len(m)
  <2>1. PICK p \in Nat : p = Pow[W32]
    BY <1>3
  <2>2. Len(b) < Pow[W32] /\ Len(m) < Pow[W32]
    BY <1>1, <1>2, <1>3, <1>5, <1>6, <1>7, <2>1
  <2> QED BY <1>1, <1>3, <1>4, <2>2, NumLE
<1>9. ASSUME Len(EncodeMetadata(m)) < Pow[W32], NEW t \in Seq(Digits), NEW c, At(c, EncodeMetadata(m) \o t)
      PROVE  ReadMetadata(c) = Read(m, t)
  <2>1. PICK u \in Seq(Digits) : u = b \o t
    BY Join
  <2>2. At(c, l \o u)
    <3>1. (l \o b) \o t = l \o (b \o t)
      BY Regroup
    <3> QED BY <1>5, <1>9, <2>1, <3>1
  <2>3. Take(c, W32) = Read(l, u)
    BY <1>4, <2>2, TakeNext
  <2>4. PICK x : x = Read(l, u)
    OBVIOUS
  <2>5. x.val = l /\ At(x, LastEntries(m)[Len(m)] \o t)
    BY <1>2, <2>1, <2>4, ReadOn
  <2>6. Len(b) < Pow[W32] /\ Num(l) = Len(m)
    BY <1>7, <1>9
  <2>7. ReadEntries(x, Len(m))[Len(m)] = Read(m, t)
    BY <1>1, <1>2, <2>5, <2>6, EntriesRead
  <2> QED BY <2>3, <2>4, <2>5, <2>6, <2>7 DEF ReadMetadata
<1> QED BY <1>5, <1>6, <1>9

\* What is laid out in chunks can be cut into those chunks again.
LaidOut(D, n, w, items, s) ==
    /\ s \in Seq(D) /\ Len(s) = n * w /\ n * w \in Nat
    /\ \A i \in 1..n : Chunk(s, w, i) = items[i]

\* Items that are written one behind the other are found again: the
\* vector of a record, the rows of a payload.
LEMMA FlatDef ==
    ASSUME NEW D, NEW n \in Nat, NEW w \in Nat \ {0}, NEW items \in [1..n -> [1..w -> D]]
    PROVE  LaidOut(D, n, w, items, Flat(items, w))
<1> DEFINE s == Flat(items, w)
<1>1. Len(items) = n /\ n * w \in Nat
  <2>1. items \in Seq([1..w -> D])
    OBVIOUS
  <2> QED OBVIOUS
<1>2. ASSUME NEW p \in 1..(n * w)
      PROVE  (p - 1) \div w + 1 \in 1..n /\ ((p - 1) % w) + 1 \in 1..w
  <2>1. p - 1 \in Nat /\ p - 1 < n * w
    BY <1>1
  <2>2. PICK q \in Nat, r \in Nat :
           q = (p - 1) \div w /\ r = (p - 1) % w /\ r < w /\ p - 1 = w * q + r
    BY <2>1, DivMod, Zenon
  <2>3. ~(n <= q)
    <3> SUFFICES ASSUME n <= q PROVE FALSE
      OBVIOUS
    <3>1. w * n <= w * q
      OBVIOUS
    <3>2. w * n = n * w
      OBVIOUS
    <3> QED BY <2>1, <2>2, <3>1, <3>2
  <2> QED BY <2>2, <2>3
<1>3. s = [p \in 1..(n * w) |-> items[(p - 1) \div w + 1][((p - 1) % w) + 1]]
  BY <1>1 DEF Flat
<1> HIDE DEF s
<1>4. s \in [1..(n * w) -> D]
  BY <1>2, <1>3
<1>5. s \in Seq(D) /\ Len(s) = n * w
  BY <1>1, <1>4
<1>6. ASSUME NEW i \in 1..n PROVE Chunk(s, w, i) = items[i]
  <2> DEFINE a == (i - 1) * w + 1
             b == i * w
             x == SubSeq(s, a, b)
  <2>1. a \in Nat /\ b \in Nat /\ 1 <= a /\ b <= n * w /\ b - a + 1 = w
    <3>1. i * w <= n * w /\ (i - 1) * w = i * w - w /\ (i - 1) * w \in Nat /\ i * w \in Nat
      <4>1. i * w <= n * w
        OBVIOUS
      <4>2. (i - 1) * w = i * w - w
        OBVIOUS
      <4>3. (i - 1) * w \in Nat /\ i * w \in Nat
        OBVIOUS
      <4> QED BY <4>1, <4>2, <4>3
    <3> QED BY <3>1
  <2> HIDE DEF a, b
  <2>2. \A k \in a..b : s[k] \in D
    BY <1>1, <1>4, <2>1
  <2>3. x \in Seq(D) /\ Len(x) = w /\ \A k \in 1..w : x[k] = s[a + k - 1]
    <3>1. a \in Int /\ b \in Int /\ a <= b
      BY <2>1
    <3>2. /\ x \in Seq(D) /\ Len(x) = (IF a <= b THEN b - a + 1 ELSE 0)
          /\ \A k \in 1..(b - a + 1) : x[k] = s[a + k - 1]
      BY <2>2, <3>1, SubSeqProperties
    <3> QED BY <2>1, <3>1, <3>2
  <2>4. ASSUME NEW k \in 1..w PROVE x[k] = items[i][k]
    <3>1. PICK q \in Nat, r \in Nat : q = i - 1 /\ r = k - 1 /\ r < w
      OBVIOUS
    <3>2. a + k - 1 = (w * q + r) + 1 /\ w * q + r \in Nat
      <4>1. (i - 1) * w = w * q
        BY <3>1
      <4>2. PICK z \in Nat : z = w * q
        BY <3>1
      <4>3. a = z + 1
        BY <4>1, <4>2 DEF a
      <4>4. k = r + 1
        BY <3>1
      <4>5. a + k - 1 = (z + r) + 1 /\ z + r \in Nat
        BY <4>3, <4>4
      <4> QED BY <4>2, <4>5
    <3>3. (w * q + r) \div w = q /\ (w * q + r) % w = r
      BY <3>1, DivModUnique
    <3>4. a + k - 1 \in 1..(n * w)
      BY <1>1, <2>1
    <3>5. (a + k - 1) - 1 = w * q + r
      BY <3>2
    <3>6. s[a + k - 1] = items[q + 1][r + 1]
      BY <1>3, <3>3, <3>4, <3>5
    <3>7. q + 1 = i /\ r + 1 = k
      BY <3>1
    <3> QED BY <2>3, <3>6, <3>7
  <2>5. x = items[i]
    <3>1. x = [k \in 1..w |-> x[k]]
      <4> HIDE DEF x
      <4>1. x \in [1..w -> D]
        BY <2>3, LenProperties
      <4> QED BY <4>1
    <3>2. items[i] = [k \in 1..w |-> items[i][k]]
      OBVIOUS
    <3> QED BY <2>4, <3>1, <3>2
  <2> QED BY <2>5 DEF Chunk, a, b
<1> QED BY <1>1, <1>5, <1>6 DEF s, LaidOut

\* A vector is read back (read_f32_vec of the components).
LEMMA VectorRead ==
    ASSUME NEW dim \in Nat, dim < Pow[W32], NEW v \in [1..dim -> Words(W32)],
           NEW t \in Seq(Digits), NEW c,
           At(c, LE(dim, W32) \o (Flat(v, W32) \o t))
    PROVE  ReadVector(c) = Read(v, t)
<1>1. W32 \in Nat \ {0}
  BY WidthAssumption
<1>2. PICK b \in Seq(Digits) :
         /\ b = Flat(v, W32) /\ Len(b) = dim * W32 /\ dim * W32 \in Nat
         /\ \A i \in 1..dim : Chunk(b, W32, i) = v[i]
  <2>1. v \in [1..dim -> [1..W32 -> Digits]]
    BY DEF Words
  <2>2. LaidOut(Digits, dim, W32, v, Flat(v, W32))
    BY <1>1, <2>1, FlatDef
  <2> QED BY <2>2 DEF LaidOut
<1>3. PICK l \in Seq(Digits) : l = LE(dim, W32) /\ Len(l) = W32 /\ Num(l) = dim
  BY <1>1, LETyped, NumLE
<1>4. PICK u \in Seq(Digits) : u = b \o t
  BY Join
<1>5. Take(c, W32) = Read(l, u)
  <2>1. At(c, l \o u)
    BY <1>2, <1>3, <1>4
  <2> QED BY <1>3, <2>1, TakeNext
<1>6. PICK x : x = Read(l, u)
  OBVIOUS
<1>7. x.val = l /\ At(x, b \o t)
  BY <1>4, <1>6, ReadOn
<1>8. Take(x, dim * W32) = Read(b, t)
  <2>1. PICK k : k = dim * W32
    OBVIOUS
  <2>2. Take(x, k) = Read(b, t)
    BY <1>2, <1>7, <2>1, TakeNext
  <2> QED BY <2>1, <2>2
<1>9. Len(b) \div W32 = dim
  <2>1. W32 * dim + 0 = dim * W32
    BY <1>1
  <2>2. (W32 * dim + 0) \div W32 = dim
    BY <1>1, DivModUnique
  <2> QED BY <1>2, <2>1, <2>2
<1>10. PICK y : y = Read(b, t)
  OBVIOUS
<1>11. y.val = b
  BY <1>10, ReadOn
<1>12. [i \in 1..(Len(b) \div W32) |-> Chunk(b, W32, i)] = v
  BY <1>2, <1>9
<1>13. ReadVector(c) = Yield(y, v)
  <2>1. Take(c, W32) = x /\ Num(x.val) = dim /\ Take(x, dim * W32) = y
    BY <1>3, <1>5, <1>6, <1>7, <1>8, <1>10
  <2>2. ReadVector(c) = Yield(y, [i \in 1..(Len(y.val) \div W32) |-> Chunk(y.val, W32, i)])
    BY <2>1 DEF ReadVector
  <2> QED BY <1>11, <1>12, <2>2
<1> QED BY <1>10, <1>13, ReadOn

\* What follows the flag, and what is read behind it.
MetaCells(meta) == IF meta = <<>> THEN <<>> ELSE EncodeMetadata(meta[1])

\* Metadata are read back with the flag before them, none as none
\* (append_insert, decode_record).
LEMMA MetaRead ==
    ASSUME NEW meta \in [1..0 -> Metadata] \cup [1..1 -> Metadata]
    PROVE  /\ MetaCells(meta) \in Seq(Digits) /\ Len(meta) \in {0, 1}
           /\ Len(MetaCells(meta)) < Pow[W32] =>
                \A t \in Seq(Digits) : \A c :
                    At(c, Byte(Len(meta)) \o (MetaCells(meta) \o t))
                      => ReadMeta(c) = Read(meta, t)
<1>1. 0 \in 0..(Base - 1) /\ 1 \in 0..(Base - 1)
  BY WidthAssumption
<1>2. CASE meta \in [1..0 -> Metadata]
  <2>1. meta = <<>> /\ Len(meta) = 0 /\ MetaCells(meta) = <<>>
    BY <1>2 DEF MetaCells
  <2>2. PICK k \in Seq(Digits) : k = Byte(0) /\ Len(k) = 1 /\ Num(k) = 0
    BY <1>1, ByteRead
  <2>3. ASSUME NEW t \in Seq(Digits), NEW c, At(c, Byte(Len(meta)) \o (MetaCells(meta) \o t))
        PROVE  ReadMeta(c) = Read(meta, t)
    <3>1. At(c, k \o t)
      <4>1. <<>> \o t = t
        BY JoinEmpty
      <4> QED BY <2>1, <2>2, <2>3, <4>1
    <3>2. Take(c, 1) = Read(k, t)
      BY <2>2, <3>1, TakeNext
    <3>3. PICK x : x = Read(k, t)
      OBVIOUS
    <3>4. x.val = k
      BY <3>3, ReadOn
    <3>5. ReadMeta(c) = Yield(x, <<>>)
      BY <2>2, <3>2, <3>3, <3>4 DEF ReadMeta
    <3> QED BY <2>1, <3>3, <3>5, ReadOn
  <2>4. <<>> \in Seq(Digits)
    OBVIOUS
  <2> QED BY <2>1, <2>3, <2>4
<1>3. CASE meta \in [1..1 -> Metadata]
  <2>1. PICK m \in Metadata : m = meta[1]
    BY <1>3
  <2>2. meta = <<m>> /\ Len(meta) = 1 /\ meta # <<>>
    BY <1>3, <2>1
  <2>3. MetaCells(meta) = EncodeMetadata(m)
    BY <2>1, <2>2 DEF MetaCells
  <2>4. PICK k \in Seq(Digits) : k = Byte(1) /\ Len(k) = 1 /\ Num(k) = 1
    BY <1>1, ByteRead
  <2>5. PICK b \in Seq(Digits) : b = EncodeMetadata(m)
    BY MetadataRead
  <2>6. ASSUME Len(MetaCells(meta)) < Pow[W32], NEW t \in Seq(Digits), NEW c,
               At(c, Byte(Len(meta)) \o (MetaCells(meta) \o t))
        PROVE  ReadMeta(c) = Read(meta, t)
    <3>1. PICK u \in Seq(Digits) : u = b \o t
      BY Join
    <3>2. At(c, k \o u)
      BY <2>2, <2>3, <2>4, <2>5, <2>6, <3>1
    <3>3. Take(c, 1) = Read(k, u)
      BY <2>4, <3>2, TakeNext
    <3>4. PICK x : x = Read(k, u)
      OBVIOUS
    <3>5. x.val = k /\ At(x, EncodeMetadata(m) \o t)
      BY <2>5, <3>1, <3>4, ReadOn
    <3>6. ReadMetadata(x) = Read(m, t)
      BY <2>3, <2>6, <3>5, MetadataRead
    <3>7. PICK y : y = Read(m, t)
      OBVIOUS
    <3>8. y.val = m
      BY <3>7, ReadOn
    <3>9. ReadMeta(c) = Yield(y, <<m>>)
      BY <2>4, <3>3, <3>4, <3>5, <3>6, <3>7, <3>8 DEF ReadMeta
    <3> QED BY <2>2, <3>7, <3>9, ReadOn
  <2> QED BY <2>2, <2>3, <2>5, <2>6
<1> QED BY <1>2, <1>3

\* The parts of the body of an insert.
InsertParts(r, o, i, l, b, k, m) ==
    /\ o = Byte(OP_INSERT) /\ i = EncodeId(r.id)
    /\ l = LE(Len(r.vector), W32) /\ b = Flat(r.vector, W32)
    /\ k = Byte(Len(r.meta)) /\ m = MetaCells(r.meta)
    /\ Encode(r) = o \o (i \o (l \o (b \o (k \o m))))
    /\ Len(o) = 1 /\ Len(i) \in Nat /\ Len(l) = W32 /\ Len(k) = 1
    /\ Len(b) = Len(r.vector) * W32 /\ Len(m) \in Nat
    /\ Encode(r) \in Seq(Digits)
    /\ Len(Encode(r)) = 2 + W32 + Len(i) + Len(b) + Len(m)

\* The vector of an insert, whatever the index it is for.
LEMMA InsertVector ==
    ASSUME NEW r \in Inserts
    PROVE  \E dim \in Nat : r.vector \in [1..dim -> Words(W32)] /\ Len(r.vector) = dim
BY LenProperties DEF Inserts, Vectors

\* The parts of an insert as append_insert writes them.
LEMMA InsertEncoded ==
    ASSUME NEW r \in Inserts
    PROVE  \E o, i, l, b, k, m \in Seq(Digits) : InsertParts(r, o, i, l, b, k, m)
<1>0. PICK dim \in Nat : r.vector \in [1..dim -> Words(W32)] /\ Len(r.vector) = dim
  BY InsertVector
<1>1. /\ r.id \in Ids /\ r.vector \in [1..dim -> Words(W32)] /\ Len(r.vector) = dim
      /\ r.meta \in [1..0 -> Metadata] \cup [1..1 -> Metadata] /\ r.op = OP_INSERT
  BY <1>0 DEF Inserts
<1>2. W32 \in Nat \ {0} /\ 0 \in 0..(Base - 1) /\ 1 \in 0..(Base - 1)
  BY WidthAssumption
<1>3. PICK o \in Seq(Digits) : o = Byte(OP_INSERT) /\ Len(o) = 1
  BY <1>2, ByteRead DEF OP_INSERT
<1>4. PICK i \in Seq(Digits) : i = EncodeId(r.id) /\ Len(i) \in Nat
  BY <1>1, IdTyped
<1>5. PICK l \in Seq(Digits) : l = LE(dim, W32) /\ Len(l) = W32
  BY <1>2, LETyped
<1>6. PICK b \in Seq(Digits) :
         b = Flat(r.vector, W32) /\ Len(b) = dim * W32 /\ dim * W32 \in Nat
  <2>1. r.vector \in [1..dim -> [1..W32 -> Digits]]
    BY <1>1 DEF Words
  <2>2. LaidOut(Digits, dim, W32, r.vector, Flat(r.vector, W32))
    BY <1>2, <2>1, FlatDef
  <2> QED BY <2>2 DEF LaidOut
<1>7. Len(r.meta) \in {0, 1}
  BY <1>1, MetaRead
<1>8. PICK k \in Seq(Digits) : k = Byte(Len(r.meta)) /\ Len(k) = 1
  BY <1>2, <1>7, ByteRead
<1>9. PICK m \in Seq(Digits) : m = MetaCells(r.meta) /\ Len(m) \in Nat
  <2>1. MetaCells(r.meta) \in Seq(Digits)
    BY <1>1, MetaRead
  <2> QED BY <2>1, LenProperties
<1>10. Encode(r) = (o \o i) \o (((l \o b) \o k) \o m)
  <2>1. r.op # OP_DELETE
    BY <1>1 DEF OP_INSERT, OP_DELETE
  <2> QED BY <1>1, <1>3, <1>4, <1>5, <1>6, <1>8, <1>9, <2>1 DEF Encode, MetaCells
<1>11. PICK km \in Seq(Digits) : km = k \o m /\ Len(km) = 1 + Len(m)
  <2>1. k \o m \in Seq(Digits) /\ Len(k \o m) = Len(k) + Len(m)
    BY Join
  <2> QED BY <1>8, <2>1
<1>12. PICK bkm \in Seq(Digits) : bkm = b \o km /\ Len(bkm) = Len(b) + Len(km)
  BY Join
<1>13. PICK rest \in Seq(Digits) : rest = l \o bkm /\ Len(rest) = Len(l) + Len(bkm)
  BY Join
<1>14. ((l \o b) \o k) \o m = rest
  <2>1. Regroups(l, b, k, m)
    BY Regroup4, Zenon
  <2> QED BY <1>11, <1>12, <1>13, <2>1 DEF Regroups
<1>15. PICK ir \in Seq(Digits) : ir = i \o rest /\ Len(ir) = Len(i) + Len(rest)
  BY Join
<1>16. (o \o i) \o rest = o \o ir
  <2>1. Regroups3(o, i, rest)
    BY Regroup3, Zenon
  <2> QED BY <1>15, <2>1 DEF Regroups3
<1>17. o \o ir \in Seq(Digits) /\ Len(o \o ir) = Len(o) + Len(ir)
  BY Join
<1>18. Encode(r) = o \o ir
  BY <1>10, <1>14, <1>16
<1>19. Encode(r) = o \o (i \o (l \o (b \o (k \o m))))
  BY <1>11, <1>12, <1>13, <1>15, <1>18
<1>20. Len(o \o ir) = 2 + W32 + Len(i) + Len(b) + Len(m)
  <2>1. PICK x \in Nat : x = Len(i)
    BY <1>4
  <2>2. PICK y \in Nat : y = Len(b)
    BY <1>6
  <2>3. PICK z \in Nat : z = Len(m)
    BY <1>9
  <2>4. Len(o \o ir) = 1 + (x + (W32 + (y + (1 + z))))
    BY <1>3, <1>5, <1>11, <1>12, <1>13, <1>15, <1>17, <2>1, <2>2, <2>3
  <2> QED BY <1>2, <2>1, <2>2, <2>3, <2>4
<1>21. InsertParts(r, o, i, l, b, k, m)
  BY <1>1, <1>3, <1>4, <1>5, <1>6, <1>8, <1>9, <1>17, <1>18, <1>19, <1>20 DEF InsertParts
<1> QED BY <1>21

\* The body of a delete.
LEMMA DeleteEncoded ==
    ASSUME NEW r \in Deletes
    PROVE  /\ Encode(r) = Byte(OP_DELETE) \o EncodeId(r.id)
           /\ Encode(r) \in Seq(Digits)
           /\ Len(Encode(r)) = 1 + Len(EncodeId(r.id))
<1>1. r.id \in Ids /\ r.op = OP_DELETE /\ 2 \in 0..(Base - 1)
  BY WidthAssumption, TagAssumption DEF Deletes, WAL_MAGIC
<1>2. PICK o \in Seq(Digits) : o = Byte(OP_DELETE) /\ Len(o) = 1
  BY <1>1, ByteRead DEF OP_DELETE
<1>3. PICK i \in Seq(Digits) : i = EncodeId(r.id)
  BY <1>1, IdTyped
<1>4. o \o i \in Seq(Digits) /\ Len(o \o i) = Len(o) + Len(i)
  BY Join
<1>5. (o \o i) \o <<>> = o \o i
  <2>1. PICK x \in Seq(Digits) : x = o \o i
    BY <1>4
  <2>2. x \o <<>> = x
    BY JoinEmpty
  <2> QED BY <2>1, <2>2
<1>6. Encode(r) = (o \o i) \o <<>>
  BY <1>1, <1>2, <1>3 DEF Encode
<1> QED BY <1>2, <1>3, <1>4, <1>5, <1>6

\* Every body is cells, and at least its tag.
LEMMA EncodeTyped ==
    ASSUME NEW r \in Mutations
    PROVE  Encode(r) \in Seq(Digits) /\ Len(Encode(r)) \in Nat \ {0} /\ Encode(r) # <<>>
<1>1. CASE r \in Inserts
  <2>1. PICK o, i, l, b, k, m \in Seq(Digits) : InsertParts(r, o, i, l, b, k, m)
    BY <1>1, InsertEncoded
  <2>2. Encode(r) \in Seq(Digits) /\ Len(Encode(r)) = 2 + W32 + Len(i) + Len(b) + Len(m)
    BY <2>1 DEF InsertParts
  <2>3. Len(i) \in Nat /\ Len(b) \in Nat /\ Len(m) \in Nat
    BY LenProperties
  <2>4. Len(Encode(r)) \in Nat \ {0}
    BY <2>2, <2>3, WidthAssumption
  <2> QED BY <2>2, <2>4
<1>2. CASE r \in Deletes
  <2>1. Encode(r) \in Seq(Digits) /\ Len(Encode(r)) = 1 + Len(EncodeId(r.id))
    BY <1>2, DeleteEncoded
  <2>2. Len(EncodeId(r.id)) \in Nat
    BY <1>2, IdTyped DEF Deletes
  <2> QED BY <2>1, <2>2
<1> QED BY <1>1, <1>2 DEF Mutations

\* decode_record gives back what append_insert and append_delete encoded:
\* no mutation is changed by being logged, down to its metadata.
THEOREM DecodeInverts ==
    ASSUME NEW r \in Mutations, Len(Encode(r)) < Pow[W32]
    PROVE  Decode(Encode(r)) = [ok |-> TRUE, rec |-> r]
<1>1. W32 \in Nat /\ Pow[W32] \in Nat /\ 1 \in 0..(Base - 1) /\ 2 \in 0..(Base - 1)
  <2>1. W32 \in Nat /\ 1 \in 0..(Base - 1) /\ 2 \in 0..(Base - 1)
    BY WidthAssumption, TagAssumption DEF WAL_MAGIC
  <2> QED BY <2>1, PowDef
<1>2. <<>> \in Seq(Digits)
  OBVIOUS
<1>3. PICK c : c = Cursor(Encode(r))
  OBVIOUS
<1>4. At(c, Encode(r))
  BY <1>3 DEF At, Cursor
<1>5. ASSUME NEW id \in Ids, Len(EncodeId(id)) < Pow[W32]
      PROVE  id.kind = VID_BYTES => Len(id.bits) < Pow[W32]
  <2>1. /\ Len(id.bits) < Len(EncodeId(id))
        /\ Len(id.bits) \in Nat /\ Len(EncodeId(id)) \in Nat
    BY IdTyped
  <2> QED BY <1>1, <1>5, <2>1
<1>6. CASE r \in Inserts
  <2>1. PICK o, i, l, b, k, m \in Seq(Digits) : InsertParts(r, o, i, l, b, k, m)
    BY <1>6, InsertEncoded
  <2>0. PICK dim \in Nat : r.vector \in [1..dim -> Words(W32)] /\ Len(r.vector) = dim
    BY <1>6, InsertVector
  <2>2. /\ r.id \in Ids /\ r.vector \in [1..dim -> Words(W32)] /\ Len(r.vector) = dim
        /\ r.meta \in [1..0 -> Metadata] \cup [1..1 -> Metadata]
        /\ r = [op |-> OP_INSERT, id |-> r.id, vector |-> r.vector, meta |-> r.meta]
    BY <1>6, <2>0 DEF Inserts
  <2>3. /\ o = Byte(1) /\ i = EncodeId(r.id) /\ l = LE(dim, W32) /\ b = Flat(r.vector, W32)
        /\ k = Byte(Len(r.meta)) /\ m = MetaCells(r.meta) /\ Len(o) = 1
        /\ Encode(r) = o \o (i \o (l \o (b \o (k \o m))))
    BY <2>1, <2>2 DEF InsertParts, OP_INSERT
  <2>3a. dim < Pow[W32]
    <3>1. PICK x \in Nat, y \in Nat, z \in Nat : x = Len(i) /\ y = Len(b) /\ z = Len(m)
      BY LenProperties
    <3>2. y = dim * W32 /\ Len(Encode(r)) = 2 + W32 + x + y + z
      BY <2>1, <2>2, <3>1 DEF InsertParts
    <3>3. dim <= y
      <4>1. PICK v \in Nat : W32 = v + 1
        BY WidthAssumption
      <4>2. dim * (v + 1) = dim * v + dim /\ dim * v \in Nat
        OBVIOUS
      <4> QED BY <3>1, <3>2, <4>1, <4>2
    <3>4. PICK p \in Nat, w \in Nat : p = Pow[W32] /\ w = W32
      BY <1>1
    <3>5. 2 + w + x + y + z < p
      BY <3>2, <3>4
    <3>6. y < p
      <4>1. y <= 2 + w + x + y + z
        OBVIOUS
      <4>2. 2 + w + x + y + z \in Nat
        OBVIOUS
      <4> QED BY <3>5, <4>1, <4>2, SMTT(30)
    <3> QED BY <3>1, <3>3, <3>4, <3>6
  <2>4. Len(i) < Pow[W32] /\ Len(m) < Pow[W32]
    <3>1. PICK x \in Nat : x = Len(i)
      BY LenProperties
    <3>2. PICK y \in Nat : y = Len(b)
      BY LenProperties
    <3>3. PICK z \in Nat : z = Len(m)
      BY LenProperties
    <3>4. Len(Encode(r)) = 2 + W32 + x + y + z
      BY <2>1, <3>1, <3>2, <3>3 DEF InsertParts
    <3>5. PICK p \in Nat : p = Pow[W32]
      BY <1>1
    <3>6. 2 + W32 + x + y + z < p
      BY <3>4, <3>5
    <3>7. x < p /\ z < p
      BY <1>1, <3>6
    <3> QED BY <3>1, <3>3, <3>5, <3>7
  <2>5. PICK km \in Seq(Digits) : km = k \o m
    BY Join
  <2>6. PICK bkm \in Seq(Digits) : bkm = b \o km
    BY Join
  <2>7. PICK rest \in Seq(Digits) : rest = l \o bkm
    BY Join
  <2>8. PICK ir \in Seq(Digits) : ir = i \o rest
    BY Join
  <2>9. Take(c, 1) = Read(o, ir) /\ Num(o) = 1
    <3>1. Encode(r) = o \o ir
      BY <2>3, <2>5, <2>6, <2>7, <2>8
    <3>2. At(c, o \o ir)
      BY <1>4, <3>1
    <3>3. Num(Byte(1)) = 1
      BY <1>1, ByteRead
    <3> QED BY <2>3, <3>2, <3>3, TakeNext
  <2>10. PICK x : x = Read(o, ir)
    OBVIOUS
  <2>11. x.val = o /\ At(x, EncodeId(r.id) \o rest)
    BY <2>3, <2>8, <2>10, ReadOn
  <2>12. ReadId(x) = Read(r.id, rest)
    <3>1. r.id.kind = VID_BYTES => Len(r.id.bits) < Pow[W32]
      BY <1>5, <2>2, <2>3, <2>4
    <3> QED BY <2>2, <2>11, <3>1, IdRead
  <2>13. PICK y : y = Read(r.id, rest)
    OBVIOUS
  <2>14. y.val = r.id /\ At(y, LE(dim, W32) \o (Flat(r.vector, W32) \o km))
    BY <2>3, <2>6, <2>7, <2>13, ReadOn
  <2>15. ReadVector(y) = Read(r.vector, km)
    <3>1. PICK v \in [1..dim -> Words(W32)] : v = r.vector
      BY <2>2
    <3>2. At(y, LE(dim, W32) \o (Flat(v, W32) \o km))
      BY <2>14, <3>1
    <3>3. ReadVector(y) = Read(v, km)
      BY <2>3a, <3>2, VectorRead, Zenon
    <3> QED BY <3>1, <3>3
  <2>16. PICK z : z = Read(r.vector, km)
    OBVIOUS
  <2>17. z.val = r.vector /\ At(z, Byte(Len(r.meta)) \o (MetaCells(r.meta) \o <<>>))
    <3>1. m \o <<>> = m
      BY JoinEmpty
    <3> QED BY <2>3, <2>5, <2>16, <3>1, ReadOn
  <2>18. ReadMeta(z) = Read(r.meta, <<>>)
    BY <1>2, <2>2, <2>3, <2>4, <2>17, MetaRead
  <2>19. DecodeInsert(y) = [ok |-> TRUE, rec |-> r]
    <3>1. PICK w : w = Read(r.meta, <<>>)
      OBVIOUS
    <3>2. w.ok = TRUE /\ w.val = r.meta
      BY <3>1 DEF Read
    <3> QED BY <2>2, <2>14, <2>15, <2>16, <2>17, <2>18, <3>1, <3>2 DEF DecodeInsert
  <2>20. Take(Cursor(Encode(r)), 1) = x /\ Num(x.val) = OP_INSERT /\ ReadId(x) = y
    BY <1>3, <2>9, <2>10, <2>11, <2>12, <2>13 DEF OP_INSERT
  <2>21. Decode(Encode(r)) = DecodeInsert(ReadId(x))
    BY <2>20 DEF Decode, OP_INSERT, OP_DELETE
  <2> QED BY <2>19, <2>20, <2>21
<1>7. CASE r \in Deletes
  <2>1. /\ r.id \in Ids
        /\ r = [op |-> OP_DELETE, id |-> r.id, vector |-> <<>>, meta |-> <<>>]
    BY <1>7 DEF Deletes
  <2>2. PICK o \in Seq(Digits) : o = Byte(2) /\ Len(o) = 1 /\ Num(o) = 2
    BY <1>1, ByteRead
  <2>3. PICK i \in Seq(Digits) : i = EncodeId(r.id) /\ Len(i) \in Nat
    BY <2>1, IdTyped
  <2>4. Encode(r) = o \o i /\ Len(Encode(r)) = 1 + Len(i)
    BY <1>7, <2>2, <2>3, DeleteEncoded DEF OP_DELETE
  <2>5. Take(c, 1) = Read(o, i)
    <3>1. At(c, o \o i)
      BY <1>4, <2>4
    <3> QED BY <2>2, <3>1, TakeNext
  <2>6. PICK x : x = Read(o, i)
    OBVIOUS
  <2>7. x.val = o /\ At(x, EncodeId(r.id) \o <<>>)
    <3>1. i \o <<>> = i
      BY JoinEmpty
    <3> QED BY <2>3, <2>6, <3>1, ReadOn
  <2>8. ReadId(x) = Read(r.id, <<>>)
    <3>1. Len(EncodeId(r.id)) < Pow[W32]
      BY <1>1, <2>3, <2>4
    <3>2. r.id.kind = VID_BYTES => Len(r.id.bits) < Pow[W32]
      BY <1>5, <2>1, <3>1
    <3> QED BY <1>2, <2>1, <2>7, <3>2, IdRead
  <2>9. DecodeDelete(Read(r.id, <<>>)) = [ok |-> TRUE, rec |-> r]
    BY <2>1 DEF DecodeDelete, Read
  <2>10. Take(Cursor(Encode(r)), 1) = x /\ Num(x.val) = OP_DELETE
    BY <1>3, <2>2, <2>5, <2>6, <2>7 DEF OP_DELETE
  <2> QED BY <2>8, <2>9, <2>10 DEF Decode, OP_INSERT, OP_DELETE
<1> QED BY <1>6, <1>7 DEF Mutations

-----------------------------------------------------------------------------
(* Reading a file that need not hold what was written *)

\* The first n elements, and those behind them.
LEMMA FirstPart ==
    ASSUME NEW S, NEW s \in Seq(S), NEW n \in Nat, n <= Len(s)
    PROVE  /\ SubSeq(s, 1, n) \in Seq(S) /\ Len(SubSeq(s, 1, n)) = n
           /\ \A i \in 1..n : SubSeq(s, 1, n)[i] = s[i]
<1>1. Len(s) \in Nat /\ \A i \in 1..Len(s) : s[i] \in S
  BY LenProperties, ElementOfSeq
<1>2. \A i \in 1..n : s[i] \in S
  BY <1>1
<1> QED BY <1>1, <1>2, SubSeqProperties

\* The end of a sequence.
LEMMA RestPart ==
    ASSUME NEW S, NEW s \in Seq(S), NEW n \in Nat, n <= Len(s)
    PROVE  /\ SubSeq(s, n + 1, Len(s)) \in Seq(S)
           /\ Len(SubSeq(s, n + 1, Len(s))) = Len(s) - n
           /\ \A i \in 1..(Len(s) - n) : SubSeq(s, n + 1, Len(s))[i] = s[n + i]
<1>1. Len(s) \in Nat /\ \A i \in 1..Len(s) : s[i] \in S
  BY LenProperties, ElementOfSeq
<1>2. PICK m \in Int, k \in Int : m = n + 1 /\ k = Len(s) /\ k - m + 1 = Len(s) - n
  BY <1>1
<1>3. \A i \in m..k : s[i] \in S
  BY <1>1, <1>2
<1>4. PICK y : y = SubSeq(s, m, k)
  OBVIOUS
<1>5. /\ y \in Seq(S) /\ Len(y) = (IF m <= k THEN k - m + 1 ELSE 0)
      /\ \A i \in 1..(k - m + 1) : y[i] = s[m + i - 1]
  BY <1>3, <1>4, SubSeqProperties
<1>6. Len(y) = Len(s) - n
  BY <1>1, <1>2, <1>5
<1>7. ASSUME NEW i \in 1..(Len(s) - n) PROVE y[i] = s[n + i]
  <2>1. m + i - 1 = n + i
    BY <1>1, <1>2
  <2> QED BY <1>2, <1>5, <2>1
<1> QED BY <1>2, <1>4, <1>5, <1>6, <1>7

\* What a cursor holds after it found n cells.
Found(S, c, n, d) ==
    /\ c.ok /\ n <= Len(c.rest)
    /\ d.val \in Seq(S) /\ Len(d.val) = n /\ \A i \in 1..n : d.val[i] = c.rest[i]
    /\ d.rest \in Seq(S) /\ Len(d.rest) = Len(c.rest) - n
    /\ \A i \in 1..(Len(c.rest) - n) : d.rest[i] = c.rest[n + i]

\* A cursor gives what is there.
LEMMA TakeThere ==
    ASSUME NEW c, c.ok, NEW n, n <= Len(c.rest)
    PROVE  Take(c, n) = [rest |-> SubSeq(c.rest, n + 1, Len(c.rest)),
                         val  |-> SubSeq(c.rest, 1, n), ok |-> TRUE]
BY DEF Take

\* The bytes were there only if all those before them were.
LEMMA TakeOk ==
    ASSUME NEW c, NEW n, Take(c, n).ok
    PROVE  c.ok
BY DEF Take

\* What a cursor gives was there, and it goes on behind it (Cur::take).
LEMMA TakeFound ==
    ASSUME NEW S, NEW c, c.rest \in Seq(S), NEW n \in Nat, Take(c, n).ok
    PROVE  Found(S, c, n, Take(c, n))
<1>1. c.ok /\ n <= Len(c.rest)
  BY DEF Take
<1>2. PICK x : x = SubSeq(c.rest, 1, n)
  OBVIOUS
<1>3. PICK y : y = SubSeq(c.rest, n + 1, Len(c.rest))
  OBVIOUS
<1>4. /\ x \in Seq(S) /\ Len(x) = n
      /\ \A i \in 1..n : x[i] = c.rest[i]
  BY <1>1, <1>2, FirstPart
<1>5. /\ y \in Seq(S) /\ Len(y) = Len(c.rest) - n
      /\ \A i \in 1..(Len(c.rest) - n) : y[i] = c.rest[n + i]
  BY <1>1, <1>3, RestPart
<1>6. Take(c, n) = [rest |-> y, val |-> x, ok |-> TRUE]
  BY <1>1, <1>2, <1>3, TakeThere, Zenon
<1>7. PICK d : d = Take(c, n)
  OBVIOUS
<1>8. d.val = x /\ d.rest = y
  BY <1>6, <1>7
<1>9. d.val \in Seq(S) /\ Len(d.val) = n /\ \A i \in 1..n : d.val[i] = c.rest[i]
  BY <1>4, <1>8, Zenon
<1>10. /\ d.rest \in Seq(S) /\ Len(d.rest) = Len(c.rest) - n
       /\ \A i \in 1..(Len(c.rest) - n) : d.rest[i] = c.rest[n + i]
  BY <1>5, <1>8, Zenon
<1>11. Found(S, c, n, d)
  BY <1>1, <1>9, <1>10, Zenon DEF Found
<1> QED BY <1>7, <1>11, Zenon

\* Any cells can be read as a number.
LEMMA NumTyped ==
    ASSUME NEW s \in Seq(Cells)
    PROVE  Num(s) \in Nat
<1>1. Len(s) \in 0..Len(s)
  BY LenProperties
<1>2. Sums(s) \in [0..Len(s) -> Nat]
  BY SumsDef
<1> QED BY <1>1, <1>2 DEF Num

\* The cells of a frame, where the file does not end in it.
FrameFields(f, pos, a) ==
    /\ a.len \in Nat /\ pos + 2 * W32 + a.len <= Len(f)
    /\ a.crc \in Seq(Cells) /\ Len(a.crc) = W32
    /\ \A k \in 1..W32 : a.crc[k] = f[pos + W32 + k]
    /\ a.body \in Seq(Cells) /\ Len(a.body) = a.len
    /\ \A k \in 1..a.len : a.body[k] = f[pos + 2 * W32 + k]

\* The parts of a frame that parse_records has found are where it looked.
LEMMA FrameRead ==
    ASSUME NEW f \in Seq(Cells), NEW pos \in Nat, FrameAt(f, pos).ok
    PROVE  FrameFields(f, pos, FrameAt(f, pos))
<1> DEFINE s == SubSeq(f, pos + 1, Len(f))
           c == Cursor(s)
           len == Take(c, W32)
           crc == Take(len, W32)
           n == Num(len.val)
           body == Take(crc, n)
<1>1. Len(f) \in Nat /\ (\A i \in 1..Len(f) : f[i] \in Cells) /\ W32 \in Nat \ {0}
  BY LenProperties, ElementOfSeq, WidthAssumption
<1>2. /\ s \in Seq(Cells)
      /\ pos <= Len(f) => Len(s) = Len(f) - pos
      /\ pos <= Len(f) => \A i \in 1..(Len(f) - pos) : s[i] = f[pos + i]
      /\ ~(pos <= Len(f)) => Len(s) = 0
  <2>1. CASE pos <= Len(f)
    BY <2>1, RestPart
  <2>2. CASE ~(pos <= Len(f))
    <3>1. s = <<>>
      BY <1>1, <2>2
    <3> QED BY <2>2, <3>1
  <2> QED BY <2>1, <2>2
<1>3. FrameAt(f, pos) = [len |-> n, crc |-> crc.val, body |-> body.val, ok |-> body.ok]
  BY DEF FrameAt
<1>4. c.rest = s
  BY DEF Cursor
<1>5. crc.ok
  <2> HIDE DEF crc
  <2> QED BY <1>3 DEF Take
<1>6. len.ok
  <2> HIDE DEF len
  <2> QED BY <1>5 DEF Take
<1> HIDE DEF s, c
<1>7. Found(Cells, c, W32, len)
  <2>1. c.rest \in Seq(Cells)
    BY <1>2, <1>4
  <2> QED BY <1>1, <1>6, <2>1, TakeFound
<1> HIDE DEF len
<1>8. Found(Cells, len, W32, crc)
  <2>1. len.rest \in Seq(Cells)
    BY <1>7 DEF Found
  <2> QED BY <1>1, <1>5, <2>1, TakeFound
<1> HIDE DEF crc
<1>9. n \in Nat
  BY <1>7, NumTyped DEF Found
<1> HIDE DEF n
<1>10. Found(Cells, crc, n, body)
  <2>1. crc.rest \in Seq(Cells)
    BY <1>8 DEF Found
  <2>2. body.ok
    <3> HIDE DEF body
    <3> QED BY <1>3
  <2> QED BY <1>9, <2>1, <2>2, TakeFound
<1> HIDE DEF body
<1>11. /\ Len(s) = Len(f) - pos /\ W32 <= Len(s)
       /\ Len(len.rest) = Len(s) - W32 /\ W32 <= Len(len.rest)
       /\ Len(crc.rest) = Len(len.rest) - W32 /\ n <= Len(crc.rest)
  <2>1. W32 <= Len(s) /\ Len(len.rest) = Len(s) - W32
    BY <1>4, <1>7 DEF Found
  <2>2. /\ W32 <= Len(len.rest) /\ Len(crc.rest) = Len(len.rest) - W32
        /\ n <= Len(crc.rest)
    BY <1>8, <1>10 DEF Found
  <2>3. Len(s) = Len(f) - pos
    <3>1. pos <= Len(f) \/ Len(s) = 0
      BY <1>2
    <3> QED BY <1>1, <1>2, <2>1, <3>1
  <2> QED BY <2>1, <2>2, <2>3
<1>12. pos + 2 * W32 + n <= Len(f) /\ pos <= Len(f)
  BY <1>1, <1>9, <1>11
<1>13. ASSUME NEW k \in 1..W32 PROVE crc.val[k] = f[pos + W32 + k]
  <2>1. crc.val[k] = len.rest[k]
    BY <1>8 DEF Found
  <2>2. W32 + k \in 1..(Len(f) - pos) /\ k \in 1..(Len(s) - W32)
    BY <1>1, <1>11
  <2>3. len.rest[k] = s[W32 + k]
    BY <1>4, <1>7, <2>2 DEF Found
  <2>4. s[W32 + k] = f[pos + (W32 + k)]
    BY <1>2, <1>12, <2>2
  <2>5. pos + (W32 + k) = pos + W32 + k
    BY <1>1
  <2> QED BY <2>1, <2>3, <2>4, <2>5
<1>14. ASSUME NEW k \in 1..n PROVE body.val[k] = f[pos + 2 * W32 + k]
  <2>1. body.val[k] = crc.rest[k]
    BY <1>10 DEF Found
  <2>2. /\ k \in 1..(Len(len.rest) - W32) /\ W32 + k \in 1..(Len(s) - W32)
        /\ W32 + (W32 + k) \in 1..(Len(f) - pos)
    BY <1>1, <1>9, <1>11
  <2>3. crc.rest[k] = len.rest[W32 + k]
    BY <1>8, <2>2 DEF Found
  <2>4. len.rest[W32 + k] = s[W32 + (W32 + k)]
    BY <1>4, <1>7, <2>2 DEF Found
  <2>5. s[W32 + (W32 + k)] = f[pos + (W32 + (W32 + k))]
    BY <1>2, <1>12, <2>2
  <2>6. pos + (W32 + (W32 + k)) = pos + 2 * W32 + k
    BY <1>1
  <2> QED BY <2>1, <2>3, <2>4, <2>5, <2>6
<1>15. /\ crc.val \in Seq(Cells) /\ Len(crc.val) = W32
       /\ body.val \in Seq(Cells) /\ Len(body.val) = n
  BY <1>8, <1>10 DEF Found
<1> QED BY <1>3, <1>9, <1>12, <1>13, <1>14, <1>15 DEF FrameFields

\* What the checksum of cells holds.
LEMMA CrcCells ==
    ASSUME NEW s \in Seq(Cells), s # <<>>, NEW k \in 1..W32
    PROVE  Crc(s)[k] = <<Base, k, s>>
BY DEF Crc

\* A checksum is no digit.
LEMMA NoDigit ==
    ASSUME NEW k, NEW s
    PROVE  <<Base, k, s>> \notin Digits
BY DEF Digits

-----------------------------------------------------------------------------
(* Parsing a file *)

\* Where a frame that starts at pos ends, if it holds r.
BehindFrame(pos, r) == pos + 2 * W32 + Len(Encode(r))

\* The frame of an entry is there, from its checksum on.
Present(f, e) ==
    /\ BehindFrame(e.start, e.rec) <= Len(f)
    /\ \A k \in 1..W32 : f[e.start + W32 + k] = <<Base, k, Encode(e.rec)>>
    /\ \A k \in 1..Len(Encode(e.rec)) : f[e.start + 2 * W32 + k] \in Digits

\* A file that got the entries es, with their places, and may have lost or
\* changed some of their cells: each of its checksums is the one of an
\* entry, in its place.  Entries do not overlap, except that one may start
\* in front of the end of the frame before it; then its checksum is there
\* and no entry starts before its own end.
LogHolds(f, es) ==
    /\ f \in Seq(Cells)
    /\ \A i \in 1..Len(es) :
         es[i].rec \in Mutations /\ es[i].start \in Nat
         /\ Len(Encode(es[i].rec)) < Pow[W32]
    /\ \A i, j \in 1..Len(es) : i < j => es[i].start < es[j].start
    /\ \A i \in 1..Len(es) : i # 1 => es[i].start > Len(WalHeader)
    /\ \A p \in 1..Len(f), k \in 1..W32, s \in Seq(Cells) :
         f[p] = <<Base, k, s>> =>
            \E i \in 1..Len(es) : p = es[i].start + W32 + k /\ s = Encode(es[i].rec)
    /\ \A i, j \in 1..Len(es) :
         j = i + 1 =>
            \/ es[j].start >= BehindFrame(es[i].start, es[i].rec)
            \/ /\ f[es[j].start + W32 + 1] = <<Base, 1, Encode(es[j].rec)>>
               /\ \A m \in 1..Len(es) :
                    m > j => es[m].start >= BehindFrame(es[j].start, es[j].rec)

\* The frame at pos is that of the i-th entry.
FrameOf(f, pos, es, i) ==
    /\ es[i].start = pos /\ Present(f, es[i])
    /\ FrameAt(f, pos).body = Encode(es[i].rec)
    /\ FrameEnd(f, pos) = BehindFrame(pos, es[i].rec)

\* A frame that parse_records accepts is the frame of an entry.
LEMMA AcceptedIsEntry ==
    ASSUME NEW es \in Seq([rec : Mutations, start : Nat, whole : BOOLEAN]),
           NEW f, LogHolds(f, es), NEW pos \in Nat,
           ~Torn(f, pos), FrameAt(f, pos).body # <<>>
    PROVE  \E i \in 1..Len(es) : FrameOf(f, pos, es, i)
<1> DEFINE a == FrameAt(f, pos)
<1>1. a.ok /\ a.crc = Crc(a.body)
  BY DEF Torn, Intact
<1>2. f \in Seq(Cells) /\ FrameFields(f, pos, a)
  BY <1>1, FrameRead DEF LogHolds
<1>3. FrameEnd(f, pos) = pos + 2 * W32 + a.len
  BY DEF FrameEnd
<1> HIDE DEF a
<1>4. /\ a.len \in Nat /\ pos + 2 * W32 + a.len <= Len(f)
      /\ \A k \in 1..W32 : a.crc[k] = f[pos + W32 + k]
      /\ a.body \in Seq(Cells) /\ Len(a.body) = a.len
      /\ \A k \in 1..a.len : a.body[k] = f[pos + 2 * W32 + k]
  BY <1>2 DEF FrameFields
<1>5. PICK b \in Seq(Cells) : b = a.body /\ b # <<>>
  BY <1>4 DEF a
<1>6. ASSUME NEW k \in 1..W32 PROVE f[pos + W32 + k] = <<Base, k, b>>
  <2>1. Crc(b)[k] = <<Base, k, b>>
    BY <1>5, CrcCells
  <2> QED BY <1>1, <1>4, <1>5, <2>1
<1>7. W32 \in Nat \ {0} /\ Len(f) \in Nat
  BY <1>2, LenProperties, WidthAssumption
<1>8. 1 \in 1..W32 /\ pos + W32 + 1 \in 1..Len(f)
  BY <1>4, <1>7
<1>9. PICK i \in 1..Len(es) : pos + W32 + 1 = es[i].start + W32 + 1 /\ b = Encode(es[i].rec)
  <2>1. f[pos + W32 + 1] = <<Base, 1, b>>
    BY <1>6, <1>8
  <2> QED BY <1>8, <2>1 DEF LogHolds
<1>10. es[i].start \in Nat /\ es[i].rec \in Mutations
  BY DEF LogHolds
<1>11. es[i].start = pos
  BY <1>7, <1>9, <1>10, SMTT(30)
<1>12. a.len = Len(b)
  BY <1>4, <1>5
<1>13. b \in Seq(Digits)
  BY <1>9, <1>10, EncodeTyped
<1>14. Present(f, es[i])
  <2>1. BehindFrame(es[i].start, es[i].rec) <= Len(f)
    BY <1>4, <1>9, <1>11, <1>12 DEF BehindFrame
  <2>2. ASSUME NEW k \in 1..Len(b) PROVE f[pos + 2 * W32 + k] \in Digits
    <3>1. b[k] \in Digits
      BY <1>13, ElementOfSeq
    <3>2. b[k] = f[pos + 2 * W32 + k]
      BY <1>4, <1>5, <1>12
    <3> QED BY <3>1, <3>2
  <2> QED BY <1>6, <1>9, <1>11, <2>1, <2>2 DEF Present
<1> QED BY <1>3, <1>5, <1>9, <1>11, <1>12, <1>14 DEF a, BehindFrame, FrameOf

\* What starts behind x, and ends where the frame at x does or before, has
\* the first cell of its checksum in the checksum or in the body of that frame.
LEMMA ChecksumWithin ==
    ASSUME NEW w \in Nat, NEW x \in Nat, NEW y \in Nat, NEW z \in Nat, NEW q \in Nat,
           w # 0, q # 0, x < y, y + q <= x + z
    PROVE  \/ \E k \in 1..w : k # 1 /\ x + w + k = y + w + 1
           \/ \E k \in 1..z : x + 2 * w + k = y + w + 1
<1>1. CASE y < x + w
  <2>1. y - x + 1 \in 1..w /\ y - x + 1 # 1 /\ x + w + (y - x + 1) = y + w + 1
    BY <1>1
  <2> QED BY <2>1
<1>2. CASE y >= x + w
  <2>1. y - x - w + 1 \in 1..z /\ x + 2 * w + (y - x - w + 1) = y + w + 1
    BY <1>2
  <2> QED BY <2>1
<1> QED BY <1>1, <1>2

\* Behind an entry that is there the next frame is that of the next entry.
LEMMA NextIsNext ==
    ASSUME NEW es \in Seq([rec : Mutations, start : Nat, whole : BOOLEAN]),
           NEW f, LogHolds(f, es),
           NEW i \in 1..Len(es), Present(f, es[i]),
           NEW j \in 1..Len(es), es[j].start = BehindFrame(es[i].start, es[i].rec)
    PROVE  j = i + 1
<1>1. /\ Len(es) \in Nat /\ W32 \in Nat \ {0}
      /\ \A m \in 1..Len(es) : es[m].rec \in Mutations /\ es[m].start \in Nat
      /\ \A m, n \in 1..Len(es) : m < n => es[m].start < es[n].start
  BY LenProperties, WidthAssumption DEF LogHolds
<1>2. \A m \in 1..Len(es) : Len(Encode(es[m].rec)) \in Nat \ {0}
  BY <1>1, EncodeTyped
<1>3. PICK w \in Nat, x \in Nat, z \in Nat, t \in Nat :
         w = W32 /\ x = es[i].start /\ z = Len(Encode(es[i].rec)) /\ t = es[j].start
         /\ w # 0 /\ z # 0
  BY <1>1, <1>2
<1>4. t = x + 2 * w + z
  BY <1>3 DEF BehindFrame
<1>5. x < t
  BY <1>3, <1>4, SMTT(30)
<1>6. i < j
  <2>1. CASE i = j
    BY <1>3, <1>5, <2>1
  <2>2. CASE j < i
    <3>1. es[j].start < es[i].start
      BY <1>1, <2>2
    <3> QED BY <1>3, <1>5, <3>1, SMTT(30)
  <2> QED BY <1>1, <2>1, <2>2
<1> SUFFICES ASSUME i + 1 < j PROVE FALSE
  BY <1>1, <1>6
<1>7. PICK n \in 1..Len(es) : n = i + 1 /\ n < j
  BY <1>1
<1>8. PICK y \in Nat, q \in Nat :
         y = es[n].start /\ q = Len(Encode(es[n].rec)) /\ q # 0
  BY <1>1, <1>2
<1>9. x < y /\ y < t
  BY <1>1, <1>3, <1>7, <1>8
<1>10. ~(es[n].start >= BehindFrame(es[i].start, es[i].rec))
  BY <1>3, <1>8, <1>9, SMTT(30)
<1>11. /\ f[es[n].start + W32 + 1] = <<Base, 1, Encode(es[n].rec)>>
       /\ es[j].start >= BehindFrame(es[n].start, es[n].rec)
  BY <1>7, <1>10 DEF LogHolds
<1>12. f[y + w + 1] = <<Base, 1, Encode(es[n].rec)>>
  BY <1>3, <1>8, <1>11
<1>13. y + 2 * w + q <= t
  BY <1>3, <1>8, <1>11 DEF BehindFrame
<1>14. /\ \A k \in 1..w : f[x + w + k] = <<Base, k, Encode(es[i].rec)>>
       /\ \A k \in 1..z : f[x + 2 * w + k] \in Digits
  BY <1>3 DEF Present
<1>15. y + q <= x + z
  BY <1>4, <1>13
<1>16. CASE \E k \in 1..w : k # 1 /\ x + w + k = y + w + 1
  <2>1. PICK k \in 1..w : k # 1 /\ x + w + k = y + w + 1
    BY <1>16
  <2>2. <<Base, k, Encode(es[i].rec)>> = <<Base, 1, Encode(es[n].rec)>>
    BY <1>12, <1>14, <2>1
  <2> QED BY <2>1, <2>2
<1>17. CASE \E k \in 1..z : x + 2 * w + k = y + w + 1
  <2>1. PICK k \in 1..z : x + 2 * w + k = y + w + 1
    BY <1>17
  <2>2. <<Base, 1, Encode(es[n].rec)>> \in Digits
    BY <1>12, <1>14, <2>1
  <2> QED BY <2>2, NoDigit
<1>18. w # 0 /\ q # 0 /\ x < y
  BY <1>3, <1>8, <1>9
<1> QED BY <1>15, <1>16, <1>17, <1>18, ChecksumWithin

\* The header of the log is digits, one cell for the magic and the rest
\* for the version (write_header of wal.rs).
LEMMA HeaderLength ==
    WalHeader \in Seq(Digits) /\ Len(WalHeader) = W32 + 1
<1>1. WAL_MAGIC \in 0..(Base - 1) /\ WAL_VERSION \in Nat /\ W32 \in Nat
  BY WidthAssumption, TagAssumption DEF WAL_MAGIC, WAL_VERSION
<1>2. PICK a \in Seq(Digits) : a = Byte(WAL_MAGIC) /\ Len(a) = 1
  BY <1>1, ByteRead
<1>3. PICK b \in Seq(Digits) : b = LE(WAL_VERSION, W32) /\ Len(b) = W32
  BY <1>1, LETyped
<1>4. a \o b \in Seq(Digits) /\ Len(a \o b) = 1 + W32
  BY <1>2, <1>3, Join, Zenon
<1> QED BY <1>1, <1>2, <1>3, <1>4 DEF WalHeader

\* What the loop of parse_records keeps.
ParseStates ==
    [pos : Nat, recs : Seq({Decode(b).rec : b \in Seq(Cells)}),
     done : BOOLEAN, err : {"Ok", "InvalidPayload"}]

\* Whatever the file holds, the loop goes on from such a state to such a state.
LEMMA ParseFrameTyped ==
    ASSUME NEW f \in Seq(Cells), NEW p \in ParseStates
    PROVE  ParseFrame(f, p) \in ParseStates
<1> DEFINE R == {Decode(b).rec : b \in Seq(Cells)}
           a == FrameAt(f, p.pos)
<1>1. p.pos \in Nat /\ p.recs \in Seq(R) /\ p.done \in BOOLEAN
  BY DEF ParseStates
<1>2. [p EXCEPT !.done = TRUE] \in ParseStates
  BY DEF ParseStates
<1>3. [p EXCEPT !.done = TRUE, !.err = "InvalidPayload"] \in ParseStates
  BY DEF ParseStates
<1>4. ASSUME ~Torn(f, p.pos)
      PROVE  [p EXCEPT !.pos = FrameEnd(f, @), !.recs = Append(@, Decode(a.body).rec)]
                 \in ParseStates
  <2>1. FrameFields(f, p.pos, a)
    BY <1>1, <1>4, FrameRead DEF Torn
  <2>2. PICK e \in Nat : e = FrameEnd(f, p.pos)
    <3>1. a.len \in Nat /\ W32 \in Nat
      BY <2>1, WidthAssumption DEF FrameFields
    <3>2. PICK x \in Nat, y \in Nat, z \in Nat : x = p.pos /\ y = W32 /\ z = a.len
      BY <1>1, <3>1
    <3>3. x + 2 * y + z \in Nat
      OBVIOUS
    <3> QED BY <3>2, <3>3 DEF FrameEnd
  <2>3. PICK b \in Seq(Cells) : b = a.body
    BY <2>1 DEF FrameFields
  <2>4. PICK r \in R : r = Decode(a.body).rec
    BY <2>3
  <2>5. PICK q \in Seq(R) : q = Append(p.recs, r)
    <3>1. Append(p.recs, r) \in Seq(R)
      <4> HIDE DEF R
      <4> QED BY <1>1, AppendProperties
    <3> QED BY <3>1
  <2>6. [p EXCEPT !.pos = e, !.recs = q] \in ParseStates
    BY DEF ParseStates
  <2> QED BY <2>2, <2>4, <2>5, <2>6
<1> QED BY <1>2, <1>3, <1>4 DEF ParseFrame

\* The loop of parse_records is what its recursion says, and its state
\* has its type.
LEMMA ParsingDef ==
    ASSUME NEW f \in Seq(Cells)
    PROVE  /\ Parsing(f)[0] = [pos |-> Len(WalHeader), recs |-> <<>>,
                               done |-> NoHeader(f), err |-> "Ok"]
           /\ \A n \in 0..Len(f) : Parsing(f)[n] \in ParseStates
           /\ \A n \in 1..Len(f) : Parsing(f)[n] = ParseFrame(f, Parsing(f)[n - 1])
<1> DEFINE L == Len(f)
           start == [pos |-> Len(WalHeader), recs |-> <<>>, done |-> NoHeader(f), err |-> "Ok"]
           step == [np \in (1..L) \X ParseStates |-> ParseFrame(f, np[2])]
<1>1. L \in Nat
  BY LenProperties
<1>2. start \in ParseStates
  <2>1. Len(WalHeader) \in Nat
    BY HeaderLength, WidthAssumption
  <2>2. NoHeader(f) \in BOOLEAN
    BY DEF NoHeader
  <2>3. PICK d \in BOOLEAN, x \in Nat : d = NoHeader(f) /\ x = Len(WalHeader)
    BY <2>1, <2>2, Zenon
  <2>4. [pos |-> x, recs |-> <<>>, done |-> d, err |-> "Ok"] \in ParseStates
    BY DEF ParseStates
  <2> QED BY <2>3, <2>4, Zenon
<1> HIDE DEF start, L
<1>3. \A p \in ParseStates : ParseFrame(f, p) \in ParseStates
  BY ParseFrameTyped
<1>4. step \in [(1..L) \X ParseStates -> ParseStates]
  <2> HIDE DEF ParseStates
  <2> QED BY <1>3
<1>5. PICK g \in [0..L -> ParseStates] : Follows(g, start, L, step)
  <2> HIDE DEF step
  <2> QED BY <1>1, <1>2, <1>4, FiniteRecursion, Zenon
<1>6. \A i \in 1..L : g[i] = ParseFrame(f, g[i - 1])
  <2> TAKE i \in 1..L
  <2>1. <<i, g[i - 1]>> \in (1..L) \X ParseStates
    BY <1>1
  <2>2. g[i] = step[<<i, g[i - 1]>>]
    BY <1>5 DEF Follows
  <2> QED BY <2>1, <2>2
<1>7. g = [i \in 0..L |-> IF i = 0 THEN start ELSE ParseFrame(f, g[i - 1])]
  <2>1. ASSUME NEW i \in 0..L
        PROVE  g[i] = IF i = 0 THEN start ELSE ParseFrame(f, g[i - 1])
    <3>1. CASE i = 0
      BY <1>5, <3>1 DEF Follows
    <3>2. CASE i # 0
      <4>1. i \in 1..L
        BY <1>1, <3>2
      <4> QED BY <1>6, <3>2, <4>1
    <3> QED BY <3>1, <3>2
  <2>2. g = [i \in 0..L |-> g[i]]
    OBVIOUS
  <2> QED BY <2>1, <2>2
<1> DEFINE h == Parsing(f)
<1>8. h = [i \in 0..L |-> IF i = 0 THEN start ELSE ParseFrame(f, h[i - 1])]
  BY <1>7 DEF Parsing, L, start
<1> HIDE DEF h
<1>9. h[0] = start
  BY <1>1, <1>8
<1>10. \A i \in 1..L : h[i] = ParseFrame(f, h[i - 1])
  BY <1>1, <1>8
<1>11. \A i \in 0..L : h[i] \in ParseStates
  <2> DEFINE S == {i \in Nat : h[i] \in ParseStates}
  <2>1. 0 \in S
    BY <1>2, <1>9
  <2>2. \A i \in 1..L : i - 1 \in S => i \in S
    <3> SUFFICES ASSUME NEW i \in 1..L, h[i - 1] \in ParseStates PROVE i \in Nat /\ h[i] \in ParseStates
      OBVIOUS
    <3>1. i \in Nat
      BY <1>1
    <3> QED BY <1>3, <1>10, <3>1
  <2>3. \A i \in 0..L : i \in S
    <3> HIDE DEF S
    <3> QED BY <1>1, <2>1, <2>2, UpTo
  <2> QED BY <2>3
<1> QED BY <1>9, <1>10, <1>11 DEF h, L, start

\* The first k mutations.
FirstRecs(es, k) == [i \in 1..k |-> es[i].rec]

\* The loop has read the first entries, and stands behind the last of them.
Walks(f, es, p) ==
    \E k \in 0..Len(es) :
        /\ p.recs = FirstRecs(es, k)
        /\ \/ p.done
           \/ k = 0 /\ p.pos = Len(WalHeader)
           \/ k # 0 /\ Present(f, es[k]) /\ p.pos = BehindFrame(es[k].start, es[k].rec)

\* One more record is that of the next entry.
LEMMA FirstRecsGrow ==
    ASSUME NEW es, NEW k \in Nat
    PROVE  Append(FirstRecs(es, k), es[k + 1].rec) = FirstRecs(es, k + 1)
<1> DEFINE S == {es[i].rec : i \in 1..(k + 1)}
           s == FirstRecs(es, k)
           t == FirstRecs(es, k + 1)
           r == es[k + 1].rec
<1>1. /\ s \in Seq(S) /\ Len(s) = k /\ \A i \in 1..k : s[i] = es[i].rec
      /\ t \in Seq(S) /\ Len(t) = k + 1 /\ \A i \in 1..(k + 1) : t[i] = es[i].rec
  BY DEF FirstRecs
<1>2. r \in S
  OBVIOUS
<1> HIDE DEF S, s, t
<1>3. PICK u \in Seq(S) : u = Append(s, r)
  BY <1>1, <1>2, AppendProperties
<1>4. Len(u) = k + 1 /\ (\A i \in 1..k : u[i] = s[i]) /\ u[k + 1] = r
  BY <1>1, <1>2, <1>3, AppendProperties
<1>5. \A i \in 1..(k + 1) : u[i] = t[i]
  <2> TAKE i \in 1..(k + 1)
  <2>1. CASE i = k + 1
    BY <1>1, <1>4, <2>1
  <2>2. CASE i # k + 1
    <3>1. i \in 1..k
      BY <2>2
    <3> QED BY <1>1, <1>4, <3>1
  <2> QED BY <2>1, <2>2
<1>6. u = t
  BY <1>1, <1>4, <1>5, SeqEqual
<1> QED BY <1>3, <1>6 DEF s, t

\* An accepted frame is that of the next entry.
LEMMA WalkOn ==
    ASSUME NEW es \in Seq([rec : Mutations, start : Nat, whole : BOOLEAN]),
           NEW f, LogHolds(f, es), NEW p \in ParseStates, Walks(f, es, p)
    PROVE  Walks(f, es, ParseFrame(f, p))
<1> DEFINE a == FrameAt(f, p.pos)
<1>1. p.pos \in Nat /\ Len(es) \in Nat
  BY LenProperties DEF ParseStates
<1>2. PICK k \in 0..Len(es) :
        /\ p.recs = FirstRecs(es, k)
        /\ \/ p.done
           \/ k = 0 /\ p.pos = Len(WalHeader)
           \/ k # 0 /\ Present(f, es[k]) /\ p.pos = BehindFrame(es[k].start, es[k].rec)
  BY DEF Walks
<1>3. CASE p.done
  BY <1>3 DEF ParseFrame
<1>4. CASE ~p.done /\ Torn(f, p.pos)
  <2>1. ParseFrame(f, p) = [p EXCEPT !.done = TRUE]
    BY <1>4 DEF ParseFrame
  <2>2. /\ [p EXCEPT !.done = TRUE].done
        /\ [p EXCEPT !.done = TRUE].recs = FirstRecs(es, k)
    BY <1>2 DEF ParseStates
  <2> QED BY <2>1, <2>2 DEF Walks
<1>5. CASE ~p.done /\ ~Torn(f, p.pos) /\ ~Decode(a.body).ok
  <2>1. ParseFrame(f, p) = [p EXCEPT !.done = TRUE, !.err = "InvalidPayload"]
    BY <1>5 DEF ParseFrame
  <2>2. /\ [p EXCEPT !.done = TRUE, !.err = "InvalidPayload"].done
        /\ [p EXCEPT !.done = TRUE, !.err = "InvalidPayload"].recs = FirstRecs(es, k)
    BY <1>2 DEF ParseStates
  <2> QED BY <2>1, <2>2 DEF Walks
<1>6. CASE ~p.done /\ ~Torn(f, p.pos) /\ Decode(a.body).ok
  <2>1. ParseFrame(f, p) =
          [p EXCEPT !.pos = FrameEnd(f, @), !.recs = Append(@, Decode(a.body).rec)]
    BY <1>6 DEF ParseFrame
  <2>2. a.body # <<>>
    <3>1. ~Decode(<<>>).ok
      <4>1. PICK z \in Seq(Cells) : z = <<>> /\ Len(z) = 0
        <5>1. <<>> \in Seq(Cells) /\ Len(<<>>) = 0
          BY EmptySeq
        <5> QED BY <5>1
      <4>2. Take(Cursor(z), 1).val = z
        BY <4>1 DEF Take, Cursor
      <4>3. Num(z) = 0
        BY <4>1, SumsDef DEF Num
      <4>4. Decode(z) = [ok |-> FALSE, rec |-> <<>>]
        BY <4>2, <4>3 DEF Decode, OP_INSERT, OP_DELETE
      <4> QED BY <4>1, <4>4
    <3> QED BY <1>6, <3>1
  <2>3. PICK j \in 1..Len(es) :
          /\ es[j].start = p.pos /\ Present(f, es[j])
          /\ a.body = Encode(es[j].rec)
          /\ FrameEnd(f, p.pos) = BehindFrame(p.pos, es[j].rec)
    <3>1. PICK x \in Nat : x = p.pos
      BY <1>1
    <3>2. ~Torn(f, x) /\ FrameAt(f, x).body # <<>>
      BY <1>6, <2>2, <3>1
    <3>3. PICK j \in 1..Len(es) : FrameOf(f, x, es, j)
      BY <3>2, AcceptedIsEntry, Zenon
    <3> QED BY <3>1, <3>3 DEF FrameOf
  <2>4. j = k + 1
    <3>1. CASE k = 0 /\ p.pos = Len(WalHeader)
      <4>1. Len(WalHeader) \in Nat
        BY HeaderLength, WidthAssumption
      <4>2. j = 1
        BY <2>3, <3>1, <4>1 DEF LogHolds
      <4> QED BY <3>1, <4>2
    <3>2. CASE k # 0 /\ Present(f, es[k]) /\ p.pos = BehindFrame(es[k].start, es[k].rec)
      <4>1. k \in 1..Len(es)
        BY <1>1, <3>2
      <4> QED BY <2>3, <3>2, <4>1, NextIsNext
    <3> QED BY <1>2, <1>6, <3>1, <3>2
  <2>5. Decode(a.body).rec = es[j].rec
    <3>1. es[j].rec \in Mutations /\ Len(Encode(es[j].rec)) < Pow[W32]
      BY DEF LogHolds
    <3>2. Decode(Encode(es[j].rec)) = [ok |-> TRUE, rec |-> es[j].rec]
      BY <3>1, DecodeInverts
    <3> QED BY <2>3, <3>2
  <2>6. Append(p.recs, es[j].rec) = FirstRecs(es, j)
    BY <1>2, <2>4, FirstRecsGrow
  <2>7. PICK q : q = ParseFrame(f, p)
    OBVIOUS
  <2>8. q.recs = FirstRecs(es, j) /\ q.pos = BehindFrame(es[j].start, es[j].rec)
    BY <2>1, <2>3, <2>5, <2>6, <2>7 DEF ParseStates
  <2>9. j \in 0..Len(es) /\ j # 0
    BY <1>1
  <2> QED BY <2>3, <2>7, <2>8, <2>9 DEF Walks
<1> QED BY <1>3, <1>4, <1>5, <1>6

\* Whatever was cut off the log or changed in it, parse_records returns the
\* first of the mutations that were written to it, in their order and as
\* they were made: none twice, none left out before one that is returned,
\* and none that was never made.
THEOREM ParseFindsPrefix ==
    ASSUME NEW es \in Seq([rec : Mutations, start : Nat, whole : BOOLEAN]),
           NEW f, LogHolds(f, es)
    PROVE  \E k \in 0..Len(es) : ParseRecords(f).recs = FirstRecs(es, k)
<1>1. f \in Seq(Cells) /\ Len(f) \in Nat /\ Len(es) \in Nat
  BY LenProperties DEF LogHolds
<1>2. FirstRecs(es, 0) = <<>>
  BY DEF FirstRecs
<1>3. PICK g : g = Parsing(f)
  OBVIOUS
<1>4. /\ g[0] = [pos |-> Len(WalHeader), recs |-> <<>>, done |-> NoHeader(f), err |-> "Ok"]
      /\ \A n \in 0..Len(f) : g[n] \in ParseStates
      /\ \A n \in 1..Len(f) : g[n] = ParseFrame(f, g[n - 1])
  BY <1>1, <1>3, ParsingDef
<1>5. Walks(f, es, g[Len(f)])
  <2> DEFINE S == {n \in 0..Len(f) : Walks(f, es, g[n])}
  <2>1. 0 \in S
    <3>1. g[0].recs = FirstRecs(es, 0) /\ g[0].pos = Len(WalHeader)
      BY <1>2, <1>4
    <3>2. Walks(f, es, g[0])
      BY <1>1, <3>1 DEF Walks
    <3> QED BY <1>1, <3>2
  <2>2. ASSUME NEW n \in 1..Len(f), n - 1 \in S PROVE n \in S
    <3>1. n - 1 \in 0..Len(f) /\ g[n - 1] \in ParseStates /\ Walks(f, es, g[n - 1])
      BY <1>1, <1>4, <2>2
    <3>2. Walks(f, es, ParseFrame(f, g[n - 1]))
      BY <3>1, WalkOn
    <3> QED BY <1>1, <1>4, <3>2
  <2>3. \A n \in 0..Len(f) : n \in S
    <3> HIDE DEF S
    <3> QED BY <1>1, <2>1, <2>2, UpTo
  <2>4. Len(f) \in 0..Len(f)
    BY <1>1
  <2> QED BY <2>3, <2>4
<1>6. PICK k \in 0..Len(es) : g[Len(f)].recs = FirstRecs(es, k)
  BY <1>5 DEF Walks
<1>7. CASE ~NoHeader(f) /\ LogVerdict(f) # "Ok"
  <2>1. ParseRecords(f).recs = FirstRecs(es, 0)
    BY <1>2, <1>7 DEF ParseRecords
  <2>2. 0 \in 0..Len(es)
    BY <1>1
  <2> QED BY <2>1, <2>2
<1>8. CASE ~(~NoHeader(f) /\ LogVerdict(f) # "Ok")
  <2>1. ParseRecords(f).recs = g[Len(f)].recs
    BY <1>3, <1>8 DEF ParseRecords
  <2> QED BY <1>6, <2>1
<1> QED BY <1>7, <1>8
=============================================================================
