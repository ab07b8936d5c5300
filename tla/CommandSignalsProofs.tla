------------------------ MODULE CommandSignalsProofs ------------------------
(***************************************************************************)
(* Proofs about CommandSignals, for every size of a byte, of a field and   *)
(* of a command.  Packing is defined by recursion, so its proofs go by     *)
(* induction; the induction is over sets of naturals, and rests on the     *)
(* well-foundedness of < alone.                                            *)
(***************************************************************************)
EXTENDS MCCommandSignals, FiniteSetTheorems, SequenceTheorems, WellFoundedInduction, TLAPS

-------------------------------------------------------------------------------
\* Induction and recursion

Less == {p \in Nat \X Nat : p[1] < p[2]}

\* Every nonempty set of naturals has a least element.
LEMMA LeastNatural ==
    ASSUME NEW S \in SUBSET Nat, S # {}
    PROVE  \E n \in S : \A m \in S : n <= m
<1>1. IsWellFoundedOn({p \in Nat \X Nat : p[1] < p[2]}, Nat)
  BY NatLessThanWellFounded, Zenon DEF OpToRel
<1>2. IsWellFoundedOn(Less, Nat)
  BY <1>1, Zenon DEF Less
<1>3. S \subseteq Nat
  OBVIOUS
<1>4. PICK n \in S : \A m \in S : ~ (<<m, n>> \in Less)
  BY <1>2, <1>3, WFMin, Zenon
<1>5. ASSUME NEW m \in S PROVE n <= m
  <2>1. <<m, n>> \in Nat \X Nat /\ <<m, n>>[1] = m /\ <<m, n>>[2] = n
    OBVIOUS
  <2>2. ~ (m < n)
    BY <1>4, <2>1 DEF Less
  <2> QED BY <2>2
<1> QED BY <1>5

\* Induction, for a property that is a set of naturals.
LEMMA Induction ==
    ASSUME NEW S \in SUBSET Nat, 0 \in S, \A n \in S : n + 1 \in S
    PROVE  S = Nat
<1>1. ASSUME Nat \ S # {} PROVE FALSE
  <2>1. PICK n \in Nat \ S : \A m \in Nat \ S : n <= m
    BY <1>1, LeastNatural, (Nat \ S) \in SUBSET Nat
  <2>2. n - 1 \in Nat /\ n = (n - 1) + 1
    BY <2>1
  <2>3. n - 1 \in S
    BY <2>1, <2>2
  <2> QED BY <2>1, <2>2, <2>3
<1> QED BY <1>1

\* g is the run of n steps from an initial value.
RunOf(g, n, V, first, step) ==
    /\ g \in [0..n -> V]
    /\ g[0] = first
    /\ \A k \in 1..n : g[k] = step[<<k, g[k - 1]>>]

\* Every recursion of n steps has a run.
LEMMA Recursion ==
    ASSUME NEW V, NEW n \in Nat, NEW first \in V, NEW step \in [(1..n) \X V -> V]
    PROVE  \E g : RunOf(g, n, V, first, step)
<1> DEFINE Solves(g, m) == RunOf(g, m, V, first, step)
  S == {m \in Nat : m <= n => \E g : Solves(g, m)}
<1>1. 0 \in S
  <2>1. Solves([k \in 0..0 |-> first], 0)
    BY DEF RunOf
  <2> QED BY <2>1
<1>2. ASSUME NEW m \in S PROVE m + 1 \in S
  <2> SUFFICES ASSUME m + 1 <= n PROVE \E g : Solves(g, m + 1)
    BY <1>2
  <2>1. PICK g : Solves(g, m)
    BY <1>2
  <2> USE DEF RunOf
  <2> DEFINE h == [k \in 0..(m + 1) |-> IF k = m + 1 THEN step[<<m + 1, g[m]>>] ELSE g[k]]
  <2>2. m \in Nat /\ m + 1 \in 1..n /\ g[m] \in V /\ <<m + 1, g[m]>> \in (1..n) \X V
    BY <1>2, <2>1
  <2>3. step[<<m + 1, g[m]>>] \in V
    BY <2>2
  <2>4. h \in [0..(m + 1) -> V]
    BY <2>1, <2>2, <2>3
  <2>5. h[0] = first
    BY <2>1, <2>2
  <2>6. ASSUME NEW k \in 1..(m + 1) PROVE h[k] = step[<<k, h[k - 1]>>]
    <3>1. CASE k = m + 1
      <4>1. m \in 0..(m + 1) /\ m # m + 1 /\ m + 1 \in 0..(m + 1) /\ k - 1 = m
        BY <2>2, <3>1
      <4>2. h[m] = g[m] /\ h[m + 1] = step[<<m + 1, g[m]>>]
        BY <4>1
      <4> HIDE DEF h
      <4> QED BY <3>1, <4>1, <4>2
    <3>2. CASE k # m + 1
      BY <2>1, <2>2, <3>2
    <3> QED BY <3>1, <3>2
  <2>7. Solves(h, m + 1)
    BY <2>4, <2>5, <2>6
  <2> QED BY <2>7
<1>3. S = Nat
  <2> HIDE DEF S
  <2>1. S \in SUBSET Nat
    BY DEF S
  <2> QED BY <1>1, <1>2, <2>1, Induction
<1>4. n \in S
  BY <1>3
<1>5. PICK g : Solves(g, n)
  BY <1>4
<1> QED BY <1>5

-------------------------------------------------------------------------------
\* Numbers

\* A quotient and a remainder are unique.
LEMMA QuotientUnique ==
    ASSUME NEW B \in Nat \ {0}, NEW a \in 0..(B - 1), NEW b \in 0..(B - 1),
           NEW x \in Nat, NEW y \in Nat, a + B * x = b + B * y
    PROVE  a = b /\ x = y
<1>1. ASSUME NEW u \in Nat, NEW v \in Nat, u < v PROVE B * u + B <= B * v
  <2>1. PICK d \in Nat : v = u + 1 + d
    <3>1. v - u - 1 \in Nat /\ v = u + 1 + (v - u - 1)
      BY <1>1
    <3> QED BY <3>1
  <2>2. B * (u + 1 + d) = B * u + B + B * d
    BY <2>1
  <2>3. B * d \in Nat /\ B * u \in Nat
    BY <2>1
  <2> QED BY <2>1, <2>2, <2>3
<1>2. B * x \in Nat /\ B * y \in Nat
  OBVIOUS
<1>3. ~ (x < y)
  BY <1>1, <1>2
<1>4. ~ (y < x)
  BY <1>1, <1>2
<1>5. x = y
  BY <1>3, <1>4
<1> QED BY <1>2, <1>5

\* So division gives them back ...
LEMMA Quotient ==
    ASSUME NEW B \in Nat \ {0}, NEW r \in 0..(B - 1), NEW q \in Nat
    PROVE  (r + B * q) \div B = q /\ (r + B * q) % B = r
<1> DEFINE x == r + B * q
<1>1. x \in Nat
  <2>1. B * q \in Nat
    OBVIOUS
  <2> QED BY <2>1
<1> HIDE DEF x
<1> DEFINE u == x % B
  v == x \div B
<1>2. v \in Nat /\ u \in 0..(B - 1) /\ u + B * v = x
  BY <1>1
<1> HIDE DEF u, v
<1>3. u + B * v = r + B * q
  BY <1>2 DEF x
<1>4. u = r /\ v = q
  BY <1>2, <1>3, QuotientUnique
<1> QED BY <1>4 DEF u, v, x

\* What is left of a number, and of a negative one, near a modulus.
LEMMA Remainder ==
    ASSUME NEW m \in Nat \ {0}, NEW x \in Int
    PROVE  /\ x \in Nat /\ x < m => x % m = x
           /\ x < 0 /\ -m <= x => x % m = x + m
OBVIOUS

\* ... and the lowest byte of a number and the rest are unique.
LEMMA DigitsUnique ==
    ASSUME NEW a \in Bytes, NEW b \in Bytes, NEW x \in Nat, NEW y \in Nat,
           a + Base * x = b + Base * y
    PROVE  a = b /\ x = y
<1>1. Base \in Nat \ {0} /\ a \in 0..(Base - 1) /\ b \in 0..(Base - 1)
  BY SizeAssumption DEF Bytes
<1> QED BY <1>1, QuotientUnique

\* Power is the power of Base.
LEMMA PowerCorrect ==
    /\ Power \in [0..(FieldBytes + 1) -> Nat \ {0}]
    /\ Power[0] = 1
    /\ \A k \in 1..(FieldBytes + 1) : Power[k] = Base * Power[k - 1]
<1> DEFINE n == FieldBytes + 1
  step == [p \in (1..n) \X Nat |-> Base * p[2]]
<1>1. n \in Nat /\ Base \in Nat \ {0}
  BY SizeAssumption
<1>2. step \in [(1..n) \X Nat -> Nat]
  BY <1>1
<1>3. PICK g : RunOf(g, n, Nat, 1, step)
  <2> HIDE DEF step, n
  <2> QED BY <1>1, <1>2, Recursion
<1> USE DEF RunOf
<1>4. ASSUME NEW k \in 1..n PROVE g[k] = Base * g[k - 1]
  <2>1. <<k, g[k - 1]>> \in (1..n) \X Nat
    BY <1>1, <1>3
  <2> QED BY <1>3, <2>1
<1>5. g = [k \in 0..n |-> IF k = 0 THEN 1 ELSE Base * g[k - 1]]
  <2>1. ASSUME NEW k \in 0..n PROVE g[k] = IF k = 0 THEN 1 ELSE Base * g[k - 1]
    <3> HIDE DEF step
    <3> QED BY <1>1, <1>3, <1>4
  <2> HIDE DEF n, step
  <2> QED BY <1>3, <2>1
<1>6. Power = [k \in 0..n |-> IF k = 0 THEN 1 ELSE Base * Power[k - 1]]
  BY <1>5 DEF Power
<1> DEFINE S == {k \in Nat : k <= n => Power[k] \in Nat \ {0}}
<1>7. S = Nat
  <2>1. 0 \in S
    BY <1>1, <1>6
  <2>2. ASSUME NEW k \in S PROVE k + 1 \in S
    BY <1>1, <1>6, <2>2
  <2> HIDE DEF S
  <2>3. S \in SUBSET Nat
    BY DEF S
  <2> QED BY <2>1, <2>2, <2>3, Induction
<1>8. \A k \in 0..n : Power[k] \in Nat \ {0}
  BY <1>1, <1>7
<1>9. ASSUME NEW k \in 1..n PROVE Power[k] = Base * Power[k - 1]
  BY <1>1, <1>6
<1>10. Power \in [0..n -> Nat \ {0}]
  <2> HIDE DEF n
  <2> QED BY <1>6, <1>8
<1>11. Power[0] = 1
  BY <1>1, <1>6
<1> HIDE DEF step, S
<1> QED BY <1>9, <1>10, <1>11

-------------------------------------------------------------------------------
\* Fields

\* What the circuit packs: bytes, and the negative ones that an overlap leaves.
Signed == (1 - Base)..(Base - 1)

LEMMA Sizes ==
    /\ Base \in Nat /\ Base > 1 /\ FieldBytes \in Nat \ {0} /\ Prime \in Nat \ {0}
    /\ DOMAIN_BYTES \in Nat \ {0} /\ COMMAND_BYTES \in Nat \ {0}
    /\ Power[FieldBytes] \in Nat \ {0} /\ 2 * Power[FieldBytes] <= Prime
    /\ NUL \in Bytes /\ NotInUTF8 \in Bytes /\ NUL # NotInUTF8
    /\ Bytes \subseteq Signed /\ Bytes \subseteq Nat /\ Signed \subseteq Int
<1>1. Base \in Nat /\ Base > 1 /\ FieldBytes \in Nat \ {0}
  BY SizeAssumption
<1>2. Power[FieldBytes] \in Nat \ {0} /\ Power[FieldBytes + 1] \in Nat
  BY <1>1, PowerCorrect
<1> QED BY <1>1, <1>2, SizeAssumption DEF Bytes, Signed, NUL, NotInUTF8

LEMMA SeqOf ==
    ASSUME NEW S, NEW V, NEW s \in Seq(S), S \subseteq V
    PROVE  s \in Seq(V)
<1>1. Len(s) \in Nat /\ s \in [1..Len(s) -> S]
  OBVIOUS
<1>2. s \in [1..Len(s) -> V]
  BY <1>1
<1> QED BY <1>1, <1>2

LEMMA BytesAreSigned ==
    ASSUME NEW s \in Seq(Bytes)
    PROVE  s \in Seq(Signed)
BY Sizes, SeqOf

\* Byte number i of a sequence with NULs behind its last byte.
PaddedByte(bytes, i) == IF i <= Len(bytes) THEN bytes[i] ELSE NUL

Index(f, j) == (f - 1) * FieldBytes + j

\* g[j] is the number that the bytes j, j + 1, ... of field f make.
Packs(g, bytes, f) ==
    /\ g \in [1..(FieldBytes + 1) -> Int]
    /\ g[FieldBytes + 1] = 0
    /\ \A j \in 1..FieldBytes : g[j] = PaddedByte(bytes, Index(f, j)) + Base * g[j + 1]

LEMMA IndexPositive ==
    ASSUME NEW f \in Nat \ {0}, NEW j \in 1..FieldBytes
    PROVE  Index(f, j) \in Nat \ {0}
<1>1. FieldBytes \in Nat /\ f - 1 \in Nat
  BY SizeAssumption
<1>2. (f - 1) * FieldBytes \in Nat
  BY <1>1
<1> QED BY <1>1, <1>2 DEF Index

LEMMA PaddedByteIn ==
    ASSUME NEW S, NUL \in S, NEW bytes \in Seq(S), NEW i \in Nat \ {0}
    PROVE  PaddedByte(bytes, i) \in S
BY DEF PaddedByte

LEMMA PaddedByteIsByte ==
    ASSUME NEW bytes \in Seq(Bytes), NEW i \in Nat \ {0}
    PROVE  PaddedByte(bytes, i) \in Bytes
BY Sizes, PaddedByteIn

LEMMA PaddedByteIsSigned ==
    ASSUME NEW bytes \in Seq(Signed), NEW i \in Nat \ {0}
    PROVE  PaddedByte(bytes, i) \in Signed
<1>1. NUL \in Signed
  BY Sizes
<1> QED BY <1>1, PaddedByteIn

\* There is such a number for every field.
LEMMA PackingExists ==
    ASSUME NEW bytes \in Seq(Signed), NEW f \in Nat \ {0}
    PROVE  \E g : Packs(g, bytes, f)
<1> DEFINE n == FieldBytes
  place(k) == Index(f, n + 1 - k)
  step == [p \in (1..n) \X Int |-> PaddedByte(bytes, place(p[1])) + Base * p[2]]
<1>1. n \in Nat \ {0} /\ Base \in Nat /\ Signed \subseteq Int /\ 0 \in Int
  BY Sizes
<1>2. ASSUME NEW k \in 1..n PROVE PaddedByte(bytes, place(k)) \in Int
  <2>1. n + 1 - k \in 1..n
    BY <1>1
  <2>2. place(k) \in Nat \ {0}
    BY <2>1, IndexPositive
  <2> QED BY <1>1, <2>2, PaddedByteIsSigned
<1>3. step \in [(1..n) \X Int -> Int]
  <2>1. ASSUME NEW p \in (1..n) \X Int
        PROVE  PaddedByte(bytes, place(p[1])) + Base * p[2] \in Int
    <3>1. p[1] \in 1..n /\ p[2] \in Int
      OBVIOUS
    <3>2. PaddedByte(bytes, place(p[1])) \in Int
      BY <1>2, <3>1
    <3>3. Base * p[2] \in Int
      BY <1>1, <3>1
    <3> HIDE DEF place
    <3> QED BY <3>2, <3>3
  <2> HIDE DEF place, n
  <2> QED BY <2>1
<1>4. PICK h : RunOf(h, n, Int, 0, step)
  <2> HIDE DEF step, n
  <2> QED BY <1>1, <1>3, Recursion
<1> DEFINE g == [j \in 1..(n + 1) |-> h[n + 1 - j]]
<1>5. g \in [1..(n + 1) -> Int] /\ g[n + 1] = 0
  <2>1. h[0] = 0 /\ h \in [0..n -> Int]
    BY <1>4 DEF RunOf
  <2>2. n + 1 \in 1..(n + 1) /\ n + 1 - (n + 1) = 0
    BY <1>1
  <2>3. ASSUME NEW j \in 1..(n + 1) PROVE h[n + 1 - j] \in Int
    <3>1. n + 1 - j \in 0..n
      BY <1>1
    <3> QED BY <2>1, <3>1
  <2> HIDE DEF n
  <2> QED BY <2>1, <2>2, <2>3
<1>6. ASSUME NEW j \in 1..n PROVE g[j] = PaddedByte(bytes, Index(f, j)) + Base * g[j + 1]
  <2> DEFINE k == n + 1 - j
  <2>1. k \in 1..n /\ n + 1 - k = j /\ k - 1 = n + 1 - (j + 1) /\ k - 1 \in 0..n
    BY <1>1
  <2>2. h[k] = step[<<k, h[k - 1]>>] /\ h[k - 1] \in Int
    BY <1>4, <2>1 DEF RunOf
  <2>3. <<k, h[k - 1]>> \in (1..n) \X Int
    BY <2>1, <2>2
  <2>4. step[<<k, h[k - 1]>>] = PaddedByte(bytes, place(k)) + Base * h[k - 1]
    <3> HIDE DEF n, k, place
    <3> QED BY <2>3
  <2>5. place(k) = Index(f, j)
    BY <2>1
  <2>6. g[j] = h[k] /\ g[j + 1] = h[k - 1]
    <3>1. j \in 1..(n + 1) /\ j + 1 \in 1..(n + 1)
      BY <1>1
    <3> QED BY <2>1, <3>1
  <2> HIDE DEF g, k, place, step, n
  <2> QED BY <2>2, <2>4, <2>5, <2>6
<1>7. Packs(g, bytes, f)
  <2> HIDE DEF g
  <2> QED BY <1>5, <1>6 DEF Packs
<1> QED BY <1>7

\* It is determined by the bytes.
LEMMA PackingUnique ==
    ASSUME NEW a, NEW b, NEW f, NEW g, NEW h, Packs(g, a, f), Packs(h, b, f),
           \A j \in 1..FieldBytes : PaddedByte(a, Index(f, j)) = PaddedByte(b, Index(f, j))
    PROVE  g = h
<1> DEFINE n == FieldBytes
  S == {m \in Nat : m <= n => g[n + 1 - m] = h[n + 1 - m]}
<1>1. n \in Nat \ {0}
  BY Sizes
<1>2. 0 \in S
  <2>1. n + 1 - 0 = n + 1
    BY <1>1
  <2> QED BY <2>1 DEF Packs
<1>3. ASSUME NEW m \in S PROVE m + 1 \in S
  <2> SUFFICES ASSUME m + 1 <= n PROVE g[n + 1 - (m + 1)] = h[n + 1 - (m + 1)]
    BY <1>3
  <2> DEFINE j == n - m
  <2>1. m <= n /\ j \in 1..n /\ n + 1 - (m + 1) = j /\ n + 1 - m = j + 1
    BY <1>1, <1>3
  <2>2. g[n + 1 - m] = h[n + 1 - m]
    BY <1>3, <2>1
  <2>3. g[j + 1] = h[j + 1]
    BY <2>1, <2>2
  <2>4. /\ g[j] = PaddedByte(a, Index(f, j)) + Base * g[j + 1]
        /\ h[j] = PaddedByte(b, Index(f, j)) + Base * h[j + 1]
        /\ PaddedByte(a, Index(f, j)) = PaddedByte(b, Index(f, j))
    BY <2>1 DEF Packs
  <2> HIDE DEF j
  <2>5. g[j] = h[j]
    BY <2>3, <2>4
  <2> QED BY <2>1, <2>5
<1>4. S = Nat
  <2> HIDE DEF S
  <2>1. S \in SUBSET Nat
    BY DEF S
  <2> QED BY <1>2, <1>3, <2>1, Induction
<1>5. ASSUME NEW j \in 1..(n + 1) PROVE g[j] = h[j]
  <2>1. n + 1 - j \in Nat /\ n + 1 - j <= n /\ n + 1 - (n + 1 - j) = j
    BY <1>1
  <2>2. n + 1 - j \in S
    BY <1>4, <2>1
  <2>3. g[n + 1 - (n + 1 - j)] = h[n + 1 - (n + 1 - j)]
    BY <2>1, <2>2
  <2> QED BY <2>1, <2>3
<1>6. g \in [1..(n + 1) -> Int] /\ h \in [1..(n + 1) -> Int]
  BY DEF Packs
<1>7. g = [j \in 1..(n + 1) |-> g[j]] /\ h = [j \in 1..(n + 1) |-> h[j]]
  BY <1>6
<1>8. [j \in 1..(n + 1) |-> g[j]] = [j \in 1..(n + 1) |-> h[j]]
  BY <1>5
<1> QED BY <1>7, <1>8, Zenon

\* A field is this number modulo Prime.
LEMMA FieldPacks ==
    ASSUME NEW bytes \in Seq(Signed), NEW f \in Nat \ {0}
    PROVE  \E g : Packs(g, bytes, f) /\ Field(bytes, f) = g[1] % Prime
<1> DEFINE n == FieldBytes
  Value(g) == [j \in 1..(n + 1) |->
                  IF j > n THEN 0
                  ELSE (IF (f - 1) * n + j <= Len(bytes) THEN bytes[(f - 1) * n + j] ELSE NUL)
                       + Base * g[j + 1]]
  from == CHOOSE g : g = Value(g)
<1>1. n \in Nat \ {0} /\ Base \in Nat \ {0, 1}
  BY SizeAssumption
<1>2. PICK g : Packs(g, bytes, f)
  BY PackingExists
<1>3. g = Value(g)
  <2>1. ASSUME NEW j \in 1..(n + 1) PROVE g[j] = Value(g)[j]
    BY <1>1, <1>2 DEF Packs, PaddedByte, Index
  <2> QED BY <1>2, <2>1 DEF Packs
<1>4. from = Value(from)
  BY <1>3
<1>5. Field(bytes, f) = from[1] % Prime
  BY Zenon DEF Field
<1> HIDE DEF from
<1>6. from[n + 1] = 0
  <2>1. n + 1 \in 1..(n + 1) /\ n + 1 > n
    BY <1>1
  <2> QED BY <1>4, <2>1
<1>7. ASSUME NEW j \in 1..n
      PROVE  from[j] = PaddedByte(bytes, Index(f, j)) + Base * from[j + 1]
  <2>1. from[j] = Value(from)[j]
    BY <1>4
  <2> QED BY <1>1, <2>1 DEF PaddedByte, Index
<1>8. \A m \in 0..n : from[n + 1 - m] \in Int
  <2> DEFINE S == {m \in Nat : m <= n => from[n + 1 - m] \in Int}
  <2>1. 0 \in S
    <3>1. n + 1 - 0 = n + 1
      BY <1>1
    <3> QED BY <1>6, <3>1
  <2>2. ASSUME NEW m \in S PROVE m + 1 \in S
    <3> SUFFICES ASSUME m + 1 <= n PROVE from[n + 1 - (m + 1)] \in Int
      BY <2>2
    <3> DEFINE j == n - m
    <3>1. j \in 1..n /\ n + 1 - (m + 1) = j /\ n + 1 - m = j + 1 /\ m <= n
      BY <1>1, <2>2
    <3>2. from[n + 1 - m] \in Int
      BY <2>2, <3>1
    <3>3. from[j] = PaddedByte(bytes, Index(f, j)) + Base * from[j + 1]
      BY <1>7, <3>1
    <3>4. PaddedByte(bytes, Index(f, j)) \in Int
      BY <3>1, IndexPositive, PaddedByteIsSigned, Sizes
    <3> HIDE DEF j
    <3>5. from[j] \in Int
      BY <1>1, <3>1, <3>2, <3>3, <3>4
    <3> QED BY <3>1, <3>5
  <2> HIDE DEF S
  <2>3. S \in SUBSET Nat
    BY DEF S
  <2>4. S = Nat
    BY <2>1, <2>2, <2>3, Induction
  <2> SUFFICES ASSUME NEW m \in 0..n PROVE from[n + 1 - m] \in Int
    OBVIOUS
  <2>5. m \in S /\ m <= n
    BY <1>1, <2>4
  <2> QED BY <2>5 DEF S
<1>9. Packs(from, bytes, f)
  <2>1. ASSUME NEW j \in 1..(n + 1) PROVE from[j] \in Int
    <3>1. n + 1 - j \in 0..n /\ n + 1 - (n + 1 - j) = j
      BY <1>1
    <3>2. from[n + 1 - (n + 1 - j)] \in Int
      BY <1>8, <3>1
    <3> QED BY <3>1, <3>2
  <2>2. from \in [1..(n + 1) -> Int]
    <3> HIDE DEF n
    <3> QED BY <1>4, <2>1
  <2> QED BY <1>6, <1>7, <2>2 DEF Packs
<1> QED BY <1>5, <1>9

\* So fields with the same bytes are the same.
LEMMA FieldSame ==
    ASSUME NEW a \in Seq(Signed), NEW b \in Seq(Signed), NEW f \in Nat \ {0},
           \A j \in 1..FieldBytes : PaddedByte(a, Index(f, j)) = PaddedByte(b, Index(f, j))
    PROVE  Field(a, f) = Field(b, f)
<1>1. PICK g : Packs(g, a, f) /\ Field(a, f) = g[1] % Prime
  BY FieldPacks
<1>2. PICK h : Packs(h, b, f) /\ Field(b, f) = h[1] % Prime
  BY FieldPacks
<1>3. g = h
  BY <1>1, <1>2, PackingUnique
<1> QED BY <1>1, <1>2, <1>3, Zenon

\* The number has no more digits than the field has bytes.
LEMMA PackingBounds ==
    ASSUME NEW bytes \in Seq(Signed), NEW f \in Nat \ {0}, NEW g, Packs(g, bytes, f)
    PROVE  g[1] \in (1 - Power[FieldBytes])..(Power[FieldBytes] - 1)
<1> DEFINE n == FieldBytes
  S == {m \in Nat : m <= n => g[n + 1 - m] \in (1 - Power[m])..(Power[m] - 1)}
<1>1. n \in Nat \ {0} /\ Base \in Nat \ {0, 1}
  BY SizeAssumption
<1>2. 0 \in S
  <2>1. n + 1 - 0 = n + 1 /\ Power[0] - 1 = 0 /\ 1 - Power[0] = 0 /\ 0 \in 0..0
    BY <1>1, PowerCorrect
  <2>2. g[n + 1] = 0
    BY DEF Packs
  <2> QED BY <2>1, <2>2
<1>3. ASSUME NEW m \in S PROVE m + 1 \in S
  <2> SUFFICES ASSUME m + 1 <= n
               PROVE  g[n + 1 - (m + 1)] \in (1 - Power[m + 1])..(Power[m + 1] - 1)
    BY <1>3
  <2> DEFINE j == n - m
  <2>1. m \in Nat /\ m <= n /\ j \in 1..n /\ n + 1 - (m + 1) = j /\ n + 1 - m = j + 1
    BY <1>1, <1>3
  <2>2. g[j + 1] \in (1 - Power[m])..(Power[m] - 1)
    <3>1. g[n + 1 - m] \in (1 - Power[m])..(Power[m] - 1)
      BY <1>3, <2>1
    <3> QED BY <2>1, <3>1
  <2>3. g[j] = PaddedByte(bytes, Index(f, j)) + Base * g[j + 1]
    BY <2>1 DEF Packs
  <2>4. PaddedByte(bytes, Index(f, j)) \in (1 - Base)..(Base - 1)
    BY <2>1, IndexPositive, PaddedByteIsSigned DEF Signed
  <2>5. Power[m + 1] = Base * Power[m] /\ Power[m] \in Nat
    BY <1>1, <2>1, PowerCorrect
  <2>6. \A x \in Int, y \in Nat :
            x \in (1 - y)..(y - 1) =>
                /\ Base * x \in Int /\ Base * y \in Nat
                /\ Base * x + Base <= Base * y /\ 0 - Base * y <= Base * x - Base
    <3>1. \A u, v \in Int : u <= v => Base * u <= Base * v
      BY <1>1
    <3>2. \A x \in Int, y \in Nat :
              /\ Base * (x + 1) = Base * x + Base /\ Base * (x - 1) = Base * x - Base
              /\ Base * (0 - y) = 0 - Base * y
      BY <1>1
    <3> SUFFICES ASSUME NEW x \in Int, NEW y \in Nat, x \in (1 - y)..(y - 1)
                 PROVE  /\ Base * x \in Int /\ Base * y \in Nat
                        /\ Base * x + Base <= Base * y /\ 0 - Base * y <= Base * x - Base
      OBVIOUS
    <3>3. Base * (x + 1) <= Base * y
      BY <3>1
    <3>4. Base * (0 - y) <= Base * (x - 1)
      BY <3>1
    <3> QED BY <1>1, <3>2, <3>3, <3>4
  <2>7. /\ Base * g[j + 1] \in Int /\ Base * Power[m] \in Nat
        /\ Base * g[j + 1] + Base <= Base * Power[m]
        /\ 0 - Base * Power[m] <= Base * g[j + 1] - Base
    <3> HIDE DEF j
    <3>1. g[j + 1] \in Int
      BY <2>2, <2>5
    <3> QED BY <2>2, <2>5, <2>6, <3>1
  <2>8. \A b \in (1 - Base)..(Base - 1), x \in Int, y \in Nat :
            x + Base <= y /\ 0 - y <= x - Base => b + x \in (1 - y)..(y - 1)
    BY <1>1
  <2>9. g[j] \in (1 - Base * Power[m])..(Base * Power[m] - 1)
    <3> HIDE DEF j
    <3> QED BY <2>3, <2>4, <2>7, <2>8
  <2> QED BY <2>1, <2>5, <2>9
<1>4. S = Nat
  <2> HIDE DEF S
  <2>1. S \in SUBSET Nat
    BY DEF S
  <2> QED BY <1>2, <1>3, <2>1, Induction
<1>5. n \in S /\ n + 1 - n = 1
  BY <1>1, <1>4
<1> QED BY <1>1, <1>5

\* Nor is it negative, if the bytes are not.
LEMMA PackingOfBytes ==
    ASSUME NEW bytes \in Seq(Bytes), NEW f \in Nat \ {0}, NEW g, Packs(g, bytes, f)
    PROVE  \A j \in 1..(FieldBytes + 1) : g[j] \in Nat
<1> DEFINE n == FieldBytes
  S == {m \in Nat : m <= n => g[n + 1 - m] \in Nat}
<1>1. n \in Nat \ {0} /\ Base \in Nat
  BY Sizes
<1>2. 0 \in S
  <2>1. n + 1 - 0 = n + 1
    BY <1>1
  <2>2. g[n + 1] = 0
    BY DEF Packs
  <2> QED BY <2>1, <2>2
<1>3. ASSUME NEW m \in S PROVE m + 1 \in S
  <2> SUFFICES ASSUME m + 1 <= n PROVE g[n + 1 - (m + 1)] \in Nat
    BY <1>3
  <2> DEFINE j == n - m
  <2>1. m <= n /\ j \in 1..n /\ n + 1 - (m + 1) = j /\ n + 1 - m = j + 1
    BY <1>1, <1>3
  <2>2. g[n + 1 - m] \in Nat
    BY <1>3, <2>1
  <2>3. g[j] = PaddedByte(bytes, Index(f, j)) + Base * g[j + 1]
    BY <2>1 DEF Packs
  <2>4. PaddedByte(bytes, Index(f, j)) \in Nat
    BY <2>1, IndexPositive, PaddedByteIsByte, Sizes
  <2> HIDE DEF j
  <2>5. g[j] \in Nat
    BY <1>1, <2>1, <2>2, <2>3, <2>4
  <2> QED BY <2>1, <2>5
<1>4. S = Nat
  <2> HIDE DEF S
  <2>1. S \in SUBSET Nat
    BY DEF S
  <2> QED BY <1>2, <1>3, <2>1, Induction
<1> SUFFICES ASSUME NEW j \in 1..(n + 1) PROVE g[j] \in Nat
  OBVIOUS
<1>5. n + 1 - j \in Nat /\ n + 1 - j <= n /\ n + 1 - (n + 1 - j) = j
  BY <1>1
<1>6. n + 1 - j \in S
  BY <1>4, <1>5
<1>7. g[n + 1 - (n + 1 - j)] \in Nat
  BY <1>5, <1>6
<1> QED BY <1>5, <1>7

\* It is then not reduced: it is the value of the field.
LEMMA FieldOfBytes ==
    ASSUME NEW bytes \in Seq(Bytes), NEW f \in Nat \ {0}
    PROVE  \E g : /\ Packs(g, bytes, f) /\ Field(bytes, f) = g[1]
                  /\ \A j \in 1..(FieldBytes + 1) : g[j] \in Nat
<1>1. bytes \in Seq(Signed)
  BY BytesAreSigned
<1>2. PICK g : Packs(g, bytes, f) /\ Field(bytes, f) = g[1] % Prime
  BY <1>1, FieldPacks
<1>3. \A j \in 1..(FieldBytes + 1) : g[j] \in Nat
  BY <1>2, PackingOfBytes
<1>4. g[1] <= Power[FieldBytes] - 1 /\ g[1] \in Nat
  <2>1. 1 \in 1..(FieldBytes + 1)
    BY Sizes
  <2> QED BY <1>1, <1>2, <1>3, <2>1, PackingBounds, Sizes
<1>5. g[1] % Prime = g[1]
  <2>1. Prime \in Nat \ {0} /\ g[1] < Prime
    BY <1>4, Sizes
  <2> QED BY <1>4, <2>1, Remainder
<1> QED BY <1>2, <1>3, <1>5

\* Packing a field is injective: equal fields hold equal bytes.
LEMMA FieldInjective ==
    ASSUME NEW a \in Seq(Bytes), NEW b \in Seq(Bytes), NEW f \in Nat \ {0},
           Field(a, f) = Field(b, f)
    PROVE  \A j \in 1..FieldBytes : PaddedByte(a, Index(f, j)) = PaddedByte(b, Index(f, j))
<1>1. FieldBytes \in Nat \ {0}
  BY SizeAssumption
<1>2. PICK g : /\ Packs(g, a, f) /\ Field(a, f) = g[1]
                /\ \A j \in 1..(FieldBytes + 1) : g[j] \in Nat
  BY FieldOfBytes
<1>3. PICK h : /\ Packs(h, b, f) /\ Field(b, f) = h[1]
                /\ \A j \in 1..(FieldBytes + 1) : h[j] \in Nat
  BY FieldOfBytes
<1>4. ASSUME NEW j \in 1..FieldBytes, g[j] = h[j]
      PROVE  PaddedByte(a, Index(f, j)) = PaddedByte(b, Index(f, j)) /\ g[j + 1] = h[j + 1]
  <2>1. PaddedByte(a, Index(f, j)) \in Bytes /\ PaddedByte(b, Index(f, j)) \in Bytes
    BY IndexPositive, PaddedByteIsByte
  <2>2. g[j + 1] \in Nat /\ h[j + 1] \in Nat
    BY <1>1, <1>2, <1>3
  <2>3. PaddedByte(a, Index(f, j)) + Base * g[j + 1] = PaddedByte(b, Index(f, j)) + Base * h[j + 1]
    BY <1>2, <1>3, <1>4 DEF Packs
  <2> QED BY <2>1, <2>2, <2>3, DigitsUnique
<1> DEFINE S == {m \in Nat : m + 1 <= FieldBytes => g[m + 1] = h[m + 1]}
<1>5. 0 \in S
  <2>1. g[1] = h[1]
    BY <1>2, <1>3, Zenon
  <2> QED BY <2>1
<1>6. ASSUME NEW m \in S PROVE m + 1 \in S
  <2> SUFFICES ASSUME (m + 1) + 1 <= FieldBytes PROVE g[(m + 1) + 1] = h[(m + 1) + 1]
    OBVIOUS
  <2>1. m + 1 \in 1..FieldBytes
    BY <1>1
  <2>2. g[m + 1] = h[m + 1]
    BY <1>1, <1>6
  <2> QED BY <1>4, <2>1, <2>2
<1>7. S = Nat
  <2> HIDE DEF S
  <2>1. S \in SUBSET Nat
    BY DEF S
  <2> QED BY <1>5, <1>6, <2>1, Induction
<1>8. ASSUME NEW j \in 1..FieldBytes PROVE g[j] = h[j]
  <2>1. j - 1 \in Nat /\ (j - 1) + 1 = j
    BY <1>1
  <2>2. j - 1 \in S
    BY <1>7, <2>1
  <2> QED BY <1>1, <2>1, <2>2
<1> QED BY <1>4, <1>8

\* Every byte of a sequence is in one of its fields.
LEMMA FieldsCover ==
    ASSUME NEW size \in Nat \ {0}, NEW i \in 1..size
    PROVE  /\ FieldsFor(size) \in Nat
           /\ \E f \in 1..FieldsFor(size), j \in 1..FieldBytes : Index(f, j) = i
<1> DEFINE n == FieldBytes
  q == (i - 1) \div n
  r == (i - 1) % n
  d == (size + n - 1) \div n
<1>1. n \in Nat \ {0}
  BY SizeAssumption
<1>2. q \in Nat /\ r \in 0..(n - 1) /\ i - 1 = n * q + r
  BY <1>1
<1>3. d \in Nat /\ size + n - 1 < n * d + n
  <2> DEFINE x == size + n - 1
  <2>1. x \in Nat
    BY <1>1
  <2>2. x \div n \in Nat /\ x % n \in 0..(n - 1) /\ x = n * (x \div n) + (x % n)
    <3> HIDE DEF x, n
    <3> QED BY <1>1, <2>1
  <2>3. n * (x \div n) \in Nat
    <3> HIDE DEF x, n
    <3> QED BY <1>1, <2>2
  <2>4. x < n * (x \div n) + n
    <3> HIDE DEF x, n
    <3> QED BY <1>1, <2>1, <2>2, <2>3
  <2> QED BY <2>2, <2>4
<1>4. q < d
  <2>1. n * q <= size - 1 /\ n * q \in Nat /\ n * d \in Nat
    BY <1>1, <1>2, <1>3
  <2>2. ~ (n * d <= n * q)
    BY <1>1, <1>3, <2>1
  <2>3. \A u, v \in Nat : u <= v => n * u <= n * v
    BY <1>1
  <2> HIDE DEF n, q, d
  <2> QED BY <1>2, <1>3, <2>2, <2>3
<1>5. FieldsFor(size) = d
  BY DEF FieldsFor
<1>6. q + 1 \in 1..d /\ r + 1 \in 1..n
  BY <1>1, <1>2, <1>3, <1>4
<1>7. Index(q + 1, r + 1) = i
  <2>1. (q + 1) - 1 = q /\ q * n = n * q
    BY <1>1, <1>2
  <2> HIDE DEF q, r, n
  <2>2. n * q \in Nat
    BY <1>1, <1>2
  <2>3. Index(q + 1, r + 1) = n * q + (r + 1)
    BY <2>1 DEF Index, n
  <2> QED BY <1>1, <1>2, <2>2, <2>3
<1> QED BY <1>3, <1>5, <1>6, <1>7

\* So sequences with equal fields are equal, up to NULs behind the last byte of one of them.
LEMMA PackingInjective ==
    ASSUME NEW a \in Seq(Bytes), NEW b \in Seq(Bytes), NEW size \in Nat \ {0},
           \A f \in 1..FieldsFor(size) : Field(a, f) = Field(b, f)
    PROVE  \A i \in 1..size : PaddedByte(a, i) = PaddedByte(b, i)
<1> SUFFICES ASSUME NEW i \in 1..size PROVE PaddedByte(a, i) = PaddedByte(b, i)
  OBVIOUS
<1>1. PICK f \in 1..FieldsFor(size), j \in 1..FieldBytes : Index(f, j) = i
  BY FieldsCover
<1>2. f \in Nat \ {0}
  BY FieldsCover
<1> QED BY <1>1, <1>2, FieldInjective

\* A negative byte borrows from the byte behind it.  If that one is a NUL, a text would
\* have to hold the highest byte in its place; at the end of a field the borrow would have
\* to come from Prime, which is too large for it.
LEMMA Borrow ==
    ASSUME NEW a \in Seq(Bytes), NEW c \in Seq(Signed), NEW f \in Nat \ {0},
           Field(a, f) = Field(c, f),
           NEW j \in 1..FieldBytes, PaddedByte(c, Index(f, j)) < 0
    PROVE  /\ j < FieldBytes
           /\ PaddedByte(c, Index(f, j + 1)) = NUL =>
                  PaddedByte(a, Index(f, j + 1)) = NotInUTF8
<1> DEFINE n == FieldBytes
<1>1. n \in Nat \ {0} /\ Base \in Nat /\ Base > 1 /\ Prime \in Nat \ {0}
  BY Sizes
<1>2. PICK t : /\ Packs(t, a, f) /\ Field(a, f) = t[1]
               /\ \A i \in 1..(FieldBytes + 1) : t[i] \in Nat
  BY FieldOfBytes
<1>3. PICK g : Packs(g, c, f) /\ Field(c, f) = g[1] % Prime
  BY FieldPacks
<1>4. t[1] = g[1]
  <2>1. g[1] \in (1 - Power[n])..(Power[n] - 1)
    BY <1>3, PackingBounds
  <2>2. t[1] \in 0..(Power[n] - 1)
    <3>1. a \in Seq(Signed) /\ 1 \in 1..(n + 1)
      BY <1>1, BytesAreSigned
    <3> QED BY <1>2, <3>1, PackingBounds, Sizes
  <2>3. Power[n] \in Nat \ {0} /\ 2 * Power[n] <= Prime
    BY Sizes
  <2>4. t[1] = g[1] % Prime
    BY <1>2, <1>3
  <2>5. CASE g[1] >= 0
    <3>1. g[1] \in Nat /\ g[1] < Prime
      BY <1>1, <2>1, <2>3, <2>5
    <3>2. g[1] % Prime = g[1]
      BY <1>1, <3>1, Remainder
    <3> QED BY <2>4, <3>2
  <2>6. CASE g[1] < 0
    <3>1. PICK x, y, P : x = g[1] /\ y = t[1] /\ P = Power[n]
      OBVIOUS
    <3>2. x \in (1 - P)..(P - 1) /\ y \in 0..(P - 1)
      BY <2>1, <2>2, <3>1, Zenon
    <3>3. P \in Nat \ {0} /\ 2 * P <= Prime /\ x < 0
      BY <2>3, <2>6, <3>1, Zenon
    <3>4. x \in Int /\ -Prime <= x
      BY <1>1, <3>2, <3>3
    <3>5. x % Prime = x + Prime
      BY <1>1, <3>3, <3>4, Remainder
    <3>6. y = x + Prime
      BY <2>4, <3>1, <3>5
    <3> QED BY <1>1, <3>2, <3>3, <3>4, <3>6
  <2> QED BY <2>1, <2>5, <2>6
<1>5. ASSUME NEW i \in 1..n, t[i] \in {g[i], g[i] - 1}
      PROVE  /\ t[i + 1] \in {g[i + 1], g[i + 1] - 1}
             /\ PaddedByte(c, Index(f, i)) < 0 => t[i + 1] = g[i + 1] - 1
             /\ PaddedByte(c, Index(f, i)) = 0 /\ t[i] = g[i] - 1 =>
                    PaddedByte(a, Index(f, i)) = Base - 1
  <2> DEFINE x == t[i + 1]
    y == g[i + 1]
    b == PaddedByte(a, Index(f, i))
    d == PaddedByte(c, Index(f, i))
  <2>0. i + 1 \in 1..(n + 1) /\ i \in 1..(n + 1)
    BY <1>1
  <2>1. x \in Nat /\ y \in Int /\ t[i] \in Nat /\ g[i] \in Int
    BY <1>2, <1>3, <2>0 DEF Packs
  <2>2. b \in 0..(Base - 1) /\ d \in (1 - Base)..(Base - 1)
    BY IndexPositive, PaddedByteIsByte, PaddedByteIsSigned DEF Bytes, Signed
  <2>3. t[i] = b + Base * x /\ g[i] = d + Base * y
    BY <1>2, <1>3 DEF Packs
  <2> HIDE DEF x, y, b, d
  <2>4. b + Base * x = d + Base * y \/ b + Base * x = d + Base * y - 1
    <3>1. t[i] = g[i] \/ t[i] = g[i] - 1
      BY <1>5
    <3>2. Base * x \in Int /\ Base * y \in Int
      BY <1>1, <2>1
    <3> QED BY <2>1, <2>2, <2>3, <3>1, <3>2
  <2>5. ~ (x > y)
    <3> SUFFICES ASSUME x >= y + 1 PROVE FALSE
      BY <2>1
    <3>1. Base * (y + 1) = Base * y + Base
      BY <1>1, <2>1
    <3>2. Base * (y + 1) <= Base * x
      BY <1>1, <2>1
    <3>3. Base * x \in Int /\ Base * y \in Int
      BY <1>1, <2>1
    <3> QED BY <1>1, <2>2, <2>4, <3>1, <3>2, <3>3
  <2>6. ~ (x < y - 1)
    <3> SUFFICES ASSUME x + 2 <= y PROVE FALSE
      BY <2>1
    <3>1. Base * (x + 2) = Base * x + 2 * Base
      BY <1>1, <2>1
    <3>2. Base * (x + 2) <= Base * y
      BY <1>1, <2>1
    <3>3. Base * x \in Int /\ Base * y \in Int
      BY <1>1, <2>1
    <3> QED BY <1>1, <2>2, <2>4, <3>1, <3>2, <3>3
  <2>7. x = y \/ x = y - 1
    BY <2>1, <2>5, <2>6
  <2>8. Base * y \in Int /\ Base * (y - 1) = Base * y - Base
    BY <1>1, <2>1
  <2>9. d < 0 => x = y - 1
    BY <1>1, <2>2, <2>4, <2>7, <2>8
  <2>10. d = 0 /\ t[i] = g[i] - 1 => b = Base - 1
    <3>1. d = 0 /\ b + Base * x = d + Base * y - 1 => b = Base - 1
      BY <1>1, <2>2, <2>7, <2>8
    <3>2. Base * x \in Int /\ Base * y \in Int
      BY <1>1, <2>1
    <3> QED BY <2>1, <2>2, <2>3, <3>1, <3>2
  <2>11. x \in {y, y - 1}
    BY <2>7
  <2> QED BY <2>9, <2>10, <2>11, Zenon DEF x, y, b, d
<1> DEFINE S == {m \in Nat : m + 1 <= n => t[m + 1] \in {g[m + 1], g[m + 1] - 1}}
<1>6. S = Nat
  <2>1. 0 \in S
    BY <1>4
  <2>2. ASSUME NEW m \in S PROVE m + 1 \in S
    <3> SUFFICES ASSUME (m + 1) + 1 <= n
                 PROVE  t[(m + 1) + 1] \in {g[(m + 1) + 1], g[(m + 1) + 1] - 1}
      OBVIOUS
    <3>1. m + 1 \in 1..n
      BY <1>1
    <3>2. t[m + 1] \in {g[m + 1], g[m + 1] - 1}
      BY <1>1, <2>2
    <3> QED BY <1>5, <3>1, <3>2
  <2> HIDE DEF S
  <2>3. S \in SUBSET Nat
    BY DEF S
  <2> QED BY <2>1, <2>2, <2>3, Induction
<1>7. t[j] \in {g[j], g[j] - 1}
  <2>0. j - 1 \in Nat /\ (j - 1) + 1 = j /\ j <= n
    BY <1>1
  <2>1. j - 1 \in S /\ (j - 1) + 1 = j /\ (j - 1) + 1 <= n
    <3> HIDE DEF S
    <3> QED BY <1>6, <2>0
  <2>2. t[(j - 1) + 1] \in {g[(j - 1) + 1], g[(j - 1) + 1] - 1}
    BY <2>1
  <2> HIDE DEF S
  <2> QED BY <2>1, <2>2
<1>8. t[j + 1] = g[j + 1] - 1
  BY <1>5, <1>7
<1>9. j < n
  <2> SUFFICES ASSUME j = n PROVE FALSE
    BY <1>1
  <2>1. t[n + 1] = 0 /\ g[n + 1] = 0
    BY <1>2, <1>3 DEF Packs
  <2> QED BY <1>8, <2>1
<1>10. PaddedByte(c, Index(f, j + 1)) = 0 => PaddedByte(a, Index(f, j + 1)) = Base - 1
  <2>1. j + 1 \in 1..n
    BY <1>1, <1>9
  <2> HIDE DEF n
  <2> QED BY <1>5, <1>8, <2>1
<1> QED BY <1>9, <1>10 DEF NUL, NotInUTF8

-------------------------------------------------------------------------------
\* Unpacking

LEMMA BytesOfIsBytes ==
    ASSUME NEW signal \in Nat
    PROVE  BytesOf(signal) \in Seq(Bytes) /\ Len(BytesOf(signal)) = FieldBytes + 1
<1>1. FieldBytes + 1 \in Nat /\ Base \in Nat \ {0}
  BY Sizes
<1>2. ASSUME NEW j \in 1..(FieldBytes + 1) PROVE (signal \div Power[j - 1]) % Base \in Bytes
  <2>1. j - 1 \in 0..(FieldBytes + 1)
    BY <1>1
  <2>2. Power[j - 1] \in Nat \ {0}
    BY <2>1, PowerCorrect
  <2>3. signal \div Power[j - 1] \in Nat
    BY <2>2
  <2> QED BY <1>1, <2>3 DEF Bytes
<1> QED BY <1>1, <1>2 DEF BytesOf

\* The relayer unpacks the bytes that were packed, and a NUL.
LEMMA FieldUnpacks ==
    ASSUME NEW bytes \in Seq(Bytes), NEW f \in Nat \ {0}
    PROVE  /\ Field(bytes, f) \in Nat
           /\ \A j \in 1..FieldBytes :
                  BytesOf(Field(bytes, f))[j] = PaddedByte(bytes, Index(f, j))
           /\ BytesOf(Field(bytes, f))[FieldBytes + 1] = NUL
<1> DEFINE n == FieldBytes
<1>1. n \in Nat \ {0} /\ Base \in Nat \ {0}
  BY Sizes
<1>2. PICK g : /\ Packs(g, bytes, f) /\ Field(bytes, f) = g[1]
               /\ \A j \in 1..(FieldBytes + 1) : g[j] \in Nat
  BY FieldOfBytes
<1>3. g[1] \in Nat
  <2>1. 1 \in 1..(FieldBytes + 1)
    BY <1>1
  <2> QED BY <1>2, <2>1
<1> DEFINE S == {m \in Nat : m <= n =>
                    \E r \in 0..(Power[m] - 1) : g[1] = r + Power[m] * g[m + 1]}
<1>4. S = Nat
  <2>1. 0 \in S
    <3>1. Power[0] = 1 /\ 0 + 1 = 1
      BY PowerCorrect
    <3>2. 0 \in 0..(Power[0] - 1) /\ g[1] = 0 + Power[0] * g[0 + 1]
      BY <1>3, <3>1
    <3> QED BY <3>2
  <2>2. ASSUME NEW m \in S PROVE m + 1 \in S
    <3> SUFFICES ASSUME m + 1 <= n
                 PROVE  \E r \in 0..(Power[m + 1] - 1) :
                            g[1] = r + Power[m + 1] * g[(m + 1) + 1]
      BY <2>2
    <3>1. m \in Nat /\ m <= n /\ m + 1 \in 1..n /\ m \in 0..(n + 1) /\ m + 1 \in 1..(n + 1)
          /\ (m + 1) + 1 \in 1..(n + 1) /\ (m + 1) - 1 = m
      BY <1>1, <2>2
    <3>2. PICK r \in 0..(Power[m] - 1) : g[1] = r + Power[m] * g[m + 1]
      BY <2>2, <3>1
    <3> DEFINE p == Power[m]
      b == PaddedByte(bytes, Index(f, m + 1))
      q == g[(m + 1) + 1]
    <3>3. p \in Nat \ {0} /\ Power[m + 1] = Base * p
      BY <1>1, <3>1, PowerCorrect
    <3>4. b \in 0..(Base - 1) /\ q \in Nat
      BY <1>2, <3>1, IndexPositive, PaddedByteIsByte DEF Bytes
    <3>5. g[m + 1] = b + Base * q
      BY <1>2, <3>1 DEF Packs
    <3> HIDE DEF p, b, q
    <3>6. g[1] = r + p * (b + Base * q) /\ r \in 0..(p - 1)
      BY <3>2, <3>5 DEF p
    <3>7. p * (b + Base * q) = p * b + Base * p * q
      BY <1>1, <3>3, <3>4
    <3>8. p * b \in Nat /\ p * b + p <= Base * p /\ Base * p \in Nat
      <4>1. p * (b + 1) <= p * Base
        BY <1>1, <3>3, <3>4
      <4>2. p * (b + 1) = p * b + p /\ p * Base = Base * p
        BY <1>1, <3>3, <3>4
      <4> QED BY <1>1, <3>3, <3>4, <4>1, <4>2
    <3>9. Base * p * q \in Nat
      BY <1>1, <3>3, <3>4
    <3>10. r + p * b \in 0..(Base * p - 1)
      BY <3>3, <3>6, <3>8
    <3>11. g[1] = (r + p * b) + Base * p * q
      BY <3>6, <3>7, <3>8, <3>9
    <3>12. r + p * b \in 0..(Power[m + 1] - 1) /\ g[1] = (r + p * b) + Power[m + 1] * q
      BY <3>3, <3>10, <3>11
    <3> QED BY <3>12 DEF q
  <2> HIDE DEF S
  <2>3. S \in SUBSET Nat
    BY DEF S
  <2> QED BY <2>1, <2>2, <2>3, Induction
<1>5. ASSUME NEW j \in 1..(n + 1) PROVE BytesOf(g[1])[j] = g[j] % Base
  <2> DEFINE m == j - 1
  <2>1. m \in Nat /\ m <= n /\ m \in 0..(n + 1) /\ m + 1 = j
    BY <1>1
  <2>2. m \in S
    <3> HIDE DEF S, m
    <3> QED BY <1>4, <2>1
  <2>3. PICK r \in 0..(Power[m] - 1) : g[1] = r + Power[m] * g[m + 1]
    BY <2>1, <2>2
  <2>4. Power[m] \in Nat \ {0} /\ g[m + 1] \in Nat
    BY <1>2, <2>1, PowerCorrect
  <2>5. (r + Power[m] * g[m + 1]) \div Power[m] = g[m + 1]
    BY <2>4, Quotient
  <2>6. BytesOf(g[1])[j] = (g[1] \div Power[m]) % Base
    BY DEF BytesOf
  <2> HIDE DEF m
  <2> QED BY <2>1, <2>3, <2>5, <2>6
<1>6. ASSUME NEW j \in 1..n PROVE BytesOf(g[1])[j] = PaddedByte(bytes, Index(f, j))
  <2> DEFINE b == PaddedByte(bytes, Index(f, j))
  <2>1. j \in 1..(n + 1) /\ j + 1 \in 1..(n + 1)
    BY <1>1
  <2>2. b \in 0..(Base - 1) /\ g[j + 1] \in Nat
    BY <1>2, <2>1, IndexPositive, PaddedByteIsByte DEF Bytes
  <2>3. g[j] = b + Base * g[j + 1]
    BY <1>2 DEF Packs
  <2> HIDE DEF b
  <2>4. (b + Base * g[j + 1]) % Base = b
    BY <1>1, <2>2, Quotient
  <2> QED BY <1>5, <2>1, <2>3, <2>4 DEF b
<1>7. BytesOf(g[1])[n + 1] = NUL
  <2>1. n + 1 \in 1..(n + 1)
    BY <1>1
  <2>2. g[n + 1] = 0
    BY <1>2 DEF Packs
  <2> HIDE DEF n
  <2>3. BytesOf(g[1])[n + 1] = 0 % Base
    BY <1>5, <2>1, <2>2
  <2> QED BY <1>1, <2>3 DEF NUL
<1> QED BY <1>2, <1>3, <1>6, <1>7

\* WithoutNULs goes through the bytes and keeps those that are no NULs.
LEMMA WithoutNULsGoes ==
    ASSUME NEW S, NEW s \in Seq(S)
    PROVE  \E kept : /\ kept[0] = <<>>
                     /\ \A i \in 0..Len(s) : kept[i] \in Seq(S \ {NUL})
                     /\ \A i \in 1..Len(s) :
                            kept[i] = IF s[i] = NUL THEN kept[i - 1]
                                      ELSE Append(kept[i - 1], s[i])
                     /\ WithoutNULs(s) = kept[Len(s)]
<1> DEFINE n == Len(s)
  V == Seq(S \ {NUL})
  step == [p \in (1..n) \X V |-> IF s[p[1]] = NUL THEN p[2] ELSE Append(p[2], s[p[1]])]
  Value(h) == [i \in 0..n |->
                  IF i = 0 THEN <<>>
                  ELSE IF s[i] = NUL THEN h[i - 1] ELSE Append(h[i - 1], s[i])]
  kept == CHOOSE h : h = Value(h)
<1>1. n \in Nat /\ <<>> \in V
  OBVIOUS
<1>2. step \in [(1..n) \X V -> V]
  <2>1. ASSUME NEW p \in (1..n) \X V
        PROVE  (IF s[p[1]] = NUL THEN p[2] ELSE Append(p[2], s[p[1]])) \in V
    <3>1. p[1] \in 1..n /\ p[2] \in V /\ s[p[1]] \in S
      OBVIOUS
    <3> QED BY <3>1
  <2> HIDE DEF V, n
  <2> QED BY <2>1
<1>3. PICK g : RunOf(g, n, V, <<>>, step)
  <2> HIDE DEF step, n, V
  <2> QED BY <1>1, <1>2, Recursion
<1>4. g \in [0..n -> V] /\ g[0] = <<>>
  BY <1>3 DEF RunOf
<1>5. ASSUME NEW i \in 1..n
      PROVE  g[i] = IF s[i] = NUL THEN g[i - 1] ELSE Append(g[i - 1], s[i])
  <2>1. i - 1 \in 0..n
    BY <1>1
  <2>2. g[i] = step[<<i, g[i - 1]>>] /\ <<i, g[i - 1]>> \in (1..n) \X V
    BY <1>3, <1>4, <2>1 DEF RunOf
  <2> HIDE DEF n, V
  <2> QED BY <2>2
<1>6. g = Value(g)
  <2>1. ASSUME NEW i \in 0..n PROVE g[i] = Value(g)[i]
    <3>1. CASE i = 0
      BY <1>4, <3>1
    <3>2. CASE i # 0
      <4>1. i \in 1..n
        BY <1>1, <3>2
      <4>2. Value(g)[i] = IF s[i] = NUL THEN g[i - 1] ELSE Append(g[i - 1], s[i])
        BY <3>2
      <4> HIDE DEF n, V
      <4> QED BY <1>5, <4>1, <4>2
    <3> QED BY <3>1, <3>2
  <2>2. g = [i \in 0..n |-> g[i]] /\ Value(g) = [i \in 0..n |-> Value(g)[i]]
    BY <1>4
  <2>3. [i \in 0..n |-> g[i]] = [i \in 0..n |-> Value(g)[i]]
    BY <2>1
  <2> QED BY <2>2, <2>3, Zenon
<1>7. kept = Value(kept)
  BY <1>6
<1>8. WithoutNULs(s) = kept[n]
  BY Zenon DEF WithoutNULs
<1> HIDE DEF kept
<1>9. kept[0] = <<>>
  BY <1>1, <1>7
<1>10. ASSUME NEW i \in 1..n
       PROVE  kept[i] = IF s[i] = NUL THEN kept[i - 1] ELSE Append(kept[i - 1], s[i])
  <2>1. kept[i] = Value(kept)[i]
    BY <1>7
  <2> QED BY <1>1, <2>1
<1> DEFINE T == {i \in Nat : i <= n => kept[i] \in V}
<1>11. T = Nat
  <2>1. 0 \in T
    BY <1>1, <1>9
  <2>2. ASSUME NEW i \in T PROVE i + 1 \in T
    <3> SUFFICES ASSUME i + 1 <= n PROVE kept[i + 1] \in V
      BY <2>2
    <3>1. i + 1 \in 1..n /\ (i + 1) - 1 = i /\ kept[i] \in V /\ s[i + 1] \in S
      BY <1>1, <2>2
    <3>2. kept[i + 1] = IF s[i + 1] = NUL THEN kept[i] ELSE Append(kept[i], s[i + 1])
      BY <1>10, <3>1
    <3> QED BY <3>1, <3>2
  <2> HIDE DEF T
  <2>3. T \in SUBSET Nat
    BY DEF T
  <2> QED BY <2>1, <2>2, <2>3, Induction
<1>12. ASSUME NEW i \in 0..n PROVE kept[i] \in V
  <2>1. i \in Nat /\ i <= n
    BY <1>1
  <2>2. i \in T
    <3> HIDE DEF T
    <3> QED BY <1>11, <2>1
  <2> QED BY <2>1, <2>2
<1> QED BY <1>8, <1>9, <1>10, <1>12

LEMMA WithoutNULsIn ==
    ASSUME NEW S, NEW s \in Seq(S)
    PROVE  WithoutNULs(s) \in Seq(S \ {NUL})
<1>1. PICK kept : /\ \A i \in 0..Len(s) : kept[i] \in Seq(S \ {NUL})
                  /\ WithoutNULs(s) = kept[Len(s)]
  BY WithoutNULsGoes
<1>2. Len(s) \in 0..Len(s)
  OBVIOUS
<1> QED BY <1>1, <1>2

\* Where the NULs are at the end, it takes nothing else away.
LEMMA WithoutNULsPrefix ==
    ASSUME NEW S, NEW s \in Seq(S), NEW m \in 0..Len(s),
           \A i \in 1..m : s[i] # NUL,
           \A i \in (m + 1)..Len(s) : s[i] = NUL
    PROVE  /\ WithoutNULs(s) \in Seq(S \ {NUL}) /\ Len(WithoutNULs(s)) = m
           /\ \A i \in 1..m : WithoutNULs(s)[i] = s[i]
<1> DEFINE n == Len(s)
<1>1. PICK kept : /\ kept[0] = <<>>
                  /\ \A i \in 0..Len(s) : kept[i] \in Seq(S \ {NUL})
                  /\ \A i \in 1..Len(s) :
                         kept[i] = IF s[i] = NUL THEN kept[i - 1] ELSE Append(kept[i - 1], s[i])
                  /\ WithoutNULs(s) = kept[Len(s)]
  BY WithoutNULsGoes
<1>2. n \in Nat /\ m \in Nat /\ m <= n
  OBVIOUS
<1> DEFINE T == {k \in Nat : k <= n =>
                    /\ Len(kept[k]) = IF k <= m THEN k ELSE m
                    /\ \A i \in 1..m : i <= k => kept[k][i] = s[i]}
<1>3. T = Nat
  <2>1. 0 \in T
    BY <1>1, <1>2
  <2>2. ASSUME NEW k \in T PROVE k + 1 \in T
    <3> SUFFICES ASSUME k + 1 <= n
                 PROVE  /\ Len(kept[k + 1]) = IF k + 1 <= m THEN k + 1 ELSE m
                        /\ \A i \in 1..m : i <= k + 1 => kept[k + 1][i] = s[i]
      BY <2>2
    <3>1. k \in Nat /\ k <= n /\ k + 1 \in 1..n /\ (k + 1) - 1 = k /\ k \in 0..n
      BY <1>2, <2>2
    <3>2. /\ Len(kept[k]) = IF k <= m THEN k ELSE m
          /\ \A i \in 1..m : i <= k => kept[k][i] = s[i]
      BY <2>2, <3>1
    <3>3. kept[k + 1] = IF s[k + 1] = NUL THEN kept[k] ELSE Append(kept[k], s[k + 1])
      BY <1>1, <3>1
    <3>4. kept[k] \in Seq(S \ {NUL})
      BY <1>1, <3>1
    <3>5. CASE k + 1 <= m
      <4>1. s[k + 1] # NUL /\ k <= m
        BY <1>2, <3>1, <3>5
      <4>2. kept[k + 1] = Append(kept[k], s[k + 1]) /\ Len(kept[k]) = k
        BY <3>2, <3>3, <4>1
      <4>3. /\ Len(kept[k + 1]) = k + 1
            /\ \A i \in 1..(k + 1) : kept[k + 1][i] = IF i <= k THEN kept[k][i] ELSE s[k + 1]
        BY <3>1, <3>4, <4>2
      <4>4. ASSUME NEW i \in 1..m, i <= k + 1 PROVE kept[k + 1][i] = s[i]
        <5>1. i \in 1..(k + 1) /\ (i <= k \/ i = k + 1)
          BY <3>1, <4>4
        <5> QED BY <3>2, <4>3, <5>1
      <4> QED BY <3>5, <4>3, <4>4
    <3>6. CASE ~ (k + 1 <= m)
      <4>1. k + 1 \in (m + 1)..n /\ m <= k
        BY <1>2, <3>1, <3>6
      <4>2. kept[k + 1] = kept[k]
        BY <3>3, <4>1
      <4>3. Len(kept[k]) = m /\ \A i \in 1..m : kept[k][i] = s[i]
        BY <1>2, <3>1, <3>2, <4>1
      <4> QED BY <3>6, <4>2, <4>3
    <3> QED BY <3>5, <3>6
  <2> HIDE DEF T
  <2>3. T \in SUBSET Nat
    BY DEF T
  <2> QED BY <2>1, <2>2, <2>3, Induction
<1>4. n \in T
  <2> HIDE DEF T
  <2> QED BY <1>2, <1>3
<1>5. /\ Len(kept[n]) = m
      /\ \A i \in 1..m : kept[n][i] = s[i]
  BY <1>2, <1>4
<1>6. kept[n] \in Seq(S \ {NUL}) /\ WithoutNULs(s) = kept[n]
  BY <1>1, <1>2
<1> QED BY <1>5, <1>6

-------------------------------------------------------------------------------
\* Signals

CommandByte == [byte : Bytes, part : {"plain", "code", "address", "both"}]

\* Packing gives a sequence of fields, whichever side packs.
LEMMA PackedFields ==
    ASSUME NEW bytes \in Seq(Signed), NEW n \in Nat
    PROVE  /\ [f \in 1..n |-> Field(bytes, f)] \in Seq(Nat)
           /\ Len([f \in 1..n |-> Field(bytes, f)]) = n
<1>1. ASSUME NEW f \in 1..n PROVE Field(bytes, f) \in Nat
  <2>1. PICK g : Packs(g, bytes, f) /\ Field(bytes, f) = g[1] % Prime
    BY FieldPacks
  <2>2. 1 \in 1..(FieldBytes + 1)
    BY SizeAssumption
  <2>3. g[1] \in Int
    BY <2>1, <2>2 DEF Packs
  <2> QED BY <2>1, <2>3, Sizes
<1> QED BY <1>1

LEMMA PadIsBytes ==
    ASSUME NEW t \in Seq(Bytes), NEW size \in Nat
    PROVE  Pad(t, size) \in Seq(Bytes) /\ Len(Pad(t, size)) = size
<1>1. ASSUME NEW i \in 1..size PROVE PaddedByte(t, i) \in Bytes
  BY <1>1, PaddedByteIsByte
<1>2. Pad(t, size) = [i \in 1..size |-> PaddedByte(t, i)]
  BY DEF Pad, PaddedByte
<1> QED BY <1>1, <1>2

\* The bytes that the circuit masks, and those that it packs.
LEMMA MaskedIs ==
    ASSUME NEW c \in Seq(CommandByte), NEW S, NUL \in S,
           \A i \in 1..Len(c) : /\ c[i].part = "plain" => c[i].byte \in S
                                /\ c[i].part = "both" => -(c[i].byte) \in S
    PROVE  /\ masked_command_bytes(c) \in Seq(S)
           /\ Len(masked_command_bytes(c)) = COMMAND_BYTES
<1>1. COMMAND_BYTES \in Nat /\ Len(c) \in Nat
  BY SizeAssumption
<1>2. ASSUME NEW i \in 1..COMMAND_BYTES PROVE masked_command_bytes(c)[i] \in S
  <2>1. CASE i > Len(c)
    BY <1>1, <2>1 DEF masked_command_bytes
  <2>2. CASE i <= Len(c)
    <3>1. i \in 1..Len(c)
      BY <1>1, <2>2
    <3>2. CASE c[i].part = "plain"
      BY <1>1, <2>2, <3>1, <3>2 DEF masked_command_bytes
    <3>3. CASE c[i].part = "both"
      BY <1>1, <2>2, <3>1, <3>3 DEF masked_command_bytes
    <3>4. CASE c[i].part \notin {"plain", "both"}
      BY <1>1, <2>2, <3>1, <3>4 DEF masked_command_bytes
    <3> QED BY <3>2, <3>3, <3>4
  <2> QED BY <1>1, <2>1, <2>2
<1>3. masked_command_bytes(c) = [i \in 1..COMMAND_BYTES |-> masked_command_bytes(c)[i]]
  BY DEF masked_command_bytes
<1> HIDE DEF masked_command_bytes
<1>4. DOMAIN masked_command_bytes(c) = 1..COMMAND_BYTES
  BY <1>3
<1> QED BY <1>1, <1>2, <1>3, <1>4

LEMMA MaskedIsBytes ==
    ASSUME NEW c \in Seq(CommandByte), \A i \in 1..Len(c) : c[i].part # "both"
    PROVE  /\ masked_command_bytes(c) \in Seq(Bytes)
           /\ Len(masked_command_bytes(c)) = COMMAND_BYTES
<1>1. \A i \in 1..Len(c) : c[i].byte \in Bytes
  <2> SUFFICES ASSUME NEW i \in 1..Len(c) PROVE c[i].byte \in Bytes
    OBVIOUS
  <2>1. c[i] \in CommandByte
    OBVIOUS
  <2> QED BY <2>1 DEF CommandByte
<1>2. NUL \in Bytes
  BY Sizes
<1> QED BY <1>1, <1>2, MaskedIs

LEMMA MaskedIsSigned ==
    ASSUME NEW c \in Seq(CommandByte)
    PROVE  /\ masked_command_bytes(c) \in Seq(Signed)
           /\ Len(masked_command_bytes(c)) = COMMAND_BYTES
<1>1. \A b \in Bytes : b \in Signed /\ -b \in Signed
  BY Sizes DEF Bytes, Signed
<1>2. \A i \in 1..Len(c) : c[i].byte \in Bytes
  <2> SUFFICES ASSUME NEW i \in 1..Len(c) PROVE c[i].byte \in Bytes
    OBVIOUS
  <2>1. c[i] \in CommandByte
    OBVIOUS
  <2> QED BY <2>1 DEF CommandByte
<1>3. \A i \in 1..Len(c) : c[i].byte \in Signed /\ -(c[i].byte) \in Signed
  BY <1>1, <1>2
<1>4. NUL \in Signed
  BY Sizes
<1> QED BY <1>3, <1>4, MaskedIs

\* Four sequences in a row.
Joined(a, b, c, d) == a \o b \o c \o d

AreSeqs(V, a, b, c, d) == a \in Seq(V) /\ b \in Seq(V) /\ c \in Seq(V) /\ d \in Seq(V)

LEMMA ConcatIs ==
    ASSUME NEW S, NEW s \in Seq(S), NEW t \in Seq(S), NEW m, NEW n,
           Len(s) = m, Len(t) = n
    PROVE  /\ Len(s \o t) = m + n
           /\ \A i \in 1..(m + n) : (s \o t)[i] = IF i <= m THEN s[i] ELSE t[i - m]
BY ConcatProperties

LEMMA ConcatParts ==
    ASSUME NEW S, NEW s \in Seq(S), NEW t \in Seq(S), NEW u, u = s \o t
    PROVE  /\ u \in Seq(S) /\ Len(u) = Len(s) + Len(t)
           /\ \A i \in 1..Len(s) : u[i] = s[i]
           /\ \A i \in 1..Len(t) : u[Len(s) + i] = t[i]
<1>1. Len(s) \in Nat /\ Len(t) \in Nat
  OBVIOUS
<1>2. /\ u \in Seq(S) /\ Len(u) = Len(s) + Len(t)
      /\ \A i \in 1..(Len(s) + Len(t)) : u[i] = IF i <= Len(s) THEN s[i] ELSE t[i - Len(s)]
  BY ConcatProperties
<1>3. ASSUME NEW i \in 1..Len(s) PROVE u[i] = s[i]
  <2>1. i \in 1..(Len(s) + Len(t)) /\ i <= Len(s)
    BY <1>1
  <2> QED BY <1>2, <2>1
<1>4. ASSUME NEW i \in 1..Len(t) PROVE u[Len(s) + i] = t[i]
  <2> DEFINE j == Len(s) + i
  <2>1. j \in 1..(Len(s) + Len(t)) /\ ~ (j <= Len(s)) /\ j - Len(s) = i
    BY <1>1
  <2> HIDE DEF j
  <2>2. u[j] = t[j - Len(s)]
    BY <1>2, <2>1
  <2> QED BY <2>1, <2>2 DEF j
<1> QED BY <1>2, <1>3, <1>4

\* Each of them is where the lengths of those in front of it leave it.
LEMMA InParts ==
    ASSUME NEW V, NEW a, NEW b, NEW c, NEW d, AreSeqs(V, a, b, c, d)
    PROVE  /\ Joined(a, b, c, d) \in Seq(V)
           /\ Len(Joined(a, b, c, d)) = Len(a) + Len(b) + Len(c) + Len(d)
           /\ \A f \in 1..Len(b) : Joined(a, b, c, d)[Len(a) + f] = b[f]
           /\ \A f \in 1..Len(c) : Joined(a, b, c, d)[Len(a) + Len(b) + f] = c[f]
           /\ \A f \in 1..Len(d) : Joined(a, b, c, d)[Len(a) + Len(b) + Len(c) + f] = d[f]
<1>1. a \in Seq(V) /\ b \in Seq(V) /\ c \in Seq(V) /\ d \in Seq(V)
  BY DEF AreSeqs
<1>2. Len(a) \in Nat /\ Len(b) \in Nat /\ Len(c) \in Nat /\ Len(d) \in Nat
  BY <1>1
<1>3. PICK ab, abc, abcd : ab = a \o b /\ abc = ab \o c /\ abcd = abc \o d
  OBVIOUS
<1>4. /\ ab \in Seq(V) /\ Len(ab) = Len(a) + Len(b)
      /\ \A f \in 1..Len(b) : ab[Len(a) + f] = b[f]
  BY <1>1, <1>3, ConcatParts
<1>5. /\ abc \in Seq(V) /\ Len(abc) = Len(ab) + Len(c)
      /\ \A f \in 1..Len(ab) : abc[f] = ab[f]
      /\ \A f \in 1..Len(c) : abc[Len(ab) + f] = c[f]
  BY <1>1, <1>3, <1>4, ConcatParts
<1>6. /\ abcd \in Seq(V) /\ Len(abcd) = Len(abc) + Len(d)
      /\ \A f \in 1..Len(abc) : abcd[f] = abc[f]
      /\ \A f \in 1..Len(d) : abcd[Len(abc) + f] = d[f]
  BY <1>1, <1>3, <1>5, ConcatParts
<1>7. Joined(a, b, c, d) = abcd
  BY <1>3 DEF Joined
<1>8. ASSUME NEW f \in 1..Len(b) PROVE abcd[Len(a) + f] = b[f]
  <2>1. Len(a) + f \in 1..Len(ab) /\ Len(a) + f \in 1..Len(abc)
    BY <1>2, <1>4, <1>5
  <2> QED BY <1>4, <1>5, <1>6, <2>1
<1>9. ASSUME NEW f \in 1..Len(c) PROVE abcd[Len(a) + Len(b) + f] = c[f]
  <2>1. Len(ab) + f \in 1..Len(abc)
    BY <1>2, <1>4, <1>5
  <2>2. abcd[Len(ab) + f] = c[f]
    BY <1>5, <1>6, <2>1
  <2> QED BY <1>4, <2>2
<1>10. ASSUME NEW f \in 1..Len(d) PROVE abcd[Len(a) + Len(b) + Len(c) + f] = d[f]
  <2>1. abcd[Len(abc) + f] = d[f]
    BY <1>6
  <2> QED BY <1>4, <1>5, <2>1
<1>11. abcd \in Seq(V) /\ Len(abcd) = Len(a) + Len(b) + Len(c) + Len(d)
  BY <1>4, <1>5, <1>6
<1> QED BY <1>7, <1>8, <1>9, <1>10, <1>11

LEMMA ThirdPart ==
    ASSUME NEW V,
           NEW a1, NEW b1, NEW c1, NEW d1, AreSeqs(V, a1, b1, c1, d1),
           NEW a2, NEW b2, NEW c2, NEW d2, AreSeqs(V, a2, b2, c2, d2),
           Joined(a1, b1, c1, d1) = Joined(a2, b2, c2, d2)
    PROVE  Len(a1) = Len(a2) /\ Len(b1) = Len(b2) /\ Len(c1) = Len(c2) =>
               \A f \in 1..Len(c1) : c1[f] = c2[f]
<1>1. \A f \in 1..Len(c1) : Joined(a1, b1, c1, d1)[Len(a1) + Len(b1) + f] = c1[f]
  BY InParts
<1>2. \A f \in 1..Len(c2) : Joined(a2, b2, c2, d2)[Len(a2) + Len(b2) + f] = c2[f]
  BY InParts
<1> QED BY <1>1, <1>2, Zenon

-------------------------------------------------------------------------------
\* Signals of an email and of a proof

FieldsOf(bytes, n) == [f \in 1..n |-> Field(bytes, f)]

Cut(bytes, size) == IF Len(bytes) > size THEN SubSeq(bytes, 1, size) ELSE bytes

MailFacts(m) == <<m.publicKeyHash, m.nullifier, m.timestamp>>
ProofFacts(p) == <<p.publicKeyHash, p.emailNullifier, p.timestamp>>

HasCode(m) == \E i \in 1..Len(m.command) : m.command[i].part = "code"

MailEnd(m) == <<m.accountSalt, IF HasCode(m) THEN 1 ELSE 0>>
ProofEnd(p) == <<p.accountSalt, IF p.isCodeExist THEN 1 ELSE 0>>

LEMMA FieldCounts ==
    /\ DOMAIN_FIELDS \in Nat /\ DOMAIN_FIELDS = FieldsFor(DOMAIN_BYTES)
    /\ COMMAND_FIELDS \in Nat /\ COMMAND_FIELDS = FieldsFor(COMMAND_BYTES)
<1>1. DOMAIN_BYTES \in Nat \ {0} /\ COMMAND_BYTES \in Nat \ {0}
  BY Sizes
<1>2. 1 \in 1..DOMAIN_BYTES /\ 1 \in 1..COMMAND_BYTES
  BY <1>1
<1> QED BY <1>1, <1>2, FieldsCover DEF DOMAIN_FIELDS, COMMAND_FIELDS

LEMMA FieldsOfAre ==
    ASSUME NEW bytes \in Seq(Signed), NEW n \in Nat
    PROVE  FieldsOf(bytes, n) \in Seq(Nat) /\ Len(FieldsOf(bytes, n)) = n
BY PackedFields DEF FieldsOf

LEMMA CutIsBytes ==
    ASSUME NEW bytes \in Seq(Bytes), NEW size \in Nat
    PROVE  Cut(bytes, size) \in Seq(Bytes)
BY DEF Cut

LEMMA CircuitSignalsAre ==
    ASSUME NEW m, m.domain \in Seq(Bytes), m.command \in Seq(CommandByte)
    PROVE  CircuitSignals(m) =
               Joined(FieldsOf(Pad(m.domain, DOMAIN_BYTES), DOMAIN_FIELDS), MailFacts(m),
                      FieldsOf(masked_command_bytes(m.command), COMMAND_FIELDS), MailEnd(m))
<1> DEFINE masked == masked_command_bytes(m.command)
  domain == Pad(m.domain, DOMAIN_BYTES)
<1>1. Len(masked) = COMMAND_BYTES
  BY MaskedIsSigned
<1>2. Len(domain) = DOMAIN_BYTES
  <2>1. DOMAIN_BYTES \in Nat
    BY Sizes
  <2> QED BY <2>1, PadIsBytes
<1> HIDE DEF masked, domain
<1>3. Bytes2Ints(domain) = FieldsOf(domain, DOMAIN_FIELDS)
  BY <1>2, FieldCounts, Zenon DEF Bytes2Ints, FieldsOf
<1>4. Bytes2Ints(masked) = FieldsOf(masked, COMMAND_FIELDS)
  BY <1>1, FieldCounts, Zenon DEF Bytes2Ints, FieldsOf
<1> QED BY <1>3, <1>4, Zenon
        DEF CircuitSignals, Joined, MailFacts, MailEnd, HasCode, masked, domain

LEMMA PubSignalsAre ==
    ASSUME NEW p, p.maskedCommand \in Seq(Bytes), Len(p.maskedCommand) <= COMMAND_BYTES
    PROVE  pubSignals(p) =
               Joined(FieldsOf(Cut(p.domainName, DOMAIN_BYTES), DOMAIN_FIELDS), ProofFacts(p),
                      FieldsOf(p.maskedCommand, COMMAND_FIELDS), ProofEnd(p))
<1>1. _packBytes2Fields(p.domainName, DOMAIN_BYTES) =
          FieldsOf(Cut(p.domainName, DOMAIN_BYTES), DOMAIN_FIELDS)
  BY FieldCounts, Zenon DEF _packBytes2Fields, FieldsOf, Cut
<1>2. _packBytes2Fields(p.maskedCommand, COMMAND_BYTES) =
          FieldsOf(p.maskedCommand, COMMAND_FIELDS)
  <2>1. ~ (Len(p.maskedCommand) > COMMAND_BYTES)
    BY Sizes
  <2> QED BY <2>1, FieldCounts, Zenon DEF _packBytes2Fields, FieldsOf
<1> QED BY <1>1, <1>2, Zenon DEF pubSignals, Joined, ProofFacts, ProofEnd

\* A proof that the contracts accept for an email has a command of the same fields as the
\* email's, whatever else it holds.
LEMMA AcceptedFields ==
    ASSUME NEW p, p.domainName \in Seq(Bytes), p.maskedCommand \in Seq(Bytes),
           NEW m, m.domain \in Seq(Bytes), m.command \in Seq(CommandByte), Accepted(p, m)
    PROVE  /\ Len(p.maskedCommand) <= COMMAND_BYTES
           /\ \A f \in 1..FieldsFor(COMMAND_BYTES) :
                  Field(p.maskedCommand, f) = Field(masked_command_bytes(m.command), f)
<1> DEFINE masked == masked_command_bytes(m.command)
  V == Nat \union {p.publicKeyHash, p.emailNullifier, p.timestamp, p.accountSalt,
                   m.publicKeyHash, m.nullifier, m.timestamp, m.accountSalt}
  a1 == FieldsOf(Cut(p.domainName, DOMAIN_BYTES), DOMAIN_FIELDS)
  a2 == FieldsOf(Pad(m.domain, DOMAIN_BYTES), DOMAIN_FIELDS)
  b1 == ProofFacts(p)
  b2 == MailFacts(m)
  c1 == FieldsOf(p.maskedCommand, COMMAND_FIELDS)
  c2 == FieldsOf(masked, COMMAND_FIELDS)
  d1 == ProofEnd(p)
  d2 == MailEnd(m)
<1>1. DOMAIN_BYTES \in Nat
  BY Sizes
<1>2. masked \in Seq(Signed)
  BY MaskedIsSigned
<1>3. Len(p.maskedCommand) <= COMMAND_BYTES
  BY DEF Accepted, LengthChecked
<1>4. Joined(a1, b1, c1, d1) = Joined(a2, b2, c2, d2)
  <2>1. pubSignals(p) = CircuitSignals(m)
    BY Zenon DEF Accepted
  <2> QED BY <1>3, <2>1, CircuitSignalsAre, PubSignalsAre, Zenon
<1>5. ASSUME NEW s \in Seq(Nat) PROVE s \in Seq(V)
  <2>1. Nat \subseteq V
    OBVIOUS
  <2> HIDE DEF V
  <2> QED BY <2>1, SeqOf
<1>6. a1 \in Seq(V) /\ a2 \in Seq(V) /\ Len(a1) = DOMAIN_FIELDS /\ Len(a2) = DOMAIN_FIELDS
  <2>1. Cut(p.domainName, DOMAIN_BYTES) \in Seq(Signed)
    BY <1>1, BytesAreSigned, CutIsBytes
  <2>2. Pad(m.domain, DOMAIN_BYTES) \in Seq(Signed)
    BY <1>1, BytesAreSigned, PadIsBytes
  <2> HIDE DEF V
  <2> QED BY <1>5, <2>1, <2>2, FieldCounts, FieldsOfAre
<1>7. c1 \in Seq(V) /\ c2 \in Seq(V) /\ Len(c1) = COMMAND_FIELDS /\ Len(c2) = COMMAND_FIELDS
  <2> HIDE DEF masked, V
  <2> QED BY <1>2, <1>5, BytesAreSigned, FieldCounts, FieldsOfAre
<1>8. b1 \in Seq(V) /\ b2 \in Seq(V) /\ Len(b1) = 3 /\ Len(b2) = 3
  BY DEF ProofFacts, MailFacts
<1>9. d1 \in Seq(V) /\ d2 \in Seq(V)
  BY DEF ProofEnd, MailEnd
<1>10. \A f \in 1..COMMAND_FIELDS : c1[f] = c2[f]
  <2> HIDE DEF a1, a2, b1, b2, c1, c2, d1, d2, V
  <2>1. AreSeqs(V, a1, b1, c1, d1) /\ AreSeqs(V, a2, b2, c2, d2)
    BY <1>6, <1>7, <1>8, <1>9 DEF AreSeqs
  <2>2. Len(a1) = Len(a2) /\ Len(b1) = Len(b2) /\ Len(c1) = Len(c2)
    BY <1>6, <1>7, <1>8
  <2>3. \A f \in 1..Len(c1) : c1[f] = c2[f]
    BY <1>4, <2>1, <2>2, ThirdPart
  <2> QED BY <1>7, <2>3
<1>11. \A f \in 1..COMMAND_FIELDS : Field(p.maskedCommand, f) = Field(masked, f)
  <2> HIDE DEF masked
  <2> QED BY <1>10 DEF FieldsOf
<1> QED BY <1>3, <1>11, FieldCounts

\* The bytes in equal fields are equal, and the length check leaves nothing that no field
\* holds: the proof holds the bytes that the circuit masked.
THEOREM AcceptedIsMasked ==
    ASSUME NEW p, p.domainName \in Seq(Bytes), p.maskedCommand \in Seq(Bytes),
           NEW m, m.domain \in Seq(Bytes), m.command \in Seq(CommandByte),
           \A i \in 1..Len(m.command) : m.command[i].part # "both",
           Accepted(p, m)
    PROVE  /\ Len(p.maskedCommand) <= COMMAND_BYTES
           /\ \A i \in 1..(COMMAND_BYTES + 1) :
                  PaddedByte(p.maskedCommand, i) =
                      PaddedByte(masked_command_bytes(m.command), i)
           /\ Pad(p.maskedCommand, COMMAND_BYTES + 1) =
                  Pad(masked_command_bytes(m.command), COMMAND_BYTES + 1)
<1> DEFINE masked == masked_command_bytes(m.command)
<1>1. DOMAIN_BYTES \in Nat \ {0} /\ COMMAND_BYTES \in Nat \ {0}
  BY SizeAssumption
<1>2. masked \in Seq(Bytes) /\ Len(masked) = COMMAND_BYTES
  BY MaskedIsBytes
<1>3. /\ Len(p.maskedCommand) <= COMMAND_BYTES
      /\ \A f \in 1..FieldsFor(COMMAND_BYTES) : Field(p.maskedCommand, f) = Field(masked, f)
  BY AcceptedFields
<1>4. \A i \in 1..COMMAND_BYTES : PaddedByte(p.maskedCommand, i) = PaddedByte(masked, i)
  <2> HIDE DEF masked
  <2> QED BY <1>1, <1>2, <1>3, PackingInjective
<1>5. ASSUME NEW i \in 1..(COMMAND_BYTES + 1)
       PROVE  PaddedByte(p.maskedCommand, i) = PaddedByte(masked, i)
  <2>1. CASE i \in 1..COMMAND_BYTES
    BY <1>4, <2>1
  <2>2. CASE i = COMMAND_BYTES + 1
    <3> HIDE DEF masked
    <3> QED BY <1>1, <1>2, <1>3, <2>2 DEF PaddedByte
  <2> QED BY <1>1, <2>1, <2>2
<1>6. ASSUME NEW t
       PROVE  Pad(t, COMMAND_BYTES + 1) = [i \in 1..(COMMAND_BYTES + 1) |-> PaddedByte(t, i)]
  BY Zenon DEF Pad, PaddedByte
<1> HIDE DEF masked
<1>7. [i \in 1..(COMMAND_BYTES + 1) |-> PaddedByte(p.maskedCommand, i)] =
           [i \in 1..(COMMAND_BYTES + 1) |-> PaddedByte(masked, i)]
  BY <1>5
<1>8. Pad(p.maskedCommand, COMMAND_BYTES + 1) = Pad(masked, COMMAND_BYTES + 1)
  BY <1>6, <1>7, Zenon
<1> QED BY <1>3, <1>5, <1>8 DEF masked

-------------------------------------------------------------------------------
\* What the relayer reads off the signals

\* get_masked_command goes through the fields of the command, up to the first zero.
Goes(kept, fields) ==
    /\ kept[0] = <<>>
    /\ \A f \in 0..Len(fields) : kept[f] \in Seq(Bytes \ {NUL})
    /\ \A f \in 1..Len(fields) :
           kept[f] = IF \E g \in 1..f : fields[g] = 0 THEN kept[f - 1]
                     ELSE kept[f - 1] \o WithoutNULs(BytesOf(fields[f]))

LEMMA CommandGoes ==
    ASSUME NEW signals, NEW start, NEW fields \in Seq(Nat),
           SubSeq(signals, start, start + COMMAND_FIELDS - 1) = fields
    PROVE  \E kept : /\ Goes(kept, fields)
                     /\ get_masked_command(signals, start) = kept[Len(fields)]
<1> DEFINE n == Len(fields)
  V == Seq(Bytes \ {NUL})
  zero(f) == \E g \in 1..f : fields[g] = 0
  word(f) == WithoutNULs(BytesOf(fields[f]))
  step == [p \in (1..n) \X V |-> IF zero(p[1]) THEN p[2] ELSE p[2] \o word(p[1])]
  Value(h) == [f \in 0..n |->
                  IF f = 0 THEN <<>>
                  ELSE IF \E g \in 1..f : fields[g] = 0 THEN h[f - 1]
                  ELSE h[f - 1] \o WithoutNULs(BytesOf(fields[f]))]
  kept == CHOOSE h : h = Value(h)
<1>1. n \in Nat /\ <<>> \in V
  OBVIOUS
<1>2. ASSUME NEW f \in 1..n PROVE word(f) \in V
  <2>1. fields[f] \in Nat
    BY ElementOfSeq, Zenon
  <2>2. BytesOf(fields[f]) \in Seq(Bytes)
    BY <2>1, BytesOfIsBytes
  <2> QED BY <2>2, WithoutNULsIn
<1>3. \A a, b \in V : a \o b \in V
  BY ConcatProperties
<1>4. step \in [(1..n) \X V -> V]
  <2>1. ASSUME NEW p \in (1..n) \X V
        PROVE  (IF zero(p[1]) THEN p[2] ELSE p[2] \o word(p[1])) \in V
    <3>1. p[1] \in 1..n /\ p[2] \in V
      OBVIOUS
    <3> HIDE DEF V, n, word, zero
    <3> QED BY <1>2, <1>3, <3>1
  <2> HIDE DEF V, n, word, zero
  <2> QED BY <2>1
<1>5. PICK g : RunOf(g, n, V, <<>>, step)
  <2> HIDE DEF step, n, V
  <2> QED BY <1>1, <1>4, Recursion
<1>6. g \in [0..n -> V] /\ g[0] = <<>>
  BY <1>5 DEF RunOf
<1>7. ASSUME NEW f \in 1..n
      PROVE  g[f] = IF zero(f) THEN g[f - 1] ELSE g[f - 1] \o word(f)
  <2>1. f - 1 \in 0..n
    BY <1>1
  <2>2. g[f] = step[<<f, g[f - 1]>>] /\ <<f, g[f - 1]>> \in (1..n) \X V
    BY <1>5, <1>6, <2>1 DEF RunOf
  <2> HIDE DEF n, V, zero, word
  <2> QED BY <2>2
<1>8. g = Value(g)
  <2>1. ASSUME NEW f \in 0..n PROVE g[f] = Value(g)[f]
    <3>1. CASE f = 0
      BY <1>6, <3>1
    <3>2. CASE f # 0
      <4>1. f \in 1..n
        BY <1>1, <3>2
      <4>2. Value(g)[f] = IF zero(f) THEN g[f - 1] ELSE g[f - 1] \o word(f)
        BY <3>2
      <4> HIDE DEF n, V, zero, word
      <4> QED BY <1>7, <4>1, <4>2
    <3> QED BY <3>1, <3>2
  <2>2. g = [f \in 0..n |-> g[f]] /\ Value(g) = [f \in 0..n |-> Value(g)[f]]
    BY <1>6
  <2>3. [f \in 0..n |-> g[f]] = [f \in 0..n |-> Value(g)[f]]
    BY <2>1
  <2> QED BY <2>2, <2>3, Zenon
<1>9. kept = Value(kept)
  BY <1>8
<1>10. get_masked_command(signals, start) = kept[n]
  BY Zenon DEF get_masked_command
<1> HIDE DEF kept
<1>11. kept[0] = <<>>
  BY <1>1, <1>9
<1>12. ASSUME NEW f \in 1..n
       PROVE  kept[f] = IF zero(f) THEN kept[f - 1] ELSE kept[f - 1] \o word(f)
  <2>1. kept[f] = Value(kept)[f]
    BY <1>9
  <2> QED BY <1>1, <2>1
<1> DEFINE T == {f \in Nat : f <= n => kept[f] \in V}
<1>13. T = Nat
  <2>1. 0 \in T
    BY <1>1, <1>11
  <2>2. ASSUME NEW f \in T PROVE f + 1 \in T
    <3> SUFFICES ASSUME f + 1 <= n PROVE kept[f + 1] \in V
      BY <2>2
    <3>1. f + 1 \in 1..n /\ (f + 1) - 1 = f /\ kept[f] \in V
      BY <1>1, <2>2
    <3>2. kept[f + 1] = IF zero(f + 1) THEN kept[f] ELSE kept[f] \o word(f + 1)
      BY <1>12, <3>1
    <3>3. word(f + 1) \in V
      BY <1>2, <3>1
    <3> HIDE DEF V, zero, word
    <3> QED BY <1>3, <3>1, <3>2, <3>3
  <2> HIDE DEF T
  <2>3. T \in SUBSET Nat
    BY DEF T
  <2> QED BY <2>1, <2>2, <2>3, Induction
<1>14. ASSUME NEW f \in 0..n PROVE kept[f] \in V
  <2>1. f \in Nat /\ f <= n
    BY <1>1
  <2>2. f \in T
    <3> HIDE DEF T
    <3> QED BY <1>13, <2>1
  <2> QED BY <2>1, <2>2
<1>15. Goes(kept, fields)
  BY <1>11, <1>12, <1>14 DEF Goes
<1> QED BY <1>10, <1>15

\* It reads a command back whose NULs are all at the end.
LEMMA CommandReadsBack ==
    ASSUME NEW signals, NEW start, NEW masked \in Seq(Bytes), Len(masked) = COMMAND_BYTES,
           SubSeq(signals, start, start + COMMAND_FIELDS - 1) =
               [f \in 1..COMMAND_FIELDS |-> Field(masked, f)],
           NEW m \in 0..COMMAND_BYTES,
           \A i \in 1..m : masked[i] # NUL,
           \A i \in (m + 1)..COMMAND_BYTES : masked[i] = NUL
    PROVE  /\ get_masked_command(signals, start) \in Seq(Bytes \ {NUL})
           /\ Len(get_masked_command(signals, start)) = m
           /\ \A i \in 1..m : get_masked_command(signals, start)[i] = masked[i]
<1> DEFINE n == FieldBytes
  C == COMMAND_FIELDS
  fields == [f \in 1..C |-> Field(masked, f)]
<1>1. n \in Nat \ {0} /\ COMMAND_BYTES \in Nat \ {0} /\ m \in Nat
  BY Sizes
<1>2. C \in Nat /\ COMMAND_BYTES <= C * n
  <2>1. PICK f \in 1..FieldsFor(COMMAND_BYTES), j \in 1..FieldBytes : Index(f, j) = COMMAND_BYTES
    BY <1>1, FieldsCover
  <2>2. C \in Nat /\ C = FieldsFor(COMMAND_BYTES)
    <3>1. 1 \in 1..COMMAND_BYTES
      BY <1>1
    <3> QED BY <1>1, <3>1, FieldsCover DEF COMMAND_FIELDS
  <2> HIDE DEF C
  <2>3. (f - 1) * n + n <= C * n
    <3>1. (f - 1) * n + n = f * n /\ f * n <= C * n
      BY <1>1, <2>2
    <3> QED BY <3>1
  <2>4. (f - 1) * n \in Nat /\ C * n \in Nat
    BY <1>1, <2>2
  <2> QED BY <1>1, <2>1, <2>2, <2>3, <2>4 DEF Index
<1>3. fields \in Seq(Nat) /\ Len(fields) = C
  <2> HIDE DEF C
  <2> QED BY <1>2, BytesAreSigned, PackedFields
<1>4. PICK kept : /\ Goes(kept, fields)
                  /\ get_masked_command(signals, start) = kept[Len(fields)]
  <2>1. SubSeq(signals, start, start + COMMAND_FIELDS - 1) = fields
    OBVIOUS
  <2> HIDE DEF fields, C, n
  <2> QED BY <1>3, <2>1, CommandGoes
<1>5. ASSUME NEW i \in Nat \ {0}
      PROVE  PaddedByte(masked, i) = NUL <=> i > m
  BY <1>1 DEF PaddedByte
<1>6. ASSUME NEW f \in 1..C
      PROVE  /\ BytesOf(fields[f]) \in Seq(Bytes) /\ Len(BytesOf(fields[f])) = n + 1
             /\ \A j \in 1..n : BytesOf(fields[f])[j] = PaddedByte(masked, Index(f, j))
             /\ BytesOf(fields[f])[n + 1] = NUL
  <2>1. fields[f] = Field(masked, f) /\ f \in Nat \ {0}
    BY <1>2
  <2> HIDE DEF fields, C
  <2> QED BY <2>1, FieldUnpacks, BytesOfIsBytes
<1>7. ASSUME NEW f \in 1..C, NEW q \in 0..n,
             \A j \in 1..n : Index(f, j) <= m <=> j <= q
      PROVE  /\ WithoutNULs(BytesOf(fields[f])) \in Seq(Bytes \ {NUL})
             /\ Len(WithoutNULs(BytesOf(fields[f]))) = q
             /\ \A j \in 1..q : WithoutNULs(BytesOf(fields[f]))[j] = masked[Index(f, j)]
  <2> DEFINE b == BytesOf(fields[f])
  <2>1. ASSUME NEW j \in 1..n PROVE /\ b[j] = NUL <=> j > q
                                    /\ j <= q => b[j] = masked[Index(f, j)]
    <3>1. Index(f, j) \in Nat \ {0}
      BY <1>2, IndexPositive
    <3>2. b[j] = PaddedByte(masked, Index(f, j))
      BY <1>6
    <3>3. Index(f, j) <= m <=> j <= q
      BY <1>7
    <3>4. j <= q => PaddedByte(masked, Index(f, j)) = masked[Index(f, j)]
      BY <1>1, <3>1, <3>3 DEF PaddedByte
    <3> HIDE DEF b
    <3> QED BY <1>1, <1>5, <3>1, <3>2, <3>3, <3>4
  <2>2. b \in Seq(Bytes) /\ Len(b) = n + 1 /\ b[n + 1] = NUL
    BY <1>6
  <2> HIDE DEF b, n, fields, C
  <2>3. \A j \in 1..q : b[j] # NUL
    BY <1>1, <2>1
  <2>4. \A j \in (q + 1)..Len(b) : b[j] = NUL
    BY <1>1, <2>1, <2>2
  <2>5. q \in 0..Len(b)
    BY <1>1, <2>2
  <2>6. /\ WithoutNULs(b) \in Seq(Bytes \ {NUL}) /\ Len(WithoutNULs(b)) = q
        /\ \A j \in 1..q : WithoutNULs(b)[j] = b[j]
    <3>1. PICK s : s = b
      OBVIOUS
    <3>2. s \in Seq(Bytes) /\ q \in 0..Len(s)
      BY <2>2, <2>5, <3>1
    <3>3. (\A j \in 1..q : s[j] # NUL) /\ \A j \in (q + 1)..Len(s) : s[j] = NUL
      BY <2>3, <2>4, <3>1
    <3>4. /\ WithoutNULs(s) \in Seq(Bytes \ {NUL}) /\ Len(WithoutNULs(s)) = q
          /\ \A j \in 1..q : WithoutNULs(s)[j] = s[j]
      BY <3>2, <3>3, WithoutNULsPrefix
    <3> QED BY <3>1, <3>4
  <2>7. \A j \in 1..q : b[j] = masked[Index(f, j)]
    BY <1>1, <2>1
  <2> QED BY <2>6, <2>7 DEF b
<1>8. ASSUME NEW f \in 1..C, (f - 1) * n < m PROVE ~ \E g \in 1..f : fields[g] = 0
  <2> SUFFICES ASSUME NEW g \in 1..f, fields[g] = 0 PROVE FALSE
    OBVIOUS
  <2>1. g \in 1..C /\ 1 \in 1..n
    BY <1>1, <1>2
  <2>2. Index(g, 1) \in Nat \ {0} /\ Index(g, 1) <= m
    <3>1. (g - 1) * n <= (f - 1) * n /\ (g - 1) * n \in Nat /\ (f - 1) * n \in Nat
      BY <1>1, <1>2, <2>1
    <3> QED BY <1>1, <1>8, <3>1 DEF Index
  <2>3. BytesOf(fields[g])[1] # NUL
    <3>1. BytesOf(fields[g])[1] = PaddedByte(masked, Index(g, 1))
      BY <1>6, <2>1
    <3>2. ~ (Index(g, 1) > m)
      BY <1>1, <2>2
    <3> QED BY <1>5, <2>2, <3>1, <3>2
  <2>4. BytesOf(0)[1] = NUL
    <3>1. Power[0] = 1 /\ 1 \in 1..(FieldBytes + 1) /\ 1 - 1 = 0
      BY <1>1, PowerCorrect
    <3>2. BytesOf(0)[1] = (0 \div Power[0]) % Base
      BY <3>1 DEF BytesOf
    <3>3. (0 \div 1) % Base = 0
      BY Sizes
    <3> QED BY <3>1, <3>2, <3>3 DEF NUL
  <2> QED BY <2>3, <2>4
<1> DEFINE S == {f \in Nat : f <= C =>
                    /\ Len(kept[f]) = IF f * n <= m THEN f * n ELSE m
                    /\ \A i \in 1..m : i <= f * n => kept[f][i] = masked[i]}
<1> HIDE DEF fields, C
<1>9. S = Nat
  <2>1. 0 \in S
    <3>1. 0 * n = 0 /\ 0 <= m
      BY <1>1
    <3> QED BY <1>1, <1>4, <3>1 DEF Goes
  <2>2. ASSUME NEW k \in S PROVE k + 1 \in S
    <3> DEFINE f == k + 1
      base == k * n
      q == IF base + n <= m THEN n ELSE IF base <= m THEN m - base ELSE 0
      w == WithoutNULs(BytesOf(fields[f]))
    <3> SUFFICES ASSUME f <= C
                 PROVE  /\ Len(kept[f]) = IF f * n <= m THEN f * n ELSE m
                        /\ \A i \in 1..m : i <= f * n => kept[f][i] = masked[i]
      BY <2>2
    <3>1. k \in Nat /\ k <= C /\ f \in 1..C /\ f - 1 = k /\ k \in 0..C
      BY <1>2, <2>2
    <3>2. base \in Nat /\ f * n = base + n /\ q \in 0..n
      BY <1>1, <3>1
    <3>3. /\ Len(kept[k]) = IF base <= m THEN base ELSE m
          /\ \A i \in 1..m : i <= base => kept[k][i] = masked[i]
      BY <2>2, <3>1
    <3>4. \A j \in 1..n : Index(f, j) = base + j
      BY <3>1 DEF Index
    <3> HIDE DEF f, base
    <3>5. \A j \in 1..n : Index(f, j) <= m <=> j <= q
      BY <1>1, <3>2, <3>4
    <3>6. /\ w \in Seq(Bytes \ {NUL}) /\ Len(w) = q
          /\ \A j \in 1..q : w[j] = masked[Index(f, j)]
      <4> HIDE DEF q, n
      <4> QED BY <1>7, <3>1, <3>2, <3>5
    <3>7. kept[f] = IF \E g \in 1..f : fields[g] = 0 THEN kept[k] ELSE kept[k] \o w
      BY <1>3, <1>4, <3>1 DEF Goes
    <3>8. kept[k] \in Seq(Bytes \ {NUL})
      BY <1>3, <1>4, <3>1 DEF Goes
    <3> HIDE DEF w
    <3>9. CASE base < m
      <4>1. kept[f] = kept[k] \o w
        BY <1>8, <3>1, <3>7, <3>9 DEF base
      <4>2. Len(kept[k]) = base
        BY <1>1, <3>2, <3>3, <3>9
      <4>3. /\ Len(kept[f]) = base + q
            /\ \A i \in 1..(base + q) : kept[f][i] = IF i <= base THEN kept[k][i] ELSE w[i - base]
        <5>1. Len(w) = q /\ w \in Seq(Bytes \ {NUL})
          BY <3>6
        <5> HIDE DEF q, C, n, S
        <5>2. PICK s, x, y : s = kept[k] /\ x = w /\ y = q
          OBVIOUS
        <5>3. /\ Len(s \o x) = base + y
              /\ \A i \in 1..(base + y) : (s \o x)[i] = IF i <= base THEN s[i] ELSE x[i - base]
          BY <3>8, <4>2, <5>1, <5>2, ConcatIs
        <5> QED BY <4>1, <5>2, <5>3
      <4>4. base + q = IF f * n <= m THEN f * n ELSE m
        BY <1>1, <3>2, <3>9
      <4>5. ASSUME NEW i \in 1..m, i <= f * n PROVE kept[f][i] = masked[i]
        <5>1. i \in 1..(base + q)
          BY <1>1, <3>2, <4>4, <4>5
        <5>2. CASE i <= base
          BY <3>3, <4>3, <5>1, <5>2
        <5>3. CASE ~ (i <= base)
          <6>1. i - base \in 1..q /\ i - base \in 1..n /\ base + (i - base) = i
            BY <1>1, <3>2, <5>1, <5>3
          <6>2. w[i - base] = masked[Index(f, i - base)] /\ Index(f, i - base) = base + (i - base)
            <7> HIDE DEF q, n
            <7> QED BY <3>4, <3>6, <6>1
          <6>3. kept[f][i] = w[i - base]
            BY <4>3, <5>1, <5>3
          <6> QED BY <6>1, <6>2, <6>3
        <5> QED BY <5>2, <5>3
      <4> QED BY <4>3, <4>4, <4>5
    <3>10. CASE ~ (base < m)
      <4>1. q = 0 /\ Len(kept[k]) = m /\ \A i \in 1..m : kept[k][i] = masked[i]
        BY <1>1, <3>2, <3>3, <3>10
      <4>2. kept[f] = kept[k]
        <5>1. w = <<>>
          BY <3>6, <4>1
        <5>2. kept[k] \o <<>> = kept[k]
          BY <3>8, ConcatEmptySeq
        <5> QED BY <3>7, <5>1, <5>2
      <4>3. f * n > m
        BY <1>1, <3>2, <3>10
      <4> QED BY <1>1, <3>2, <4>1, <4>2, <4>3
    <3> QED BY <3>9, <3>10
  <2> HIDE DEF S
  <2>3. S \in SUBSET Nat
    BY DEF S
  <2> QED BY <2>1, <2>2, <2>3, Induction
<1>10. C \in S
  <2> HIDE DEF S
  <2> QED BY <1>2, <1>9
<1>11. /\ Len(kept[C]) = IF C * n <= m THEN C * n ELSE m
       /\ \A i \in 1..m : i <= C * n => kept[C][i] = masked[i]
  BY <1>2, <1>10
<1>12. m <= C * n /\ C * n \in Nat
  BY <1>1, <1>2
<1>13. get_masked_command(signals, start) = kept[C] /\ kept[C] \in Seq(Bytes \ {NUL})
  BY <1>2, <1>3, <1>4 DEF Goes
<1>14. Len(kept[C]) = m /\ \A i \in 1..m : kept[C][i] = masked[i]
  <2> HIDE DEF n, S
  <2> QED BY <1>1, <1>11, <1>12
<1> QED BY <1>13, <1>14

-------------------------------------------------------------------------------
\* The proof that the relayer returns

IsMail(m) ==
    m \in [ domain : Seq(Bytes), publicKeyHash : Nat, nullifier : Nat, timestamp : Nat,
            command : Seq(CommandByte), accountSalt : Nat ]

\* The relayer reads each value where the circuit puts it.
LEMMA EmailProofIs ==
    ASSUME NEW m, IsMail(m)
    PROVE  /\ email_proof(m).domainName = m.domain
           /\ ProofFacts(email_proof(m)) = MailFacts(m)
           /\ email_proof(m).maskedCommand =
                  get_masked_command(CircuitSignals(m), DOMAIN_FIELDS + 4)
           /\ SubSeq(CircuitSignals(m), DOMAIN_FIELDS + 4, DOMAIN_FIELDS + 4 + COMMAND_FIELDS - 1) =
                  FieldsOf(masked_command_bytes(m.command), COMMAND_FIELDS)
           /\ ProofEnd(email_proof(m)) = MailEnd(m)
<1>1. PICK a, b, c, d, D, C, s :
          /\ a = FieldsOf(Pad(m.domain, DOMAIN_BYTES), DOMAIN_FIELDS)
          /\ b = MailFacts(m)
          /\ c = FieldsOf(masked_command_bytes(m.command), COMMAND_FIELDS)
          /\ d = MailEnd(m)
          /\ D = DOMAIN_FIELDS /\ C = COMMAND_FIELDS
          /\ s = CircuitSignals(m)
  OBVIOUS
<1>2. /\ m.domain \in Seq(Bytes) /\ m.command \in Seq(CommandByte)
      /\ m.publicKeyHash \in Nat /\ m.nullifier \in Nat /\ m.timestamp \in Nat
      /\ m.accountSalt \in Nat
  BY DEF IsMail
<1>3. D \in Nat /\ C \in Nat /\ DOMAIN_BYTES \in Nat
  BY <1>1, FieldCounts, Sizes
<1>4. a \in Seq(Nat) /\ Len(a) = D
  BY <1>1, <1>2, <1>3, BytesAreSigned, FieldsOfAre, PadIsBytes
<1>5. b \in Seq(Nat) /\ Len(b) = 3 /\ d \in Seq(Nat) /\ Len(d) = 2
  BY <1>1, <1>2 DEF MailFacts, MailEnd
<1>6. c \in Seq(Nat) /\ Len(c) = C
  BY <1>1, <1>2, <1>3, FieldsOfAre, MaskedIsSigned
<1>7. s = Joined(a, b, c, d)
  BY <1>1, <1>2, CircuitSignalsAre, Zenon
<1>8. /\ s \in Seq(Nat) /\ Len(s) = D + 3 + C + 2
      /\ \A f \in 1..3 : s[D + f] = b[f]
      /\ \A f \in 1..C : s[D + 3 + f] = c[f]
      /\ \A f \in 1..2 : s[D + 3 + C + f] = d[f]
  <2>1. AreSeqs(Nat, a, b, c, d)
    BY <1>4, <1>5, <1>6 DEF AreSeqs
  <2>2. /\ s \in Seq(Nat) /\ Len(s) = Len(a) + Len(b) + Len(c) + Len(d)
        /\ \A f \in 1..Len(b) : s[Len(a) + f] = b[f]
        /\ \A f \in 1..Len(c) : s[Len(a) + Len(b) + f] = c[f]
        /\ \A f \in 1..Len(d) : s[Len(a) + Len(b) + Len(c) + f] = d[f]
    <3>1. /\ Joined(a, b, c, d) \in Seq(Nat)
          /\ Len(Joined(a, b, c, d)) = Len(a) + Len(b) + Len(c) + Len(d)
          /\ \A f \in 1..Len(b) : Joined(a, b, c, d)[Len(a) + f] = b[f]
          /\ \A f \in 1..Len(c) : Joined(a, b, c, d)[Len(a) + Len(b) + f] = c[f]
          /\ \A f \in 1..Len(d) : Joined(a, b, c, d)[Len(a) + Len(b) + Len(c) + f] = d[f]
      BY <2>1, InParts
    <3> QED BY <1>7, <3>1
  <2> QED BY <1>4, <1>5, <1>6, <2>2
<1>9. s[D + 1] = b[1] /\ s[D + 2] = b[2] /\ s[D + 3] = b[3]
  BY <1>8
<1>10. s[C + D + 4] = d[1] /\ s[C + D + 5] = d[2]
  <2>1. C + D + 4 = D + 3 + C + 1 /\ C + D + 5 = D + 3 + C + 2
    BY <1>3
  <2> QED BY <1>8, <2>1
<1>11. /\ b[1] = m.publicKeyHash /\ b[2] = m.nullifier /\ b[3] = m.timestamp
       /\ d[1] = m.accountSalt /\ d[2] = IF HasCode(m) THEN 1 ELSE 0
  BY <1>1 DEF MailFacts, MailEnd
<1>12. /\ email_proof(m).domainName = m.domain
       /\ email_proof(m).publicKeyHash = s[D + 1]
       /\ email_proof(m).emailNullifier = s[D + 2]
       /\ email_proof(m).timestamp = s[D + 3]
       /\ email_proof(m).maskedCommand = get_masked_command(s, D + 4)
       /\ email_proof(m).accountSalt = s[C + D + 4]
       /\ email_proof(m).isCodeExist = (s[C + D + 5] = 1)
  BY <1>1 DEF email_proof
<1>13. ProofFacts(email_proof(m)) = MailFacts(m)
  BY <1>9, <1>11, <1>12 DEF ProofFacts, MailFacts
<1>14. ProofEnd(email_proof(m)) = MailEnd(m)
  BY <1>10, <1>11, <1>12 DEF ProofEnd, MailEnd
<1>15. SubSeq(s, D + 4, D + 4 + C - 1) = c
  <2>1. PICK first, last : first = D + 4 /\ last = D + 4 + C - 1
    OBVIOUS
  <2>2. /\ first \in Int /\ last \in Int /\ last - first + 1 = C
        /\ first \in Nat \ {0} /\ last <= Len(s) /\ Len(s) \in Nat
    <3>1. Len(s) = D + 3 + C + 2
      BY <1>8
    <3> QED BY <1>3, <2>1, <3>1
  <2>3. \A i \in first..last : s[i] \in Nat
    BY <1>8, <2>2
  <2>4. /\ SubSeq(s, first, last) \in Seq(Nat)
        /\ Len(SubSeq(s, first, last)) = IF first <= last THEN last - first + 1 ELSE 0
        /\ \A i \in 1..(last - first + 1) : SubSeq(s, first, last)[i] = s[first + i - 1]
    BY <2>2, <2>3, SubSeqProperties
  <2>5. Len(SubSeq(s, first, last)) = C
    BY <1>3, <2>2, <2>4
  <2>6. ASSUME NEW f \in 1..C PROVE SubSeq(s, first, last)[f] = c[f]
    <3>1. first + f - 1 = D + 3 + f
      BY <1>3, <2>1
    <3> QED BY <1>8, <2>2, <2>4, <3>1
  <2>7. SubSeq(s, first, last) = c
    BY <1>6, <2>4, <2>5, <2>6
  <2> QED BY <2>1, <2>7, Zenon
<1> QED BY <1>1, <1>12, <1>13, <1>14, <1>15

\* The domain, which the relayer takes from the email itself, packs as the circuit's does.
LEMMA DomainFieldsSame ==
    ASSUME NEW domain \in Seq(Bytes)
    PROVE  FieldsOf(Cut(domain, DOMAIN_BYTES), DOMAIN_FIELDS) =
               FieldsOf(Pad(domain, DOMAIN_BYTES), DOMAIN_FIELDS)
<1>1. DOMAIN_BYTES \in Nat \ {0} /\ DOMAIN_FIELDS \in Nat /\ FieldBytes \in Nat
  BY FieldCounts, Sizes
<1>2. PICK a, b : a = Cut(domain, DOMAIN_BYTES) /\ b = Pad(domain, DOMAIN_BYTES)
  OBVIOUS
<1>3. a \in Seq(Bytes) /\ b \in Seq(Bytes) /\ Len(b) = DOMAIN_BYTES
  BY <1>1, <1>2, CutIsBytes, PadIsBytes
<1>4. ASSUME NEW i \in Nat \ {0} PROVE PaddedByte(a, i) = PaddedByte(b, i)
  <2>1. CASE i <= DOMAIN_BYTES
    <3>1. PaddedByte(b, i) = PaddedByte(domain, i)
      BY <1>1, <1>2, <1>3, <2>1 DEF Pad, PaddedByte
    <3>2. PaddedByte(a, i) = PaddedByte(domain, i)
      BY <1>1, <1>2, <2>1 DEF Cut, PaddedByte
    <3> QED BY <3>1, <3>2
  <2>2. CASE ~ (i <= DOMAIN_BYTES)
    <3>1. Len(a) <= DOMAIN_BYTES /\ Len(a) \in Nat
      BY <1>1, <1>2 DEF Cut
    <3> QED BY <1>1, <1>3, <2>2, <3>1 DEF PaddedByte
  <2> QED BY <2>1, <2>2
<1>5. ASSUME NEW f \in 1..DOMAIN_FIELDS PROVE Field(a, f) = Field(b, f)
  <2>1. f \in Nat \ {0} /\ a \in Seq(Signed) /\ b \in Seq(Signed)
    BY <1>1, <1>3, BytesAreSigned
  <2>2. \A j \in 1..FieldBytes : PaddedByte(a, Index(f, j)) = PaddedByte(b, Index(f, j))
    BY <1>4, <2>1, IndexPositive
  <2> QED BY <2>1, <2>2, FieldSame
<1> QED BY <1>2, <1>5 DEF FieldsOf

\* The contracts take the relayer's proof where its command packs as the email's does.
LEMMA ProofAccepted ==
    ASSUME NEW m, IsMail(m), NEW t, t = email_proof(m).maskedCommand, t \in Seq(Bytes),
           Len(t) <= COMMAND_BYTES,
           \A i \in Nat \ {0} : PaddedByte(t, i) = PaddedByte(masked_command_bytes(m.command), i)
    PROVE  Accepted(email_proof(m), m)
<1>1. PICK p, masked : p = email_proof(m) /\ masked = masked_command_bytes(m.command)
  OBVIOUS
<1>2. m.domain \in Seq(Bytes) /\ m.command \in Seq(CommandByte)
  BY DEF IsMail
<1>3. masked \in Seq(Signed) /\ t \in Seq(Signed)
  BY <1>1, <1>2, BytesAreSigned, MaskedIsSigned
<1>4. ASSUME NEW f \in 1..COMMAND_FIELDS PROVE Field(t, f) = Field(masked, f)
  <2>1. f \in Nat \ {0}
    BY FieldCounts
  <2>2. \A j \in 1..FieldBytes : PaddedByte(t, Index(f, j)) = PaddedByte(masked, Index(f, j))
    BY <1>1, <2>1, IndexPositive
  <2> QED BY <1>3, <2>1, <2>2, FieldSame
<1>5. FieldsOf(t, COMMAND_FIELDS) = FieldsOf(masked, COMMAND_FIELDS)
  BY <1>4 DEF FieldsOf
<1>6. pubSignals(p) =
          Joined(FieldsOf(Cut(m.domain, DOMAIN_BYTES), DOMAIN_FIELDS), MailFacts(m),
                 FieldsOf(t, COMMAND_FIELDS), MailEnd(m))
  <2>1. /\ p.maskedCommand = t /\ p.domainName = m.domain
        /\ ProofFacts(p) = MailFacts(m) /\ ProofEnd(p) = MailEnd(m)
    BY <1>1, EmailProofIs
  <2>2. p.maskedCommand \in Seq(Bytes) /\ Len(p.maskedCommand) <= COMMAND_BYTES
    BY <2>1
  <2>3. pubSignals(p) =
            Joined(FieldsOf(Cut(p.domainName, DOMAIN_BYTES), DOMAIN_FIELDS), ProofFacts(p),
                   FieldsOf(p.maskedCommand, COMMAND_FIELDS), ProofEnd(p))
    BY <2>2, PubSignalsAre
  <2> QED BY <2>1, <2>3, Zenon
<1>7. CircuitSignals(m) =
          Joined(FieldsOf(Pad(m.domain, DOMAIN_BYTES), DOMAIN_FIELDS), MailFacts(m),
                 FieldsOf(masked, COMMAND_FIELDS), MailEnd(m))
  BY <1>1, <1>2, CircuitSignalsAre, Zenon
<1>8. pubSignals(p) = CircuitSignals(m)
  BY <1>2, <1>5, <1>6, <1>7, DomainFieldsSame, Zenon
<1>9. LengthChecked(p.maskedCommand)
  BY <1>1 DEF LengthChecked
<1> QED BY <1>1, <1>8, <1>9, Zenon DEF Accepted

-------------------------------------------------------------------------------
\* Which proofs verify

\* A command as an email has it: no byte of it is a NUL, nor one that no text holds, and an
\* address that began inside the code goes on or behind it.
IsCommand(c) ==
    /\ c \in Seq(CommandByte) /\ Len(c) <= COMMAND_BYTES
    /\ \A i \in 1..Len(c) : c[i].byte \notin {NUL, NotInUTF8}
    /\ \A i \in 1..Len(c) :
           c[i].part = "both" /\ i < Len(c) => c[i + 1].part \in {"both", "address"}

LEMMA MaskedByteIs ==
    ASSUME NEW c \in Seq(CommandByte), Len(c) <= COMMAND_BYTES, NEW i \in Nat \ {0}
    PROVE  /\ i > Len(c) => PaddedByte(masked_command_bytes(c), i) = NUL
           /\ i <= Len(c) =>
                  PaddedByte(masked_command_bytes(c), i) =
                      CASE c[i].part = "plain" -> c[i].byte
                        [] c[i].part = "both"  -> -(c[i].byte)
                        [] OTHER               -> NUL
<1>1. COMMAND_BYTES \in Nat /\ Len(c) \in Nat
  BY Sizes
<1>2. Len(masked_command_bytes(c)) = COMMAND_BYTES
  BY MaskedIsSigned
<1>3. CASE i > COMMAND_BYTES
  BY <1>1, <1>2, <1>3 DEF PaddedByte
<1>4. CASE i <= COMMAND_BYTES
  <2>1. PaddedByte(masked_command_bytes(c), i) = masked_command_bytes(c)[i]
    BY <1>2, <1>4 DEF PaddedByte
  <2>2. i \in 1..COMMAND_BYTES
    BY <1>1, <1>4
  <2>3. CASE i > Len(c)
    BY <2>1, <2>2, <2>3 DEF masked_command_bytes
  <2>4. CASE ~ (i > Len(c))
    BY <2>1, <2>2, <2>4 DEF masked_command_bytes
  <2> QED BY <1>1, <2>3, <2>4
<1> QED BY <1>1, <1>3, <1>4

\* What is masked twice leaves a negative byte and, behind the last one, a NUL: the text
\* would have to hold a byte that no text holds.
LEMMA NothingMaskedTwice ==
    ASSUME NEW p, p.domainName \in Seq(Bytes), p.maskedCommand \in Seq(Bytes),
           NEW m, m.domain \in Seq(Bytes), IsCommand(m.command),
           m.command # <<>> => m.command[Len(m.command)].part # "both",
           Accepted(p, m), IsText(p.maskedCommand)
    PROVE  \A i \in 1..Len(m.command) : m.command[i].part # "both"
<1>1. PICK c, t, masked : /\ c = m.command /\ t = p.maskedCommand
                          /\ masked = masked_command_bytes(m.command)
  OBVIOUS
<1>2. /\ c \in Seq(CommandByte) /\ Len(c) \in Nat /\ Len(c) <= COMMAND_BYTES
      /\ COMMAND_BYTES \in Nat \ {0} /\ t \in Seq(Bytes) /\ masked \in Seq(Signed)
  BY <1>1, MaskedIsSigned, Sizes DEF IsCommand
<1> DEFINE S == {n \in Nat : n < Len(c) /\ c[Len(c) - n].part = "both"}
<1> SUFFICES ASSUME NEW i \in 1..Len(c), c[i].part = "both" PROVE FALSE
  BY <1>1
<1>3. PICK n \in S : \A k \in S : n <= k
  <2>1. Len(c) - i \in Nat /\ Len(c) - i < Len(c) /\ Len(c) - (Len(c) - i) = i
    BY <1>2
  <2>2. Len(c) - i \in S
    BY <2>1
  <2>3. S \in SUBSET Nat
    OBVIOUS
  <2> HIDE DEF S
  <2> QED BY <2>2, <2>3, LeastNatural
<1> DEFINE e == Len(c) - n
<1>4. n \in Nat /\ e \in 1..Len(c) /\ c[e].part = "both"
  BY <1>2
<1>5. e # Len(c)
  <2>1. Len(c) # 0
    BY <1>2
  <2>2. c # <<>>
    BY <1>2, <2>1
  <2> HIDE DEF e
  <2> QED BY <1>1, <1>4, <2>2
<1>6. n # 0
  BY <1>2, <1>5
<1> HIDE DEF e
<1>7. e < Len(c) /\ e + 1 \in 1..Len(c) /\ e \in Nat \ {0} /\ e + 1 \in Nat \ {0}
  BY <1>2, <1>4, <1>5
<1>8. c[e + 1].part = "address"
  <2>1. c[e + 1].part \in {"both", "address"}
    BY <1>1, <1>4, <1>7 DEF IsCommand
  <2>2. c[e + 1].part # "both"
    <3> SUFFICES ASSUME c[e + 1].part = "both" PROVE FALSE
      OBVIOUS
    <3>1. n - 1 \in Nat /\ n - 1 < Len(c) /\ Len(c) - (n - 1) = e + 1
      BY <1>2, <1>4, <1>6 DEF e
    <3>2. n - 1 \in S
      BY <3>1
    <3>3. n <= n - 1
      <4> HIDE DEF S
      <4> QED BY <1>3, <3>2
    <3> QED BY <1>4, <3>3
  <2> QED BY <2>1, <2>2
<1>9. PaddedByte(masked, e) = -(c[e].byte) /\ PaddedByte(masked, e + 1) = NUL
  <2>1. e <= Len(c) /\ e + 1 <= Len(c)
    BY <1>2, <1>7
  <2> QED BY <1>1, <1>2, <1>4, <1>7, <1>8, <2>1, MaskedByteIs
<1>10. PaddedByte(masked, e) < 0
  <2>1. c[e].byte \in Bytes /\ c[e].byte # NUL
    <3>1. c[e] \in CommandByte
      BY <1>2, <1>4
    <3> QED BY <1>1, <1>4, <3>1 DEF IsCommand, CommandByte
  <2>2. Base \in Nat
    BY Sizes
  <2> QED BY <1>9, <2>1, <2>2 DEF Bytes, NUL
<1>11. e \in 1..COMMAND_BYTES
  BY <1>2, <1>4
<1>12. PICK f \in 1..FieldsFor(COMMAND_BYTES), j \in 1..FieldBytes : Index(f, j) = e
  BY <1>2, <1>11, FieldsCover
<1>13. f \in Nat \ {0} /\ FieldsFor(COMMAND_BYTES) \in Nat
  BY <1>2, <1>11, FieldsCover
<1>14. Field(t, f) = Field(masked, f)
  BY <1>1, <1>2, AcceptedFields
<1>15. PaddedByte(masked, Index(f, j)) < 0
  BY <1>10, <1>12
<1>16. PaddedByte(masked, Index(f, j + 1)) = NUL => PaddedByte(t, Index(f, j + 1)) = NotInUTF8
  BY <1>2, <1>13, <1>14, <1>15, Borrow
<1>17. Index(f, j + 1) = e + 1
  <2>1. j \in Nat /\ FieldBytes \in Nat /\ f - 1 \in Nat
    BY <1>13, Sizes
  <2>2. (f - 1) * FieldBytes \in Nat
    BY <2>1
  <2> QED BY <1>12, <2>1, <2>2 DEF Index
<1>18. PaddedByte(t, e + 1) = NotInUTF8
  BY <1>9, <1>16, <1>17
<1>19. Len(t) \in Nat
  BY <1>2
<1>20. PaddedByte(t, e + 1) # NotInUTF8
  BY <1>1, <1>7, <1>19, Sizes DEF IsText, PaddedByte
<1> QED BY <1>18, <1>20

\* So a proof that verifies holds the bytes that are typed, which are then the first ones.
LEMMA VerifiedIsTyped ==
    ASSUME NEW p, p.domainName \in Seq(Bytes), p.maskedCommand \in Seq(Bytes \ {NUL}),
           NEW m, m.domain \in Seq(Bytes), IsCommand(m.command),
           m.command # <<>> => m.command[Len(m.command)].part # "both",
           Accepted(p, m), IsText(p.maskedCommand)
    PROVE  /\ \A i \in 1..Len(m.command) :
                  /\ m.command[i].part # "both"
                  /\ m.command[i].part = "plain" <=> i <= Len(p.maskedCommand)
           /\ Len(p.maskedCommand) <= Len(m.command)
           /\ \A i \in 1..Len(p.maskedCommand) : p.maskedCommand[i] = m.command[i].byte
<1>1. PICK c, t, masked : /\ c = m.command /\ t = p.maskedCommand
                          /\ masked = masked_command_bytes(m.command)
  OBVIOUS
<1>2. t \in Seq(Bytes)
  <2>1. Bytes \ {NUL} \subseteq Bytes /\ t \in Seq(Bytes \ {NUL})
    BY <1>1
  <2> QED BY <2>1, SeqOf
<1>3. /\ c \in Seq(CommandByte) /\ Len(c) \in Nat /\ Len(c) <= COMMAND_BYTES
      /\ COMMAND_BYTES \in Nat \ {0} /\ Len(t) \in Nat
  BY <1>1, Sizes DEF IsCommand
<1>4. \A i \in 1..Len(c) : c[i].part # "both"
  BY <1>1, <1>2, NothingMaskedTwice
<1>5. /\ Len(t) <= COMMAND_BYTES
      /\ \A i \in 1..(COMMAND_BYTES + 1) : PaddedByte(t, i) = PaddedByte(masked, i)
  BY <1>1, <1>2, <1>3, <1>4, AcceptedIsMasked
<1>6. ASSUME NEW i \in 1..COMMAND_BYTES
      PROVE  /\ PaddedByte(t, i) # NUL <=> i <= Len(t)
             /\ i <= Len(t) => PaddedByte(t, i) = t[i]
  <2>1. CASE i <= Len(t)
    <3>1. t[i] # NUL
      BY <1>1, <1>3, <2>1
    <3> QED BY <2>1, <3>1 DEF PaddedByte
  <2>2. CASE ~ (i <= Len(t))
    BY <2>2 DEF PaddedByte
  <2> QED BY <2>1, <2>2
<1>7. ASSUME NEW i \in 1..Len(c)
      PROVE  /\ i \in 1..COMMAND_BYTES
             /\ c[i].part = "plain" => PaddedByte(masked, i) = c[i].byte /\ c[i].byte # NUL
             /\ c[i].part # "plain" => PaddedByte(masked, i) = NUL
  <2>1. i \in Nat \ {0} /\ i <= Len(c) /\ i \in 1..COMMAND_BYTES
    BY <1>3
  <2>2. PaddedByte(masked, i) =
            CASE c[i].part = "plain" -> c[i].byte
              [] c[i].part = "both"  -> -(c[i].byte)
              [] OTHER               -> NUL
    BY <1>1, <1>3, <2>1, MaskedByteIs
  <2>3. c[i].byte # NUL /\ c[i].part # "both"
    BY <1>1, <1>4 DEF IsCommand
  <2> QED BY <2>1, <2>2, <2>3
<1>8. ASSUME NEW i \in 1..Len(c) PROVE c[i].part = "plain" <=> i <= Len(t)
  <2>1. PaddedByte(t, i) = PaddedByte(masked, i)
    BY <1>3, <1>5, <1>7
  <2> QED BY <1>6, <1>7, <2>1
<1>9. Len(t) <= Len(c)
  <2> SUFFICES ASSUME ~ (Len(t) <= Len(c)) PROVE FALSE
    OBVIOUS
  <2>1. Len(t) \in 1..COMMAND_BYTES /\ Len(t) \in Nat \ {0} /\ Len(t) > Len(c)
    BY <1>3, <1>5
  <2>2. PaddedByte(masked, Len(t)) = NUL
    BY <1>1, <1>3, <2>1, MaskedByteIs
  <2>3. PaddedByte(t, Len(t)) # NUL
    BY <1>6, <2>1
  <2>4. PaddedByte(t, Len(t)) = PaddedByte(masked, Len(t))
    BY <1>3, <1>5, <2>1
  <2> QED BY <2>2, <2>3, <2>4
<1>10. ASSUME NEW i \in 1..Len(t) PROVE t[i] = c[i].byte
  <2>1. i \in 1..Len(c) /\ i \in 1..COMMAND_BYTES /\ i <= Len(t)
    BY <1>3, <1>9
  <2>2. PaddedByte(t, i) = PaddedByte(masked, i) /\ PaddedByte(t, i) = t[i]
    BY <1>3, <1>5, <1>6, <2>1
  <2> QED BY <1>7, <1>8, <2>1, <2>2
<1> QED BY <1>1, <1>4, <1>8, <1>9, <1>10

LEMMA RelayerReadsBytes ==
    ASSUME NEW m, IsMail(m)
    PROVE  email_proof(m).maskedCommand \in Seq(Bytes \ {NUL})
<1>1. PICK fields, start : /\ fields = FieldsOf(masked_command_bytes(m.command), COMMAND_FIELDS)
                           /\ start = DOMAIN_FIELDS + 4
  OBVIOUS
<1>2. fields \in Seq(Nat)
  <2>1. m.command \in Seq(CommandByte)
    BY DEF IsMail
  <2> QED BY <1>1, <2>1, FieldCounts, FieldsOfAre, MaskedIsSigned
<1>3. SubSeq(CircuitSignals(m), start, start + COMMAND_FIELDS - 1) = fields
  BY <1>1, EmailProofIs
<1>4. PICK kept : /\ Goes(kept, fields)
                  /\ get_masked_command(CircuitSignals(m), start) = kept[Len(fields)]
  BY <1>2, <1>3, CommandGoes
<1>5. Len(fields) \in 0..Len(fields)
  BY <1>2
<1>6. kept[Len(fields)] \in Seq(Bytes \ {NUL})
  BY <1>4, <1>5 DEF Goes
<1>7. email_proof(m).maskedCommand = get_masked_command(CircuitSignals(m), start)
  BY <1>1, EmailProofIs
<1> QED BY <1>4, <1>6, <1>7

\* And where nothing typed is behind anything masked, the relayer's proof verifies.
LEMMA TypedVerifies ==
    ASSUME NEW m, IsMail(m), IsCommand(m.command),
           \A i \in 1..Len(m.command) : m.command[i].part # "both",
           NEW n \in 0..Len(m.command),
           \A i \in 1..Len(m.command) : m.command[i].part = "plain" <=> i <= n
    PROVE  IsText(email_proof(m).maskedCommand) /\ Accepted(email_proof(m), m)
<1>1. PICK c, t, masked, start :
          /\ c = m.command /\ t = email_proof(m).maskedCommand
          /\ masked = masked_command_bytes(m.command) /\ start = DOMAIN_FIELDS + 4
  OBVIOUS
<1>2. /\ c \in Seq(CommandByte) /\ Len(c) \in Nat /\ Len(c) <= COMMAND_BYTES
      /\ COMMAND_BYTES \in Nat /\ n \in 0..COMMAND_BYTES /\ n \in 0..Len(c)
  BY <1>1, Sizes DEF IsCommand
<1>3. masked \in Seq(Bytes) /\ Len(masked) = COMMAND_BYTES
  BY <1>1, <1>2, MaskedIsBytes
<1>4. ASSUME NEW i \in Nat \ {0}
      PROVE  /\ i <= n => /\ PaddedByte(masked, i) = c[i].byte
                          /\ c[i].byte \notin {NUL, NotInUTF8}
             /\ ~ (i <= n) => PaddedByte(masked, i) = NUL
  <2>1. CASE i > Len(c)
    BY <1>1, <1>2, <2>1, MaskedByteIs
  <2>2. CASE ~ (i > Len(c))
    <3>1. i \in 1..Len(c) /\ i <= Len(c)
      BY <1>2, <2>2
    <3>2. c[i].part # "both" /\ (c[i].part = "plain" <=> i <= n)
      BY <1>1, <3>1
    <3>3. PaddedByte(masked, i) =
              CASE c[i].part = "plain" -> c[i].byte
                [] c[i].part = "both"  -> -(c[i].byte)
                [] OTHER               -> NUL
      BY <1>1, <1>2, <3>1, MaskedByteIs
    <3>4. c[i].byte \notin {NUL, NotInUTF8}
      BY <1>1, <3>1 DEF IsCommand
    <3> QED BY <3>2, <3>3, <3>4
  <2> QED BY <2>1, <2>2
<1>5. /\ \A i \in 1..n : masked[i] # NUL
      /\ \A i \in (n + 1)..COMMAND_BYTES : masked[i] = NUL
  <2>1. \A i \in 1..COMMAND_BYTES : PaddedByte(masked, i) = masked[i] /\ i \in Nat \ {0}
    BY <1>2, <1>3 DEF PaddedByte
  <2> QED BY <1>2, <1>4, <2>1
<1>6. t = get_masked_command(CircuitSignals(m), start)
  BY <1>1, EmailProofIs
<1>7. SubSeq(CircuitSignals(m), start, start + COMMAND_FIELDS - 1) =
          [f \in 1..COMMAND_FIELDS |-> Field(masked, f)]
  BY <1>1, EmailProofIs DEF FieldsOf
<1>8. t \in Seq(Bytes \ {NUL}) /\ Len(t) = n /\ \A i \in 1..n : t[i] = masked[i]
  BY <1>2, <1>3, <1>5, <1>6, <1>7, CommandReadsBack
<1>9. t \in Seq(Bytes)
  <2>1. Bytes \ {NUL} \subseteq Bytes
    OBVIOUS
  <2> QED BY <1>8, <2>1, SeqOf
<1>10. \A i \in 1..n : i \in Nat \ {0} /\ PaddedByte(masked, i) = masked[i]
  BY <1>2, <1>3 DEF PaddedByte
<1>11. IsText(t)
  BY <1>2, <1>4, <1>8, <1>10 DEF IsText
<1>12. ASSUME NEW i \in Nat \ {0} PROVE PaddedByte(t, i) = PaddedByte(masked, i)
  <2>1. CASE i <= n
    BY <1>2, <1>8, <1>10, <2>1 DEF PaddedByte
  <2>2. CASE ~ (i <= n)
    <3>1. PaddedByte(t, i) = NUL
      BY <1>8, <2>2 DEF PaddedByte
    <3> QED BY <1>4, <2>2, <3>1
  <2> QED BY <2>1, <2>2
<1>13. Len(t) <= COMMAND_BYTES
  BY <1>2, <1>8
<1>14. Accepted(email_proof(m), m)
  BY <1>1, <1>9, <1>12, <1>13, ProofAccepted
<1> QED BY <1>1, <1>11, <1>14

\* Where nothing typed is behind anything else, what is typed are the first bytes.
LEMMA TypedFirst ==
    ASSUME NEW c, Len(c) \in Nat,
           \A i, j \in 1..Len(c) : c[i].part # "plain" /\ c[j].part = "plain" => j < i
    PROVE  \E n \in 0..Len(c) : \A i \in 1..Len(c) : c[i].part = "plain" <=> i <= n
<1> DEFINE S == {n \in Nat : n + 1 \in 1..Len(c) /\ c[n + 1].part # "plain"}
<1>1. CASE S = {}
  <2>1. ASSUME NEW i \in 1..Len(c) PROVE c[i].part = "plain"
    <3> SUFFICES ASSUME c[i].part # "plain" PROVE FALSE
      OBVIOUS
    <3>1. i - 1 \in Nat /\ (i - 1) + 1 = i
      OBVIOUS
    <3>2. i - 1 \in S
      BY <3>1
    <3> QED BY <1>1, <3>2
  <2>2. Len(c) \in 0..Len(c) /\ \A i \in 1..Len(c) : c[i].part = "plain" <=> i <= Len(c)
    BY <2>1
  <2> QED BY <2>2
<1>2. CASE S # {}
  <2>1. PICK n \in S : \A k \in S : n <= k
    <3>1. PICK k : k \in S
      BY <1>2
    <3>2. S \in SUBSET Nat
      OBVIOUS
    <3> HIDE DEF S
    <3> QED BY <3>1, <3>2, LeastNatural
  <2>2. n \in Nat /\ n + 1 \in 1..Len(c) /\ c[n + 1].part # "plain"
    OBVIOUS
  <2>3. ASSUME NEW i \in 1..Len(c) PROVE c[i].part = "plain" <=> i <= n
    <3>1. ASSUME c[i].part = "plain" PROVE i <= n
      BY <2>2, <3>1
    <3>2. ASSUME i <= n, c[i].part # "plain" PROVE FALSE
      <4>1. i - 1 \in Nat /\ (i - 1) + 1 = i
        OBVIOUS
      <4>2. i - 1 \in S
        BY <3>2, <4>1
      <4>3. n <= i - 1
        <5> HIDE DEF S
        <5> QED BY <2>1, <4>2
      <4> QED BY <2>2, <3>2, <4>3
    <3> QED BY <3>1, <3>2
  <2>4. n \in 0..Len(c)
    BY <2>2
  <2> QED BY <2>3, <2>4
<1> QED BY <1>1, <1>2

-------------------------------------------------------------------------------
\* What the behaviours of MCCommandSignals write.
Written == IsMail(mail) /\ text \in Seq(Bytes) /\ IsCommand(mail.command)

LEMMA WrittenHolds == Spec => []Written
<1>1. Init => Written
  <2>1. <<1, 2>> \in Seq(Bytes) /\ COMMAND_BYTES \in Nat
    BY BytesAssumption, Sizes
  <2> QED BY <2>1 DEF Init, Written, IsMail, IsCommand
<1>2. Written /\ [Next]_vars => Written'
  <2> SUFFICES ASSUME Written, [Next]_vars PROVE Written'
    OBVIOUS
  <2>1. ASSUME NEW byte \in Bytes \ {NUL, NotInUTF8},
               NEW part \in {"plain", "code", "address", "both"}, WriteByte(byte, part)
        PROVE  Written'
    <3>1. PICK c, b, d : /\ c = mail.command /\ b = [byte |-> byte, part |-> part]
                         /\ d = Append(mail.command, [byte |-> byte, part |-> part])
      OBVIOUS
    <3>2. /\ mail' = [mail EXCEPT !.command = d] /\ text' = text
          /\ Len(c) < COMMAND_BYTES /\ Follows(part)
      BY <2>1, <3>1 DEF WriteByte
    <3>3. b \in CommandByte /\ b.byte = byte /\ b.part = part
      BY <3>1 DEF CommandByte
    <3>4. c \in Seq(CommandByte) /\ Len(c) \in Nat /\ COMMAND_BYTES \in Nat
      BY <3>1, Sizes DEF Written, IsCommand
    <3>5. /\ d \in Seq(CommandByte) /\ Len(d) = Len(c) + 1
          /\ \A i \in 1..Len(c) : d[i] = c[i]
          /\ d[Len(c) + 1] = b
      BY <3>1, <3>3, <3>4, AppendProperties
    <3>6. \A i \in 1..Len(d) : d[i].byte \notin {NUL, NotInUTF8}
      BY <3>1, <3>3, <3>4, <3>5 DEF Written, IsCommand
    <3>7. ASSUME NEW i \in 1..Len(d), d[i].part = "both", i < Len(d)
          PROVE  d[i + 1].part \in {"both", "address"}
      <4>1. i \in 1..Len(c) /\ c[i].part = "both"
        BY <3>4, <3>5, <3>7
      <4>2. CASE i < Len(c)
        <5>1. i + 1 \in 1..Len(c)
          BY <3>4, <4>1, <4>2
        <5> QED BY <3>1, <3>5, <4>1, <4>2, <5>1 DEF Written, IsCommand
      <4>3. CASE i = Len(c)
        <5>1. c # <<>>
          BY <3>4, <4>1
        <5>2. part \in {"both", "address"}
          BY <3>1, <3>2, <4>1, <4>3, <5>1 DEF Follows
        <5> QED BY <3>3, <3>5, <4>3, <5>2
      <4> QED BY <3>4, <4>1, <4>2, <4>3
    <3>8. IsCommand(d)
      <4>1. Len(d) <= COMMAND_BYTES
        BY <3>2, <3>4, <3>5
      <4> QED BY <3>5, <3>6, <3>7, <4>1 DEF IsCommand
    <3>9. mail'.command = d /\ IsMail(mail')
      BY <3>2, <3>5 DEF Written, IsMail
    <3> QED BY <3>2, <3>8, <3>9 DEF Written
  <2>2. ASSUME NEW byte \in Bytes, WriteText(byte) PROVE Written'
    BY <2>2 DEF WriteText, Written
  <2>3. CASE UNCHANGED vars
    BY <2>3 DEF Written, vars
  <2> QED BY <2>1, <2>2, <2>3, BytesAssumption DEF Next
<1> QED BY <1>1, <1>2, PTL DEF Spec

\* Nobody can pass off another text for a command: AcceptedTextIsMasked, for every size of
\* a byte, a field, a domain and a command.
THEOREM TextIsMasked == Spec => []AcceptedTextIsMasked
<1>1. Written => AcceptedTextIsMasked
  <2> DEFINE p == [email_proof(mail) EXCEPT !.maskedCommand = text]
  <2> SUFFICES ASSUME Written, ~Overlap, Accepted(p, mail)
               PROVE  Pad(text, COMMAND_BYTES + 1) =
                          Pad(masked_command_bytes(command), COMMAND_BYTES + 1)
    BY DEF AcceptedTextIsMasked
  <2>1. p.domainName = mail.domain /\ p.maskedCommand = text
    BY DEF email_proof
  <2>2. mail.domain \in Seq(Bytes) /\ mail.command \in Seq(CommandByte) /\ text \in Seq(Bytes)
    BY DEF Written, IsMail
  <2>3. \A i \in 1..Len(mail.command) : mail.command[i].part # "both"
    BY DEF Overlap
  <2> HIDE DEF p
  <2>4. Pad(p.maskedCommand, COMMAND_BYTES + 1) =
            Pad(masked_command_bytes(mail.command), COMMAND_BYTES + 1)
    BY <2>1, <2>2, <2>3, AcceptedIsMasked
  <2> QED BY <2>1, <2>4 DEF command
<1> QED BY <1>1, WrittenHolds, PTL

\* The relayer's proof, where it verifies.
LEMMA WhereItVerifies ==
    ASSUME Written, Verifies, ~Unfinished
    PROVE  /\ \A i \in 1..Len(command) :
                  /\ command[i].part # "both"
                  /\ command[i].part = "plain" <=> i <= Len(email_proof(mail).maskedCommand)
           /\ Len(email_proof(mail).maskedCommand) \in 0..Len(command)
           /\ email_proof(mail).maskedCommand \in Seq(Bytes \ {NUL})
           /\ \A i \in 1..Len(email_proof(mail).maskedCommand) :
                  email_proof(mail).maskedCommand[i] = command[i].byte
<1>1. PICK p : p = email_proof(mail)
  OBVIOUS
<1>2. p.domainName = mail.domain /\ mail.domain \in Seq(Bytes)
  BY <1>1, EmailProofIs DEF Written, IsMail
<1>3. p.maskedCommand \in Seq(Bytes \ {NUL})
  BY <1>1, RelayerReadsBytes DEF Written
<1>4. Accepted(p, mail) /\ IsText(p.maskedCommand)
  BY <1>1 DEF Verifies
<1>5. /\ IsCommand(mail.command)
      /\ mail.command # <<>> => mail.command[Len(mail.command)].part # "both"
  BY DEF Written, Unfinished, command
<1>6. /\ \A i \in 1..Len(mail.command) :
             /\ mail.command[i].part # "both"
             /\ mail.command[i].part = "plain" <=> i <= Len(p.maskedCommand)
      /\ Len(p.maskedCommand) <= Len(mail.command)
      /\ \A i \in 1..Len(p.maskedCommand) : p.maskedCommand[i] = mail.command[i].byte
  BY <1>2, <1>3, <1>4, <1>5, VerifiedIsTyped
<1>7. Len(p.maskedCommand) \in Nat /\ Len(mail.command) \in Nat
  BY <1>3, <1>5 DEF IsCommand
<1> QED BY <1>1, <1>3, <1>6, <1>7 DEF command

\* What verifies is what the sender typed: VerifiedTextIsTyped, for every size.
THEOREM TextIsTyped == Spec => []VerifiedTextIsTyped
<1>1. Written => VerifiedTextIsTyped
  <2> SUFFICES ASSUME Written, Verifies, ~Unfinished
               PROVE  email_proof(mail).maskedCommand =
                          [i \in 1..Cardinality({k \in 1..Len(command) : command[k].part = "plain"})
                              |-> command[i].byte]
    BY DEF VerifiedTextIsTyped
  <2>1. PICK t : t = email_proof(mail).maskedCommand
    OBVIOUS
  <2>2. /\ \A i \in 1..Len(command) : command[i].part = "plain" <=> i <= Len(t)
        /\ Len(t) \in 0..Len(command) /\ t \in Seq(Bytes \ {NUL})
        /\ \A i \in 1..Len(t) : t[i] = command[i].byte
    BY <2>1, WhereItVerifies
  <2>3. Len(command) \in Nat
    BY DEF Written, IsCommand, command
  <2>4. {k \in 1..Len(command) : command[k].part = "plain"} = 1..Len(t)
    BY <2>2, <2>3
  <2>5. Cardinality(1..Len(t)) = Len(t)
    <3>1. 1 \in Int /\ Len(t) \in Int /\ Len(t) >= 0
      BY <2>2, <2>3
    <3>2. Cardinality(1..Len(t)) = IF 1 > Len(t) THEN 0 ELSE Len(t) - 1 + 1
      BY <3>1, FS_Interval
    <3> QED BY <3>1, <3>2
  <2>6. t = [i \in 1..Len(t) |-> command[i].byte]
    BY <2>2
  <2> QED BY <2>1, <2>4, <2>5, <2>6
<1> QED BY <1>1, WrittenHolds, PTL

\* And a proof verifies exactly when nothing typed is behind anything masked and nothing is
\* masked twice: ProofVerifiesUnlessGap, for every size.
THEOREM VerifiesUnlessGap == Spec => []ProofVerifiesUnlessGap
<1> DEFINE NoGap ==
        \A i, j \in 1..Len(command) :
            /\ command[i].part # "both"
            /\ command[i].part # "plain" /\ command[j].part = "plain" => j < i
<1>1. Written /\ ~Unfinished /\ Verifies => NoGap
  <2> SUFFICES ASSUME Written, ~Unfinished, Verifies, NEW i \in 1..Len(command),
                      NEW j \in 1..Len(command)
               PROVE  /\ command[i].part # "both"
                      /\ command[i].part # "plain" /\ command[j].part = "plain" => j < i
    OBVIOUS
  <2>1. PICK n : n = Len(email_proof(mail).maskedCommand)
    OBVIOUS
  <2>2. /\ command[i].part # "both" /\ (command[i].part = "plain" <=> i <= n)
        /\ (command[j].part = "plain" <=> j <= n)
        /\ n \in 0..Len(command)
    BY <2>1, WhereItVerifies
  <2>3. Len(command) \in Nat
    BY DEF Written, IsCommand, command
  <2> QED BY <2>2, <2>3
<1>2. Written /\ NoGap => Verifies
  <2> SUFFICES ASSUME Written, NoGap PROVE Verifies
    OBVIOUS
  <2>1. Len(mail.command) \in Nat
    BY DEF Written, IsCommand
  <2>2. \A i \in 1..Len(mail.command) : mail.command[i].part # "both"
    BY DEF command
  <2>3. \A i, j \in 1..Len(mail.command) :
            mail.command[i].part # "plain" /\ mail.command[j].part = "plain" => j < i
    BY DEF command
  <2>4. PICK n \in 0..Len(mail.command) :
            \A i \in 1..Len(mail.command) : mail.command[i].part = "plain" <=> i <= n
    BY <2>1, <2>3, TypedFirst
  <2>5. IsText(email_proof(mail).maskedCommand) /\ Accepted(email_proof(mail), mail)
    BY <2>2, <2>4, TypedVerifies DEF Written
  <2> QED BY <2>5 DEF Verifies
<1>3. Written => ProofVerifiesUnlessGap
  <2> HIDE DEF NoGap
  <2>1. Written => (~Unfinished => (Verifies <=> NoGap))
    BY <1>1, <1>2
  <2> QED BY <2>1 DEF ProofVerifiesUnlessGap, NoGap
<1> QED BY <1>3, WrittenHolds, PTL
=============================================================================
