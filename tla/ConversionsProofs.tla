-------------------------- MODULE ConversionsProofs --------------------------
(***************************************************************************)
(* Proofs about the relayer's commands and DecimalUtils: what CommandUtils *)
(* prints of a template is read back word by word, a reply that quotes the *)
(* mail authenticates the request, a reply that is taken for the command   *)
(* authorizes what was asked, and uintToDecimalString prints the canonical *)
(* numeral of every number.                                                *)
(*                                                                         *)
(* A text is a sequence of tokens, and what the code does to texts are     *)
(* runs over their elements: joining with spaces, splitting at spaces,     *)
(* leaving tokens out.  Each run is given by what it makes of nothing and  *)
(* of one element more (JoinedAppend, SplitAppend, WithoutAppend), and     *)
(* everything else follows by induction over sequences, which is           *)
(* SeqInduction, from the least element of a set of naturals.              *)
(***************************************************************************)
EXTENDS MCConversions, FiniteSetTheorems, SequenceTheorems, WellFoundedInduction, TLAPS

\* Induction and recursion

Less == {p \in Nat \X Nat : p[1] < p[2]}

\* Every nonempty set of naturals has a least element.
LEMMA LeastNatural ==
    ASSUME NEW S \in SUBSET Nat, S # {}
    PROVE  \E n \in S : \A m \in S : n <= m
<1>1. IsWellFoundedOn({p \in Nat \X Nat : p[1] < p[2]}, Nat)
  BY NatLessThanWellFounded, Zenon DEF OpToRel
<1>2. IsWellFoundedOn(Less, Nat)
  BY <1>1, Zenon DEF Less
<1>3. S \subseteq Nat
  OBVIOUS
<1>4. PICK n \in S : \A m \in S : ~ (<<m, n>> \in Less)
  BY <1>2, <1>3, WFMin, Zenon
<1>5. ASSUME NEW m \in S PROVE n <= m
  <2>1. <<m, n>> \in Nat \X Nat /\ <<m, n>>[1] = m /\ <<m, n>>[2] = n
    OBVIOUS
  <2>2. ~ (m < n)
    BY <1>4, <2>1 DEF Less
  <2> QED BY <2>2
<1> QED BY <1>5

\* A set of numbers up to n that is not empty has a greatest element.
LEMMA GreatestElement ==
    ASSUME NEW n \in Nat, NEW S \in SUBSET (0..n), S # {}
    PROVE  \E m \in S : \A k \in S : k <= m
<1> DEFINE T == {d \in 0..n : n - d \in S}
<1>1. T \in SUBSET Nat /\ T # {}
  <2>1. PICK m \in S : TRUE
    OBVIOUS
  <2>2. n - m \in 0..n /\ n - (n - m) = m
    BY <2>1
  <2> QED BY <2>1, <2>2
<1>2. PICK d \in T : \A e \in T : d <= e
  <2> HIDE DEF T
  <2> QED BY <1>1, LeastNatural
<1>3. ASSUME NEW k \in S PROVE k <= n - d
  <2>1. k \in 0..n /\ n - k \in 0..n /\ n - (n - k) = k
    OBVIOUS
  <2>2. n - k \in T
    BY <2>1
  <2>3. d \in 0..n /\ d <= n - k
    BY <1>2, <2>2
  <2> QED BY <2>1, <2>3
<1>4. n - d \in S
  BY <1>2
<1> QED BY <1>3, <1>4

\* Induction, for a property that is a set of naturals.
LEMMA Induction ==
    ASSUME NEW S \in SUBSET Nat, 0 \in S, \A n \in S : n + 1 \in S
    PROVE  S = Nat
<1>1. ASSUME Nat \ S # {} PROVE FALSE
  <2>1. PICK n \in Nat \ S : \A m \in Nat \ S : n <= m
    BY <1>1, LeastNatural, (Nat \ S) \in SUBSET Nat
  <2>2. n - 1 \in Nat /\ n = (n - 1) + 1
    BY <2>1
  <2>3. n - 1 \in S
    BY <2>1, <2>2
  <2> QED BY <2>1, <2>2, <2>3
<1> QED BY <1>1

\* g is the run of n steps from an initial value.
RunOf(g, n, V, first, step) ==
    /\ g \in [0..n -> V]
    /\ g[0] = first
    /\ \A k \in 1..n : g[k] = step[<<k, g[k - 1]>>]

\* Every recursion of n steps has a run.
LEMMA Recursion ==
    ASSUME NEW V, NEW n \in Nat, NEW first \in V, NEW step \in [(1..n) \X V -> V]
    PROVE  \E g : RunOf(g, n, V, first, step)
<1> DEFINE Solves(g, m) == RunOf(g, m, V, first, step)
  S == {m \in Nat : m <= n => \E g : Solves(g, m)}
<1>1. 0 \in S
  <2>1. Solves([k \in 0..0 |-> first], 0)
    BY DEF RunOf
  <2> QED BY <2>1
<1>2. ASSUME NEW m \in S PROVE m + 1 \in S
  <2> SUFFICES ASSUME m + 1 <= n PROVE \E g : Solves(g, m + 1)
    BY <1>2
  <2>1. PICK g : Solves(g, m)
    BY <1>2
  <2> USE DEF RunOf
  <2> DEFINE h == [k \in 0..(m + 1) |-> IF k = m + 1 THEN step[<<m + 1, g[m]>>] ELSE g[k]]
  <2>2. m \in Nat /\ m + 1 \in 1..n /\ g[m] \in V /\ <<m + 1, g[m]>> \in (1..n) \X V
    BY <1>2, <2>1
  <2>3. step[<<m + 1, g[m]>>] \in V
    BY <2>2
  <2>4. h \in [0..(m + 1) -> V]
    BY <2>1, <2>2, <2>3
  <2>5. h[0] = first
    BY <2>1, <2>2
  <2>6. ASSUME NEW k \in 1..(m + 1) PROVE h[k] = step[<<k, h[k - 1]>>]
    <3>1. CASE k = m + 1
      <4>1. m \in 0..(m + 1) /\ m # m + 1 /\ m + 1 \in 0..(m + 1) /\ k - 1 = m
        BY <2>2, <3>1
      <4>2. h[m] = g[m] /\ h[m + 1] = step[<<m + 1, g[m]>>]
        BY <4>1
      <4> HIDE DEF h
      <4> QED BY <3>1, <4>1, <4>2
    <3>2. CASE k # m + 1
      BY <2>1, <2>2, <3>2
    <3> QED BY <3>1, <3>2
  <2>7. Solves(h, m + 1)
    BY <2>4, <2>5, <2>6
  <2> QED BY <2>7
<1>3. S = Nat
  <2> HIDE DEF S
  <2>1. S \in SUBSET Nat
    BY DEF S
  <2> QED BY <1>1, <1>2, <2>1, Induction
<1>4. n \in S
  BY <1>3
<1>5. PICK g : Solves(g, n)
  BY <1>4
<1> QED BY <1>5

-------------------------------------------------------------------------------
\* Sequences

\* Two sequences in a row.
LEMMA ConcatParts ==
    ASSUME NEW S, NEW s \in Seq(S), NEW t \in Seq(S), NEW u, u = s \o t
    PROVE  /\ u \in Seq(S) /\ Len(u) = Len(s) + Len(t)
           /\ \A i \in 1..Len(s) : u[i] = s[i]
           /\ \A i \in 1..Len(t) : u[Len(s) + i] = t[i]
<1>1. Len(s) \in Nat /\ Len(t) \in Nat
  OBVIOUS
<1>2. /\ u \in Seq(S) /\ Len(u) = Len(s) + Len(t)
      /\ \A i \in 1..(Len(s) + Len(t)) : u[i] = IF i <= Len(s) THEN s[i] ELSE t[i - Len(s)]
  BY ConcatProperties
<1>3. ASSUME NEW i \in 1..Len(s) PROVE u[i] = s[i]
  <2>1. i \in 1..(Len(s) + Len(t)) /\ i <= Len(s)
    BY <1>1
  <2> QED BY <1>2, <2>1
<1>4. ASSUME NEW i \in 1..Len(t) PROVE u[Len(s) + i] = t[i]
  <2> DEFINE j == Len(s) + i
  <2>1. j \in 1..(Len(s) + Len(t)) /\ ~ (j <= Len(s)) /\ j - Len(s) = i
    BY <1>1
  <2> HIDE DEF j
  <2>2. u[j] = t[j - Len(s)]
    BY <1>2, <2>1
  <2> QED BY <2>1, <2>2 DEF j
<1> QED BY <1>2, <1>3, <1>4

LEMMA Associative ==
    ASSUME NEW V, NEW a \in Seq(V), NEW b \in Seq(V), NEW c \in Seq(V)
    PROVE  (a \o b) \o c = a \o (b \o c)
BY ConcatAssociative

\* A sequence of one element more.
LEMMA AppendIs ==
    ASSUME NEW V, NEW s \in Seq(V), NEW x \in V
    PROVE  /\ Append(s, x) \in Seq(V) /\ Len(Append(s, x)) = Len(s) + 1
           /\ \A i \in 1..Len(s) : Append(s, x)[i] = s[i]
           /\ Append(s, x)[Len(s) + 1] = x
           /\ Append(s, x) = s \o <<x>>
BY AppendProperties, AppendIsConcat

LEMMA ConcatIn ==
    ASSUME NEW V, NEW s \in Seq(V), NEW t \in Seq(V)
    PROVE  s \o t \in Seq(V)
OBVIOUS

LEMMA AppendConcat ==
    ASSUME NEW V, NEW s \in Seq(V), NEW t \in Seq(V), NEW x \in V
    PROVE  Append(s \o t, x) = s \o Append(t, x)
<1>1. Append(t, x) = t \o <<x>> /\ <<x>> \in Seq(V)
  BY AppendIs
<1>2. s \o t \in Seq(V)
  OBVIOUS
<1>3. Append(s \o t, x) = (s \o t) \o <<x>>
  BY <1>2, AppendIsConcat
<1> QED BY <1>1, <1>3, Associative

LEMMA OneElement ==
    ASSUME NEW V, NEW x \in V
    PROVE  <<x>> \in Seq(V) /\ Len(<<x>>) = 1 /\ <<x>>[1] = x
OBVIOUS

\* Sequences with the same elements are the same.
LEMMA SameSeq ==
    ASSUME NEW V, NEW W, NEW s \in Seq(V), NEW t \in Seq(W), Len(s) = Len(t),
           \A i \in 1..Len(s) : s[i] = t[i]
    PROVE  s = t
<1>1. /\ s \in [1..Len(s) -> V] /\ t \in [1..Len(t) -> W]
  OBVIOUS
<1>2. s = [i \in 1..Len(s) |-> s[i]] /\ t = [i \in 1..Len(s) |-> t[i]]
  BY <1>1
<1>3. [i \in 1..Len(s) |-> s[i]] = [i \in 1..Len(s) |-> t[i]]
  OBVIOUS
<1> QED BY <1>2, <1>3, Zenon

\* Induction, for a property that is a set of sequences.
LEMMA SeqInduction ==
    ASSUME NEW V, NEW T \in SUBSET Seq(V), <<>> \in T,
           \A s \in T, x \in V : Append(s, x) \in T
    PROVE  T = Seq(V)
<1> DEFINE S == {m \in Nat : \A s \in Seq(V) : Len(s) = m => s \in T}
<1>1. 0 \in S
  <2>1. ASSUME NEW s \in Seq(V), Len(s) = 0 PROVE s = <<>>
    BY <2>1
  <2> QED BY <2>1
<1>2. ASSUME NEW m \in S PROVE m + 1 \in S
  <2>1. m \in Nat
    OBVIOUS
  <2>2. ASSUME NEW s \in Seq(V), Len(s) = m + 1 PROVE s \in T
    <3>1. s # <<>>
      BY <2>1, <2>2
    <3>2. PICK t \in Seq(V), x \in V : s = Append(t, x)
      BY <3>1, SequenceEmptyOrAppend
    <3>3. Len(t) \in Nat /\ Len(s) = Len(t) + 1
      BY <3>2
    <3>4. Len(t) = m
      BY <2>1, <2>2, <3>3
    <3>5. t \in T
      BY <3>4
    <3> QED BY <3>2, <3>5
  <2> QED BY <2>1, <2>2
<1>3. S = Nat
  <2> HIDE DEF S
  <2>1. S \in SUBSET Nat
    BY DEF S
  <2> QED BY <1>1, <1>2, <2>1, Induction
<1>4. ASSUME NEW s \in Seq(V) PROVE s \in T
  <2>1. Len(s) \in S
    <3> HIDE DEF S
    <3>1. Len(s) \in Nat
      OBVIOUS
    <3> QED BY <1>3, <3>1
  <2> QED BY <2>1
<1> QED BY <1>4

-------------------------------------------------------------------------------
\* Texts in a row

\* The run of Joined: c[k] is the text of the first k entries.
Gap(k) == IF k > 1 THEN <<Space>> ELSE <<>>

RowOf(c, texts) ==
    /\ c \in [0..Len(texts) -> Text]
    /\ c[0] = <<>>
    /\ \A k \in 1..Len(texts) : c[k] = (c[k - 1] \o Gap(k)) \o texts[k]
    /\ Joined(texts) = c[Len(texts)]

LEMMA TextConcat ==
    ASSUME NEW a \in Text, NEW b \in Text
    PROVE  a \o b \in Text
BY DEF Text

LEMMA TextAssociative ==
    ASSUME NEW a \in Text, NEW b \in Text, NEW c \in Text
    PROVE  (a \o b) \o c = a \o (b \o c)
BY Associative DEF Text

LEMMA GapIsText == \A k \in Nat : Gap(k) \in Text /\ Len(Gap(k)) = IF k > 1 THEN 1 ELSE 0
<1>1. Space \in Tokens
  BY TokenAssumption
<1>2. <<Space>> \in Seq(Tokens) /\ Len(<<Space>>) = 1
  BY <1>1, OneElement
<1>3. <<>> \in Seq(Tokens) /\ Len(<<>>) = 0
  OBVIOUS
<1>4. ASSUME NEW k \in Nat PROVE Gap(k) \in Text /\ Len(Gap(k)) = IF k > 1 THEN 1 ELSE 0
  <2>1. CASE k > 1
    <3>1. Gap(k) = <<Space>>
      BY <2>1 DEF Gap
    <3>2. Gap(k) \in Text
      BY <1>2, <3>1, Zenon DEF Text
    <3> QED BY <1>2, <2>1, <3>1, <3>2
  <2>2. CASE ~ (k > 1)
    <3>1. Gap(k) = <<>>
      BY <2>2 DEF Gap
    <3>2. Gap(k) \in Text
      BY <1>3, <3>1, Zenon DEF Text
    <3> QED BY <1>3, <2>2, <3>1, <3>2
  <2> QED BY <2>1, <2>2
<1> QED BY <1>4

LEMMA JoinedGoes ==
    ASSUME NEW texts \in Seq(Text)
    PROVE  \E c : RowOf(c, texts)
<1> DEFINE n == Len(texts)
  next(k, before) == before \o Gap(k) \o texts[k]
  step == [p \in (1..n) \X Text |-> next(p[1], p[2])]
  Value(h) == [i \in 0..n |-> IF i = 0 THEN <<>>
                              ELSE h[i - 1] \o (IF i > 1 THEN <<Space>> ELSE <<>>) \o texts[i]]
  c == CHOOSE h : h = Value(h)
<1>1. n \in Nat /\ <<>> \in Text /\ \A k \in 1..n : texts[k] \in Text
  BY DEF Text
<1>2. ASSUME NEW k \in 1..n, NEW before \in Text PROVE next(k, before) \in Text
  <2>1. Gap(k) \in Text /\ texts[k] \in Text
    BY <1>1, GapIsText
  <2> QED BY <2>1 DEF Text
<1>3. step \in [(1..n) \X Text -> Text]
  <2>1. ASSUME NEW p \in (1..n) \X Text PROVE next(p[1], p[2]) \in Text
    <3>1. p[1] \in 1..n /\ p[2] \in Text
      OBVIOUS
    <3> HIDE DEF next
    <3> QED BY <1>2, <3>1
  <2> HIDE DEF next, n
  <2> QED BY <2>1
<1>4. PICK g : RunOf(g, n, Text, <<>>, step)
  <2> HIDE DEF step, n
  <2> QED BY <1>1, <1>3, Recursion
<1>5. g \in [0..n -> Text] /\ g[0] = <<>>
  BY <1>4 DEF RunOf
<1>6. ASSUME NEW k \in 1..n PROVE g[k] = next(k, g[k - 1])
  <2>1. k - 1 \in 0..n
    BY <1>1
  <2>2. g[k] = step[<<k, g[k - 1]>>] /\ <<k, g[k - 1]>> \in (1..n) \X Text
    BY <1>4, <1>5, <2>1 DEF RunOf
  <2> HIDE DEF n, next
  <2> QED BY <2>2
<1>7. g = Value(g)
  <2>1. ASSUME NEW i \in 0..n PROVE g[i] = Value(g)[i]
    <3>1. CASE i = 0
      BY <1>5, <3>1
    <3>2. CASE i # 0
      <4>1. i \in 1..n
        BY <1>1, <3>2
      <4>2. Value(g)[i] = next(i, g[i - 1])
        BY <3>2 DEF Gap
      <4> HIDE DEF n, next, Value
      <4> QED BY <1>6, <4>1, <4>2
    <3> QED BY <3>1, <3>2
  <2>2. g = [i \in 0..n |-> g[i]] /\ Value(g) = [i \in 0..n |-> Value(g)[i]]
    BY <1>5
  <2>3. [i \in 0..n |-> g[i]] = [i \in 0..n |-> Value(g)[i]]
    BY <2>1
  <2> QED BY <2>2, <2>3, Zenon
<1>8. c = Value(c)
  <2> HIDE DEF Value
  <2> QED BY <1>7, Zenon
<1>9. Joined(texts) = c[n]
  BY Zenon DEF Joined
<1> HIDE DEF c
<1>10. c[0] = <<>>
  BY <1>1, <1>8
<1>11. ASSUME NEW k \in 1..n PROVE c[k] = (c[k - 1] \o Gap(k)) \o texts[k]
  <2>1. c[k] = Value(c)[k]
    BY <1>8
  <2>2. k \in 0..n /\ k # 0
    BY <1>1
  <2>3. Value(c)[k] = (c[k - 1] \o Gap(k)) \o texts[k]
    BY <2>2 DEF Gap
  <2> QED BY <2>1, <2>3
<1> DEFINE T == {k \in Nat : k <= n => c[k] \in Text}
<1>12. T = Nat
  <2>1. 0 \in T
    BY <1>1, <1>10
  <2>2. ASSUME NEW k \in T PROVE k + 1 \in T
    <3> SUFFICES ASSUME k + 1 <= n PROVE c[k + 1] \in Text
      BY <2>2
    <3>1. k + 1 \in 1..n /\ (k + 1) - 1 = k /\ c[k] \in Text
      BY <1>1, <2>2
    <3>2. c[k + 1] = next(k + 1, c[k])
      BY <1>11, <3>1
    <3> HIDE DEF next
    <3> QED BY <1>2, <3>1, <3>2
  <2> HIDE DEF T
  <2>3. T \in SUBSET Nat
    BY DEF T
  <2> QED BY <2>1, <2>2, <2>3, Induction
<1>13. ASSUME NEW k \in 0..n PROVE c[k] \in Text
  <2>1. k \in Nat /\ k <= n
    BY <1>1
  <2>2. k \in T
    <3> HIDE DEF T
    <3> QED BY <1>12, <2>1
  <2> QED BY <2>1, <2>2
<1>14. c \in [0..n -> Text]
  <2>1. c = [i \in 0..n |-> Value(c)[i]]
    BY <1>8
  <2> HIDE DEF Value, n
  <2> QED BY <1>8, <1>13, <2>1
<1> QED BY <1>9, <1>10, <1>11, <1>14 DEF RowOf

LEMMA JoinedEmpty == Joined(<<>>) = <<>>
<1>1. <<>> \in Seq(Text) /\ Len(<<>>) = 0
  OBVIOUS
<1>2. PICK c : RowOf(c, <<>>)
  BY <1>1, JoinedGoes
<1> QED BY <1>1, <1>2 DEF RowOf

LEMMA JoinedAppend ==
    ASSUME NEW texts \in Seq(Text), NEW text \in Text
    PROVE  /\ Joined(texts) \in Text
           /\ Joined(Append(texts, text)) = (Joined(texts) \o Gap(Len(texts) + 1)) \o text
<1> DEFINE n == Len(texts)
  more == Append(texts, text)
<1>1. n \in Nat /\ more \in Seq(Text) /\ Len(more) = n + 1 /\ more[n + 1] = text
  BY AppendIs
<1>2. \A k \in 1..n : more[k] = texts[k]
  BY AppendIs
<1>3. PICK c : RowOf(c, texts)
  BY JoinedGoes
<1>4. PICK d : RowOf(d, more)
  BY <1>1, JoinedGoes
<1> HIDE DEF more
<1> DEFINE S == {k \in Nat : k <= n => c[k] = d[k]}
<1>5. 0 \in S
  BY <1>3, <1>4 DEF RowOf
<1>6. ASSUME NEW k \in S PROVE k + 1 \in S
  <2> SUFFICES ASSUME k + 1 <= n PROVE c[k + 1] = d[k + 1]
    BY <1>6
  <2>1. k \in Nat /\ k + 1 \in 1..n /\ k + 1 \in 1..Len(more) /\ (k + 1) - 1 = k /\ c[k] = d[k]
    BY <1>1, <1>6
  <2>2. c[k + 1] = (c[k] \o Gap(k + 1)) \o texts[k + 1]
    BY <1>3, <2>1 DEF RowOf
  <2>3. d[k + 1] = (d[k] \o Gap(k + 1)) \o more[k + 1]
    BY <1>4, <2>1 DEF RowOf
  <2> HIDE DEF n
  <2> QED BY <1>2, <2>1, <2>2, <2>3
<1>7. S = Nat
  <2> HIDE DEF S
  <2>1. S \in SUBSET Nat
    BY DEF S
  <2> QED BY <1>5, <1>6, <2>1, Induction
<1>8. c[n] = d[n]
  <2>1. n \in S
    <3> HIDE DEF S, n
    <3> QED BY <1>1, <1>7
  <2> QED BY <1>1, <2>1
<1>9. Joined(texts) = c[n] /\ c[n] \in Text
  BY <1>1, <1>3 DEF RowOf
<1>10. Joined(more) = d[n + 1] /\ d[n + 1] = (d[n] \o Gap(n + 1)) \o more[n + 1]
  <2>1. n + 1 \in 1..Len(more) /\ (n + 1) - 1 = n /\ Len(more) = n + 1
    BY <1>1
  <2> HIDE DEF n
  <2> QED BY <1>4, <2>1 DEF RowOf
<1>11. Joined(more) = (Joined(texts) \o Gap(n + 1)) \o text
  <2> HIDE DEF n
  <2> QED BY <1>1, <1>8, <1>9, <1>10
<1> QED BY <1>9, <1>11 DEF more

LEMMA JoinedIsText ==
    ASSUME NEW texts \in Seq(Text)
    PROVE  Joined(texts) \in Text
<1>1. <<>> \in Text
  BY DEF Text
<1> QED BY <1>1, JoinedAppend

\* The row of two rows, and of a row and what follows its first entries.
LEMMA JoinedConcat ==
    ASSUME NEW texts \in Seq(Text), texts # <<>>, NEW others \in Seq(Text), others # <<>>
    PROVE  Joined(texts \o others) = (Joined(texts) \o <<Space>>) \o Joined(others)
<1> DEFINE Splits(rest) == rest = <<>>
                \/ Joined(texts \o rest) = (Joined(texts) \o <<Space>>) \o Joined(rest)
  T == {rest \in Seq(Text) : Splits(rest)}
  n == Len(texts)
<1>0. n \in Nat \ {0} /\ <<Space>> \in Text /\ <<>> \in Text
  <2>1. n \in Nat \ {0}
    OBVIOUS
  <2>2. <<Space>> = Gap(2) /\ 2 \in Nat /\ <<>> = Gap(0) /\ 0 \in Nat
    BY DEF Gap
  <2>3. <<Space>> \in Text /\ <<>> \in Text
    BY <2>2, GapIsText
  <2> QED BY <2>1, <2>3
<1>1. <<>> \in T
  OBVIOUS
<1>2. ASSUME NEW rest \in T, NEW text \in Text PROVE Append(rest, text) \in T
  <2>1. rest \in Seq(Text) /\ Len(rest) \in Nat /\ Append(rest, text) \in Seq(Text)
    BY AppendIs
  <2>2. texts \o Append(rest, text) = Append(texts \o rest, text)
    BY <2>1, AppendConcat
  <2>3. texts \o rest \in Seq(Text) /\ Len(texts \o rest) = n + Len(rest)
    BY <2>1
  <2>4. Joined(texts \o Append(rest, text))
            = (Joined(texts \o rest) \o Gap(n + Len(rest) + 1)) \o text
    BY <2>2, <2>3, JoinedAppend
  <2>5. Gap(n + Len(rest) + 1) = <<Space>>
    BY <1>0, <2>1 DEF Gap
  <2>6. Joined(Append(rest, text)) = (Joined(rest) \o Gap(Len(rest) + 1)) \o text
    BY <2>1, JoinedAppend
  <2>7. CASE rest = <<>>
    <3>1. Joined(rest) = <<>> /\ Gap(Len(rest) + 1) = <<>> /\ <<>> \o <<>> = <<>>
      BY <2>7, JoinedEmpty DEF Gap
    <3>2. (<<>> \o <<>>) \o text = text
      BY DEF Text
    <3>3. Joined(Append(rest, text)) = text
      BY <2>6, <3>1, <3>2
    <3>4. texts \o rest = texts
      BY <2>7
    <3> QED BY <2>1, <2>4, <2>5, <3>3, <3>4
  <2>8. CASE rest # <<>>
    <3>1. Joined(texts \o rest) = (Joined(texts) \o <<Space>>) \o Joined(rest)
      BY <2>8
    <3>2. Gap(Len(rest) + 1) = <<Space>>
      BY <2>1, <2>8 DEF Gap
    <3> DEFINE a == Joined(texts) \o <<Space>>
    <3>3. Joined(rest) \in Text /\ a \in Text /\ Joined(texts) \in Text
      <4>1. Joined(rest) \in Text /\ Joined(texts) \in Text
        BY <2>1, JoinedIsText
      <4> QED BY <1>0, <4>1 DEF Text
    <3> HIDE DEF a
    <3>4. ((a \o Joined(rest)) \o <<Space>>) \o text = a \o ((Joined(rest) \o <<Space>>) \o text)
      <4>1. Joined(rest) \o <<Space>> \in Text
        BY <1>0, <3>3 DEF Text
      <4>2. (a \o Joined(rest)) \o <<Space>> = a \o (Joined(rest) \o <<Space>>)
        BY <1>0, <3>3, TextAssociative
      <4>3. (a \o (Joined(rest) \o <<Space>>)) \o text = a \o ((Joined(rest) \o <<Space>>) \o text)
        BY <3>3, <4>1, TextAssociative
      <4> QED BY <4>2, <4>3
    <3>5. Joined(texts \o Append(rest, text)) = a \o Joined(Append(rest, text))
      BY <2>4, <2>5, <2>6, <3>1, <3>2, <3>4 DEF a
    <3> QED BY <2>1, <3>5 DEF a
  <2> QED BY <2>7, <2>8
<1>3. T = Seq(Text)
  <2> HIDE DEF T
  <2>1. T \in SUBSET Seq(Text)
    BY DEF T
  <2> QED BY <1>1, <1>2, <2>1, SeqInduction
<1>4. others \in T
  <2> HIDE DEF T
  <2> QED BY <1>3
<1> QED BY <1>4

-------------------------------------------------------------------------------
\* Words

\* What the next token makes of the parts of a text.
NextParts(parts, token) ==
    IF token = Space THEN Append(parts, <<>>)
    ELSE [parts EXCEPT ![Len(parts)] = Append(@, token)]

Rows == Seq(Text) \ {<<>>}

LEMMA NextPartsIn ==
    ASSUME NEW parts \in Rows, NEW token \in Tokens
    PROVE  /\ NextParts(parts, token) \in Rows
           /\ token # Space =>
                  /\ Len(NextParts(parts, token)) = Len(parts)
                  /\ \A i \in 1..(Len(parts) - 1) : NextParts(parts, token)[i] = parts[i]
                  /\ NextParts(parts, token)[Len(parts)] = Append(parts[Len(parts)], token)
           /\ token = Space => NextParts(parts, token) = Append(parts, <<>>)
<1> DEFINE n == Len(parts)
<1>1. parts \in Seq(Text) /\ n \in Nat \ {0} /\ n \in 1..n /\ parts[n] \in Text /\ <<>> \in Text
  BY DEF Rows, Text
<1>2. CASE token = Space
  <2>1. Append(parts, <<>>) \in Seq(Text) /\ Len(Append(parts, <<>>)) = n + 1
    BY <1>1
  <2>2. Append(parts, <<>>) # <<>>
    BY <1>1, <2>1
  <2>3. NextParts(parts, token) = Append(parts, <<>>)
    BY <1>2 DEF NextParts
  <2> QED BY <1>2, <2>1, <2>2, <2>3 DEF Rows
<1>3. CASE token # Space
  <2> DEFINE last == Append(parts[n], token)
  <2>1. last \in Text
    BY <1>1, AppendIs DEF Text
  <2>2. NextParts(parts, token) = [parts EXCEPT ![n] = last]
    BY <1>3 DEF NextParts
  <2> HIDE DEF last
  <2>3. /\ [parts EXCEPT ![n] = last] \in Seq(Text)
        /\ Len([parts EXCEPT ![n] = last]) = n
        /\ \A i \in 1..(n - 1) : [parts EXCEPT ![n] = last][i] = parts[i]
        /\ [parts EXCEPT ![n] = last][n] = last
    BY <1>1, <2>1
  <2>4. [parts EXCEPT ![n] = last] # <<>>
    BY <1>1, <2>3
  <2> QED BY <1>3, <2>2, <2>3, <2>4 DEF Rows, last
<1> QED BY <1>2, <1>3

\* The run of splitString.
SplitOf(p, text) ==
    /\ p \in [0..Len(text) -> Rows]
    /\ p[0] = << <<>> >>
    /\ \A k \in 1..Len(text) : p[k] = NextParts(p[k - 1], text[k])
    /\ splitString(text, Space) = p[Len(text)]

LEMMA OneRow == << <<>> >> \in Rows
<1>1. <<>> \in Text
  BY DEF Text
<1>2. << <<>> >> \in Seq(Text) /\ Len(<< <<>> >>) = 1
  BY <1>1, OneElement
<1> QED BY <1>2 DEF Rows

LEMMA SplitGoes ==
    ASSUME NEW text \in Text
    PROVE  \E p : SplitOf(p, text)
<1> DEFINE n == Len(text)
  first == << <<>> >>
  step == [q \in (1..n) \X Rows |-> NextParts(q[2], text[q[1]])]
  Value(h) == [i \in 0..n |-> IF i = 0 THEN << <<>> >>
                              ELSE LET before == h[i - 1] IN
                                   IF text[i] = Space THEN Append(before, <<>>)
                                   ELSE [before EXCEPT ![Len(before)] = Append(@, text[i])]]
  p == CHOOSE h : h = Value(h)
<1>1. n \in Nat /\ first \in Rows /\ \A k \in 1..n : text[k] \in Tokens
  BY OneRow DEF Text
<1>2. step \in [(1..n) \X Rows -> Rows]
  <2>1. ASSUME NEW q \in (1..n) \X Rows PROVE NextParts(q[2], text[q[1]]) \in Rows
    <3>1. q[1] \in 1..n /\ q[2] \in Rows
      OBVIOUS
    <3> QED BY <1>1, <3>1, NextPartsIn
  <2> HIDE DEF n
  <2> QED BY <2>1
<1>3. PICK g : RunOf(g, n, Rows, first, step)
  <2> HIDE DEF step, n, first
  <2> QED BY <1>1, <1>2, Recursion
<1>4. g \in [0..n -> Rows] /\ g[0] = first
  BY <1>3 DEF RunOf
<1>5. ASSUME NEW k \in 1..n PROVE g[k] = NextParts(g[k - 1], text[k])
  <2>1. k - 1 \in 0..n
    BY <1>1
  <2>2. g[k] = step[<<k, g[k - 1]>>] /\ <<k, g[k - 1]>> \in (1..n) \X Rows
    BY <1>3, <1>4, <2>1 DEF RunOf
  <2> HIDE DEF n
  <2> QED BY <2>2
<1>6. ASSUME NEW h, NEW i \in 0..n
      PROVE  Value(h)[i] = IF i = 0 THEN first ELSE NextParts(h[i - 1], text[i])
  BY DEF NextParts
<1>7. g = Value(g)
  <2>1. ASSUME NEW i \in 0..n PROVE g[i] = Value(g)[i]
    <3>1. CASE i = 0
      BY <1>4, <1>6, <3>1
    <3>2. CASE i # 0
      <4>1. i \in 1..n
        BY <1>1, <3>2
      <4> HIDE DEF n, Value
      <4> QED BY <1>5, <1>6, <3>2, <4>1
    <3> QED BY <3>1, <3>2
  <2>2. g = [i \in 0..n |-> g[i]] /\ Value(g) = [i \in 0..n |-> Value(g)[i]]
    BY <1>4
  <2>3. [i \in 0..n |-> g[i]] = [i \in 0..n |-> Value(g)[i]]
    BY <2>1
  <2> QED BY <2>2, <2>3, Zenon
<1>8. p = Value(p)
  <2> HIDE DEF Value
  <2> QED BY <1>7, Zenon
<1>9. splitString(text, Space) = p[n]
  BY Zenon DEF splitString
<1>10. p = [i \in 0..n |-> Value(p)[i]]
  BY <1>8
<1> HIDE DEF p, Value
<1>11. p[0] = first
  BY <1>1, <1>6, <1>8
<1>12. ASSUME NEW k \in 1..n PROVE p[k] = NextParts(p[k - 1], text[k])
  <2>1. k \in 0..n /\ k # 0
    BY <1>1
  <2> QED BY <1>6, <1>8, <2>1
<1> DEFINE T == {k \in Nat : k <= n => p[k] \in Rows}
<1>13. T = Nat
  <2>1. 0 \in T
    BY <1>1, <1>11
  <2>2. ASSUME NEW k \in T PROVE k + 1 \in T
    <3> SUFFICES ASSUME k + 1 <= n PROVE p[k + 1] \in Rows
      BY <2>2
    <3>1. k + 1 \in 1..n /\ (k + 1) - 1 = k /\ p[k] \in Rows
      BY <1>1, <2>2
    <3>2. p[k + 1] = NextParts(p[k], text[k + 1])
      BY <1>12, <3>1
    <3> QED BY <1>1, <3>1, <3>2, NextPartsIn
  <2> HIDE DEF T
  <2>3. T \in SUBSET Nat
    BY DEF T
  <2> QED BY <2>1, <2>2, <2>3, Induction
<1>14. ASSUME NEW k \in 0..n PROVE p[k] \in Rows
  <2>1. k \in Nat /\ k <= n
    BY <1>1
  <2>2. k \in T
    <3> HIDE DEF T
    <3> QED BY <1>13, <2>1
  <2> QED BY <2>1, <2>2
<1>15. p \in [0..n -> Rows]
  <2> HIDE DEF n
  <2> QED BY <1>8, <1>10, <1>14
<1> QED BY <1>9, <1>11, <1>12, <1>15 DEF SplitOf

LEMMA SplitEmpty == splitString(<<>>, Space) = << <<>> >>
<1>1. <<>> \in Text /\ Len(<<>>) = 0
  BY DEF Text
<1>2. PICK p : SplitOf(p, <<>>)
  BY <1>1, SplitGoes
<1> QED BY <1>1, <1>2 DEF SplitOf

LEMMA SplitAppend ==
    ASSUME NEW text \in Text, NEW token \in Tokens
    PROVE  /\ splitString(text, Space) \in Rows
           /\ splitString(Append(text, token), Space) = NextParts(splitString(text, Space), token)
<1> DEFINE n == Len(text)
  more == Append(text, token)
<1>1. n \in Nat /\ more \in Text /\ Len(more) = n + 1 /\ more[n + 1] = token
  BY AppendIs DEF Text
<1>2. \A k \in 1..n : more[k] = text[k]
  BY AppendIs DEF Text
<1>3. PICK p : SplitOf(p, text)
  BY SplitGoes
<1>4. PICK q : SplitOf(q, more)
  BY <1>1, SplitGoes
<1> HIDE DEF more
<1> DEFINE S == {k \in Nat : k <= n => p[k] = q[k]}
<1>5. 0 \in S
  BY <1>3, <1>4 DEF SplitOf
<1>6. ASSUME NEW k \in S PROVE k + 1 \in S
  <2> SUFFICES ASSUME k + 1 <= n PROVE p[k + 1] = q[k + 1]
    BY <1>6
  <2>1. k \in Nat /\ k + 1 \in 1..n /\ k + 1 \in 1..Len(more) /\ (k + 1) - 1 = k /\ p[k] = q[k]
    BY <1>1, <1>6
  <2>2. p[k + 1] = NextParts(p[k], text[k + 1])
    BY <1>3, <2>1 DEF SplitOf
  <2>3. q[k + 1] = NextParts(q[k], more[k + 1])
    BY <1>4, <2>1 DEF SplitOf
  <2> HIDE DEF n
  <2> QED BY <1>2, <2>1, <2>2, <2>3
<1>7. S = Nat
  <2> HIDE DEF S
  <2>1. S \in SUBSET Nat
    BY DEF S
  <2> QED BY <1>5, <1>6, <2>1, Induction
<1>8. p[n] = q[n]
  <2>1. n \in S
    <3> HIDE DEF S, n
    <3> QED BY <1>1, <1>7
  <2> QED BY <1>1, <2>1
<1>9. splitString(text, Space) = p[n] /\ p[n] \in Rows
  BY <1>1, <1>3 DEF SplitOf
<1>10. splitString(more, Space) = q[n + 1] /\ q[n + 1] = NextParts(q[n], more[n + 1])
  <2>1. n + 1 \in 1..Len(more) /\ (n + 1) - 1 = n /\ Len(more) = n + 1
    BY <1>1
  <2> HIDE DEF n
  <2> QED BY <1>4, <2>1 DEF SplitOf
<1> HIDE DEF n
<1>11. splitString(more, Space) = NextParts(splitString(text, Space), token)
  BY <1>1, <1>8, <1>9, <1>10
<1> QED BY <1>9, <1>11 DEF more

LEMMA SplitIn ==
    ASSUME NEW text \in Text
    PROVE  splitString(text, Space) \in Seq(Text) \ {<<>>}
<1>1. PICK token \in Tokens : TRUE
  BY TokenAssumption
<1> QED BY <1>1, SplitAppend DEF Rows

LEMMA BlankIsText == <<Space>> \in Text /\ <<>> \in Text /\ Space \in Tokens
<1>1. <<Space>> = Gap(2) /\ 2 \in Nat /\ <<>> = Gap(0) /\ 0 \in Nat
  BY DEF Gap
<1>2. <<Space>> \in Text /\ <<>> \in Text
  BY <1>1, GapIsText
<1> QED BY <1>2, TokenAssumption

LEMMA NoBlankAppend ==
    ASSUME NEW text \in Text, NEW token \in Tokens, ~HasBlank(Append(text, token))
    PROVE  ~HasBlank(text) /\ token # Space
<1>1. /\ Len(Append(text, token)) = Len(text) + 1 /\ Len(text) \in Nat
      /\ \A i \in 1..Len(text) : Append(text, token)[i] = text[i]
      /\ Append(text, token)[Len(text) + 1] = token
  BY AppendIs DEF Text
<1> QED BY <1>1 DEF HasBlank, Holds

\* A text without blanks is one word.
LEMMA SplitWord ==
    ASSUME NEW word \in Text, ~HasBlank(word)
    PROVE  splitString(word, Space) = <<word>>
<1> DEFINE T == {text \in Seq(Tokens) : HasBlank(text) \/ splitString(text, Space) = <<text>>}
<1>1. <<>> \in T
  BY SplitEmpty
<1>2. ASSUME NEW text \in T, NEW token \in Tokens PROVE Append(text, token) \in T
  <2>1. text \in Text /\ Append(text, token) \in Text
    BY AppendIs DEF Text
  <2> SUFFICES ASSUME ~HasBlank(Append(text, token))
               PROVE  splitString(Append(text, token), Space) = <<Append(text, token)>>
    BY <2>1 DEF Text
  <2>2. token # Space /\ splitString(text, Space) = <<text>>
    BY <2>1, NoBlankAppend
  <2>3. splitString(Append(text, token), Space) = NextParts(<<text>>, token)
    BY <2>1, <2>2, SplitAppend
  <2> DEFINE last == Append(text, token)
  <2>4. NextParts(<<text>>, token) = [<<text>> EXCEPT ![1] = last]
    <3>1. Len(<<text>>) = 1 /\ <<text>>[1] = text
      OBVIOUS
    <3> QED BY <2>2, <3>1 DEF NextParts
  <2> HIDE DEF last
  <2>5. [<<text>> EXCEPT ![1] = last] = <<last>>
    OBVIOUS
  <2> QED BY <2>3, <2>4, <2>5 DEF last
<1>3. T = Seq(Tokens)
  <2> HIDE DEF T
  <2>1. T \in SUBSET Seq(Tokens)
    BY DEF T
  <2> QED BY <1>1, <1>2, <2>1, SeqInduction
<1>4. word \in T
  <2> HIDE DEF T
  <2> QED BY <1>3 DEF Text
<1> QED BY <1>4

\* The last of two rows changes.
LEMMA ExceptLast ==
    ASSUME NEW V, NEW s \in Seq(V), NEW t \in Seq(V), t # <<>>, NEW last \in V
    PROVE  LET n == Len(s \o t) IN
           /\ n \in Nat /\ (s \o t)[n] = t[Len(t)]
           /\ [s \o t EXCEPT ![n] = last] = s \o [t EXCEPT ![Len(t)] = last]
<1> DEFINE x == [s \o t EXCEPT ![Len(s \o t)] = last]
  y == [t EXCEPT ![Len(t)] = last]
<1>1. Len(t) \in Nat \ {0} /\ Len(s) \in Nat
  OBVIOUS
<1>2. /\ s \o t \in Seq(V) /\ Len(s \o t) = Len(s) + Len(t)
      /\ \A i \in 1..Len(s) : (s \o t)[i] = s[i]
      /\ \A i \in 1..Len(t) : (s \o t)[Len(s) + i] = t[i]
  BY ConcatParts
<1>3. /\ x \in Seq(V) /\ Len(x) = Len(s) + Len(t)
      /\ \A i \in 1..(Len(s) + Len(t)) :
             x[i] = IF i = Len(s) + Len(t) THEN last ELSE (s \o t)[i]
  <2>1. PICK u : u = s \o t
    OBVIOUS
  <2>2. u \in Seq(V) /\ Len(u) = Len(s) + Len(t)
    BY <1>2, <2>1
  <2>3. /\ [u EXCEPT ![Len(u)] = last] \in Seq(V) /\ Len([u EXCEPT ![Len(u)] = last]) = Len(u)
        /\ \A i \in 1..Len(u) : [u EXCEPT ![Len(u)] = last][i] = IF i = Len(u) THEN last ELSE u[i]
    BY <2>2
  <2> QED BY <2>1, <2>2, <2>3
<1>4. /\ y \in Seq(V) /\ Len(y) = Len(t)
      /\ \A i \in 1..Len(t) : y[i] = IF i = Len(t) THEN last ELSE t[i]
  OBVIOUS
<1> HIDE DEF x, y
<1>5. PICK z : z = s \o y
  OBVIOUS
<1>6. /\ z \in Seq(V) /\ Len(z) = Len(s) + Len(y)
      /\ \A i \in 1..Len(s) : z[i] = s[i]
      /\ \A i \in 1..Len(y) : z[Len(s) + i] = y[i]
  <2>1. y \in Seq(V)
    BY <1>4
  <2>2. /\ s \o y \in Seq(V) /\ Len(s \o y) = Len(s) + Len(y)
        /\ \A i \in 1..Len(s) : (s \o y)[i] = s[i]
        /\ \A i \in 1..Len(y) : (s \o y)[Len(s) + i] = y[i]
    BY <2>1, ConcatParts
  <2> QED BY <1>5, <2>2
<1>7. ASSUME NEW i \in 1..(Len(s) + Len(t)) PROVE x[i] = z[i]
  <2>1. CASE i <= Len(s)
    <3>1. i \in 1..Len(s) /\ i # Len(s) + Len(t)
      BY <1>1, <2>1
    <3> QED BY <1>2, <1>3, <1>6, <3>1
  <2>2. CASE ~ (i <= Len(s))
    <3>1. PICK j \in 1..Len(t) : i = Len(s) + j
      <4>1. i - Len(s) \in 1..Len(t) /\ i = Len(s) + (i - Len(s))
        BY <1>1, <2>2
      <4> QED BY <4>1
    <3>2. (i = Len(s) + Len(t)) <=> (j = Len(t))
      BY <1>1, <3>1
    <3>3. (s \o t)[i] = t[j] /\ z[i] = y[j]
      BY <1>2, <1>4, <1>6, <3>1
    <3>4. x[i] = IF i = Len(s) + Len(t) THEN last ELSE (s \o t)[i]
      BY <1>3
    <3>5. y[j] = IF j = Len(t) THEN last ELSE t[j]
      BY <1>4
    <3> QED BY <3>2, <3>3, <3>4, <3>5
  <2> QED BY <2>1, <2>2
<1>8. x = z
  BY <1>3, <1>4, <1>6, <1>7, SameSeq
<1>9. Len(s \o t) \in Nat /\ (s \o t)[Len(s \o t)] = t[Len(t)]
  <2>1. Len(t) \in 1..Len(t)
    BY <1>1
  <2> QED BY <1>1, <1>2, <2>1
<1> QED BY <1>5, <1>8, <1>9 DEF x, y

LEMMA AppendConcatRows ==
    ASSUME NEW rows \in Seq(Text), NEW parts \in Seq(Text), NEW text \in Text
    PROVE  Append(rows \o parts, text) = rows \o Append(parts, text)
<1>1. PICK V : V = Text
  OBVIOUS
<1>2. rows \in Seq(V) /\ parts \in Seq(V) /\ text \in V
  BY <1>1
<1> QED BY <1>2, AppendConcat

LEMMA NextPartsConcat ==
    ASSUME NEW rows \in Seq(Text), NEW parts \in Rows, NEW token \in Tokens
    PROVE  NextParts(rows \o parts, token) = rows \o NextParts(parts, token)
<1>1. parts \in Seq(Text) /\ parts # <<>>
  BY DEF Rows
<1>2. CASE token = Space
  <2>1. PICK empty \in Text : empty = <<>>
    BY BlankIsText
  <2>2. Append(rows \o parts, empty) = rows \o Append(parts, empty)
    BY <1>1, AppendConcatRows
  <2>3. /\ NextParts(rows \o parts, token) = Append(rows \o parts, empty)
        /\ NextParts(parts, token) = Append(parts, empty)
    BY <1>2, <2>1 DEF NextParts
  <2> QED BY <2>2, <2>3
<1>3. CASE token # Space
  <2>1. PICK last \in Text : last = Append(parts[Len(parts)], token)
    <3>1. parts[Len(parts)] \in Text
      BY <1>1
    <3>2. Append(parts[Len(parts)], token) \in Text
      BY <3>1, AppendIs DEF Text
    <3> QED BY <3>2
  <2>2. LET n == Len(rows \o parts) IN
        /\ n \in Nat /\ (rows \o parts)[n] = parts[Len(parts)]
        /\ [rows \o parts EXCEPT ![n] = last] = rows \o [parts EXCEPT ![Len(parts)] = last]
    BY <1>1, ExceptLast
  <2>3. NextParts(parts, token) = [parts EXCEPT ![Len(parts)] = last]
    BY <1>3, <2>1 DEF NextParts
  <2>4. NextParts(rows \o parts, token) = [rows \o parts EXCEPT ![Len(rows \o parts)] = last]
    BY <1>3, <2>1, <2>2 DEF NextParts
  <2> QED BY <2>2, <2>3, <2>4
<1> QED BY <1>2, <1>3

\* A blank ends a word.
LEMMA SplitConcat ==
    ASSUME NEW text \in Text, NEW rest \in Text
    PROVE  splitString((text \o <<Space>>) \o rest, Space)
               = splitString(text, Space) \o splitString(rest, Space)
<1> DEFINE before == text \o <<Space>>
  parts == splitString(text, Space)
  T == {s \in Seq(Tokens) : splitString(before \o s, Space) = parts \o splitString(s, Space)}
<1>1. before \in Text /\ parts \in Seq(Text) /\ parts \in Rows
  <2>1. before \in Text
    BY BlankIsText, TextConcat
  <2>2. parts \in Seq(Text) \ {<<>>}
    BY SplitIn
  <2> QED BY <2>1, <2>2 DEF Rows
<1>2. <<>> \in T
  <2>1. before \o <<>> = before
    BY <1>1 DEF Text
  <2>2. before = Append(text, Space)
    BY BlankIsText, AppendIs DEF Text
  <2>3. splitString(before, Space) = NextParts(parts, Space)
    BY <2>2, BlankIsText, SplitAppend
  <2>4. NextParts(parts, Space) = Append(parts, <<>>)
    BY DEF NextParts
  <2>5. Append(parts, <<>>) = parts \o << <<>> >>
    BY <1>1, BlankIsText, AppendIs
  <2> HIDE DEF before, parts
  <2>6. splitString(before \o <<>>, Space) = parts \o splitString(<<>>, Space)
    BY <2>1, <2>3, <2>4, <2>5, SplitEmpty
  <2>7. <<>> \in Seq(Tokens)
    OBVIOUS
  <2> QED BY <2>6, <2>7
<1>3. ASSUME NEW s \in T, NEW token \in Tokens PROVE Append(s, token) \in T
  <2> HIDE DEF before, parts
  <2>1. s \in Text /\ Append(s, token) \in Seq(Tokens)
    BY AppendIs DEF Text
  <2>2. before \o Append(s, token) = Append(before \o s, token) /\ before \o s \in Text
    BY <1>1, <2>1, AppendConcat, TextConcat DEF Text
  <2>3. splitString(before \o Append(s, token), Space)
            = NextParts(parts \o splitString(s, Space), token)
    BY <2>2, SplitAppend
  <2>4. splitString(s, Space) \in Rows
    BY <2>1, SplitAppend
  <2>5. splitString(before \o Append(s, token), Space)
            = parts \o NextParts(splitString(s, Space), token)
    BY <1>1, <2>3, <2>4, NextPartsConcat
  <2>6. splitString(Append(s, token), Space) = NextParts(splitString(s, Space), token)
    BY <2>1, SplitAppend
  <2> QED BY <2>1, <2>5, <2>6
<1>4. T = Seq(Tokens)
  <2> HIDE DEF T
  <2>1. T \in SUBSET Seq(Tokens)
    BY DEF T
  <2> QED BY <1>2, <1>3, <2>1, SeqInduction
<1>5. rest \in T
  <2> HIDE DEF T
  <2> QED BY <1>4 DEF Text
<1> QED BY <1>5

NoBlanks(texts) == \A i \in 1..Len(texts) : ~HasBlank(texts[i])

\* The words of a row are its entries, if they have no blanks.
LEMMA SplitRow ==
    ASSUME NEW texts \in Seq(Text), texts # <<>>, NoBlanks(texts)
    PROVE  splitString(Joined(texts), Space) = texts
<1> DEFINE T == {s \in Seq(Text) : NoBlanks(s) /\ s # <<>> => splitString(Joined(s), Space) = s}
<1>1. <<>> \in T
  OBVIOUS
<1>2. ASSUME NEW s \in T, NEW text \in Text PROVE Append(s, text) \in T
  <2>1. /\ s \in Seq(Text) /\ Len(s) \in Nat
        /\ Append(s, text) \in Seq(Text) /\ Len(Append(s, text)) = Len(s) + 1
        /\ \A i \in 1..Len(s) : Append(s, text)[i] = s[i]
        /\ Append(s, text)[Len(s) + 1] = text
    BY AppendIs
  <2> SUFFICES ASSUME NoBlanks(Append(s, text))
               PROVE  splitString(Joined(Append(s, text)), Space) = Append(s, text)
    BY <2>1
  <2>2. NoBlanks(s) /\ ~HasBlank(text)
    BY <2>1 DEF NoBlanks
  <2>3. splitString(text, Space) = <<text>>
    BY <2>2, SplitWord
  <2>4. Joined(s) \in Text /\ Joined(Append(s, text)) = (Joined(s) \o Gap(Len(s) + 1)) \o text
    BY <2>1, JoinedAppend
  <2>5. CASE s = <<>>
    <3>1. Joined(s) = <<>> /\ Gap(Len(s) + 1) = <<>> /\ (<<>> \o <<>>) \o text = text
      BY <2>5, JoinedEmpty DEF Gap, Text
    <3>2. Append(s, text) = <<text>>
      BY <2>5
    <3> QED BY <2>3, <2>4, <3>1, <3>2
  <2>6. CASE s # <<>>
    <3>1. Gap(Len(s) + 1) = <<Space>>
      BY <2>1, <2>6 DEF Gap
    <3>2. splitString(Joined(s), Space) = s
      BY <2>2, <2>6
    <3>3. splitString(Joined(Append(s, text)), Space) = s \o <<text>>
      BY <2>3, <2>4, <3>1, <3>2, SplitConcat
    <3>4. Append(s, text) = s \o <<text>>
      BY <2>1, AppendIs
    <3> QED BY <3>3, <3>4
  <2> QED BY <2>5, <2>6
<1>3. T = Seq(Text)
  <2> HIDE DEF T
  <2>1. T \in SUBSET Seq(Text)
    BY DEF T
  <2> QED BY <1>1, <1>2, <2>1, SeqInduction
<1>4. texts \in T
  <2> HIDE DEF T
  <2> QED BY <1>3
<1> QED BY <1>4

-------------------------------------------------------------------------------
\* Templates and their parameters

LEMMA ParamIndexStep ==
    ASSUME NEW T, NEW i \in Nat
    PROVE  /\ ParamIndex(T, 0) = 0
           /\ ParamIndex(T, i) \in Nat
           /\ IsMatcher(T[i + 1]) => ParamIndex(T, i + 1) = ParamIndex(T, i) + 1
           /\ ~IsMatcher(T[i + 1]) => ParamIndex(T, i + 1) = ParamIndex(T, i)
<1> DEFINE M(k) == {j \in 1..k : IsMatcher(T[j])}
<1>1. ParamIndex(T, 0) = 0
  <2>1. M(0) = {}
    OBVIOUS
  <2> QED BY <2>1, FS_EmptySet DEF ParamIndex
<1>2. IsFiniteSet(M(i)) /\ Cardinality(M(i)) \in Nat
  <2>1. IsFiniteSet(1..i)
    BY FS_Interval
  <2>2. M(i) \subseteq 1..i
    OBVIOUS
  <2>3. IsFiniteSet(M(i))
    BY <2>1, <2>2, FS_Subset, Zenon
  <2> QED BY <2>3, FS_CardinalityType
<1>3. IsMatcher(T[i + 1]) => M(i + 1) = M(i) \union {i + 1}
  OBVIOUS
<1>4. ~IsMatcher(T[i + 1]) => M(i + 1) = M(i)
  OBVIOUS
<1>5. i + 1 \notin M(i)
  OBVIOUS
<1> HIDE DEF M
<1>6. Cardinality(M(i) \union {i + 1}) = Cardinality(M(i)) + 1
  BY <1>2, <1>5, FS_AddElement
<1>7. ParamIndex(T, i) = Cardinality(M(i)) /\ ParamIndex(T, i + 1) = Cardinality(M(i + 1))
  BY DEF ParamIndex, M
<1> QED BY <1>1, <1>2, <1>3, <1>4, <1>6, <1>7

\* No two matchers have the same number, and a matcher's is above those before it.
LEMMA ParamIndexGrows ==
    ASSUME NEW T, NEW i \in Nat, NEW k \in Nat
    PROVE  /\ ParamIndex(T, i) <= ParamIndex(T, i + k)
           /\ k > 0 /\ IsMatcher(T[i + k]) => ParamIndex(T, i) < ParamIndex(T, i + k)
<1> DEFINE S == {d \in Nat : ParamIndex(T, i) <= ParamIndex(T, i + d)}
<1>1. 0 \in S
  <2>1. ParamIndex(T, i) \in Nat /\ i + 0 = i
    BY ParamIndexStep
  <2> QED BY <2>1
<1>2. ASSUME NEW d \in S PROVE d + 1 \in S
  <2>1. i + d \in Nat /\ i + (d + 1) = (i + d) + 1 /\ d + 1 \in Nat
    OBVIOUS
  <2>2. /\ ParamIndex(T, i) \in Nat /\ ParamIndex(T, i + d) \in Nat
        /\ ParamIndex(T, i + d) <= ParamIndex(T, (i + d) + 1)
    BY <2>1, ParamIndexStep
  <2>3. ParamIndex(T, (i + d) + 1) \in Nat
    BY <2>1, ParamIndexStep
  <2>4. ParamIndex(T, i) <= ParamIndex(T, i + d)
    OBVIOUS
  <2> QED BY <2>1, <2>2, <2>3, <2>4
<1>3. S = Nat
  <2> HIDE DEF S
  <2>1. S \in SUBSET Nat
    BY DEF S
  <2> QED BY <1>1, <1>2, <2>1, Induction
<1>4. \A d \in Nat : ParamIndex(T, i) <= ParamIndex(T, i + d)
  <2>1. \A d \in Nat : d \in S
    <3> HIDE DEF S
    <3> QED BY <1>3
  <2> QED BY <2>1
<1> HIDE DEF S
<1>5. ASSUME k > 0, IsMatcher(T[i + k]) PROVE ParamIndex(T, i) < ParamIndex(T, i + k)
  <2>1. k - 1 \in Nat /\ (i + (k - 1)) + 1 = i + k /\ i + (k - 1) \in Nat
    BY <1>5
  <2>2. /\ ParamIndex(T, i) \in Nat /\ ParamIndex(T, i + (k - 1)) \in Nat
        /\ ParamIndex(T, (i + (k - 1)) + 1) = ParamIndex(T, i + (k - 1)) + 1
    BY <1>5, <2>1, ParamIndexStep
  <2>3. ParamIndex(T, i) <= ParamIndex(T, i + (k - 1))
    BY <1>4, <2>1
  <2>4. ParamIndex(T, i + k) = ParamIndex(T, i + (k - 1)) + 1
    BY <2>1, <2>2
  <2> HIDE DEF S
  <2> QED BY <2>2, <2>3, <2>4
<1> QED BY <1>4, <1>5

LEMMA ParamIndexTells ==
    ASSUME NEW T, NEW i \in Nat, NEW j \in Nat, IsMatcher(T[i]), IsMatcher(T[j]),
           ParamIndex(T, i) = ParamIndex(T, j)
    PROVE  i = j
<1>1. ParamIndex(T, i) \in Nat /\ ParamIndex(T, j) \in Nat
  BY ParamIndexStep
<1>2. CASE i < j
  <2>1. j - i \in Nat /\ j - i > 0 /\ i + (j - i) = j
    BY <1>2
  <2>2. ParamIndex(T, i) < ParamIndex(T, i + (j - i))
    BY <2>1, ParamIndexGrows
  <2> QED BY <1>1, <2>1, <2>2
<1>3. CASE j < i
  <2>1. i - j \in Nat /\ i - j > 0 /\ j + (i - j) = i
    BY <1>3
  <2>2. ParamIndex(T, j) < ParamIndex(T, j + (i - j))
    BY <2>1, ParamIndexGrows
  <2> QED BY <1>1, <2>1, <2>2
<1> QED BY <1>2, <1>3

LEMMA ParamIndexWithin ==
    ASSUME NEW T, NEW i \in Nat, NEW n \in Nat, i <= n
    PROVE  /\ ParamIndex(T, i) <= ParamIndex(T, n)
           /\ i # 0 /\ IsMatcher(T[i]) => ParamIndex(T, i) \in 1..ParamIndex(T, n)
<1>1. n - i \in Nat /\ i + (n - i) = n
  OBVIOUS
<1>2. ParamIndex(T, i) <= ParamIndex(T, n)
  BY <1>1, ParamIndexGrows
<1>3. ASSUME i # 0, IsMatcher(T[i]) PROVE ParamIndex(T, i) \in 1..ParamIndex(T, n)
  <2>1. i > 0 /\ 0 + i = i
    BY <1>3
  <2>2. ParamIndex(T, 0) < ParamIndex(T, 0 + i)
    BY <1>3, <2>1, ParamIndexGrows
  <2>3. ParamIndex(T, 0) = 0 /\ ParamIndex(T, i) \in Nat /\ ParamIndex(T, n) \in Nat
    BY ParamIndexStep
  <2> QED BY <1>2, <2>1, <2>2, <2>3
<1> QED BY <1>2, <1>3

\* One parameter for each matcher of the first n entries, of the matcher's kind.
AllParams == UNION {ParamsOf(kind) : kind \in Matchers}

Fitting(list, T, n) ==
    /\ list \in Seq(AllParams)
    /\ Len(list) = ParamIndex(T, n)
    /\ \A i \in 1..n : IsMatcher(T[i]) => list[ParamIndex(T, i)] \in ParamsOf(T[i].kind)

LEMMA FittingLiteral ==
    ASSUME NEW T, NEW n \in Nat, NEW list, Fitting(list, T, n), ~IsMatcher(T[n + 1])
    PROVE  Fitting(list, T, n + 1)
<1>1. ParamIndex(T, n + 1) = ParamIndex(T, n)
  BY ParamIndexStep
<1>2. \A i \in 1..(n + 1) : i \in 1..n \/ i = n + 1
  OBVIOUS
<1> QED BY <1>1, <1>2 DEF Fitting

LEMMA FittingMatcher ==
    ASSUME NEW T, NEW n \in Nat, NEW list, Fitting(list, T, n), IsMatcher(T[n + 1]),
           NEW param \in ParamsOf(T[n + 1].kind)
    PROVE  Fitting(Append(list, param), T, n + 1)
<1> DEFINE more == Append(list, param)
<1>1. list \in Seq(AllParams) /\ Len(list) = ParamIndex(T, n) /\ param \in AllParams
  BY DEF Fitting, AllParams, IsMatcher
<1>2. /\ more \in Seq(AllParams) /\ Len(more) = Len(list) + 1
      /\ \A i \in 1..Len(list) : more[i] = list[i]
      /\ more[Len(list) + 1] = param
  BY <1>1, AppendIs
<1>3. ParamIndex(T, n + 1) = ParamIndex(T, n) + 1
  BY ParamIndexStep
<1> HIDE DEF more
<1>4. ASSUME NEW i \in 1..(n + 1), IsMatcher(T[i]) PROVE more[ParamIndex(T, i)] \in ParamsOf(T[i].kind)
  <2>1. CASE i = n + 1
    BY <1>1, <1>2, <1>3, <2>1
  <2>2. CASE i # n + 1
    <3>1. i \in 1..n /\ i \in Nat /\ i <= n /\ i # 0
      BY <2>2
    <3>2. ParamIndex(T, i) \in 1..Len(list)
      BY <1>1, <1>4, <3>1, ParamIndexWithin
    <3>3. list[ParamIndex(T, i)] \in ParamsOf(T[i].kind)
      BY <1>4, <3>1 DEF Fitting
    <3> QED BY <1>2, <3>2, <3>3
  <2> QED BY <2>1, <2>2
<1> QED BY <1>1, <1>2, <1>3, <1>4 DEF Fitting, more

\* The numbers of the matchers do not depend on what follows.
LEMMA ParamIndexPrefix ==
    ASSUME NEW T, NEW U, NEW n \in Nat, \A i \in 1..n : T[i] = U[i]
    PROVE  \A i \in 0..n : ParamIndex(T, i) = ParamIndex(U, i)
<1>1. ASSUME NEW i \in 0..n PROVE ParamIndex(T, i) = ParamIndex(U, i)
  <2>1. {j \in 1..i : IsMatcher(T[j])} = {j \in 1..i : IsMatcher(U[j])}
    OBVIOUS
  <2> QED BY <2>1 DEF ParamIndex
<1> QED BY <1>1

LEMMA FittingPrefix ==
    ASSUME NEW T, NEW U, NEW n \in Nat, \A i \in 1..n : T[i] = U[i], NEW list, Fitting(list, T, n)
    PROVE  Fitting(list, U, n)
<1>1. \A i \in 0..n : ParamIndex(T, i) = ParamIndex(U, i)
  BY ParamIndexPrefix
<1>2. n \in 0..n /\ \A i \in 1..n : i \in 0..n
  OBVIOUS
<1> QED BY <1>1, <1>2 DEF Fitting

\* The template that a behaviour writes, and its parameters.
TemplateWritten == template \in Seq(Entries) /\ Fitting(params, template, Len(template))

LEMMA EntryForms ==
    ASSUME NEW entry \in Entries
    PROVE  /\ IsMatcher(entry) => entry \in [kind : Matchers]
           /\ ~IsMatcher(entry) => entry.text \in Literals /\ entry.kind = "literal"
<1>1. "literal" \notin Matchers
  BY DEF Matchers
<1> QED BY <1>1 DEF Entries, IsMatcher

LEMMA TemplateInvariant == Spec => []TemplateWritten
<1>1. Init => TemplateWritten
  <2> SUFFICES ASSUME Init PROVE TemplateWritten
    OBVIOUS
  <2>1. template = <<>> /\ params = <<>> /\ Len(template) = 0 /\ Len(params) = 0
    BY DEF Init
  <2> QED BY <2>1, ParamIndexStep DEF TemplateWritten, Fitting
<1>2. TemplateWritten /\ [Next]_vars => TemplateWritten'
  <2> SUFFICES ASSUME TemplateWritten, [Next]_vars PROVE TemplateWritten'
    OBVIOUS
  <2> DEFINE n == Len(template)
  <2>1. ASSUME UNCHANGED <<template, params>> PROVE TemplateWritten'
    BY <2>1 DEF TemplateWritten, Fitting
  <2>2. ASSUME NEW entry \in Entries, AppendEntry(entry) PROVE TemplateWritten'
    <3>1. template \in Seq(Entries) /\ Fitting(params, template, n) /\ n \in Nat
      BY DEF TemplateWritten
    <3>2. template' = Append(template, entry)
      BY <2>2 DEF AppendEntry, AppendLiteral, AppendMatcher
    <3>3. /\ template' \in Seq(Entries) /\ Len(template') = n + 1
          /\ \A i \in 1..n : template'[i] = template[i]
          /\ template'[n + 1] = entry
      BY <3>1, <3>2, AppendIs
    <3>4. Fitting(params, template', n)
      <4> HIDE DEF n
      <4> QED BY <3>1, <3>3, FittingPrefix
    <3>5. CASE ~IsMatcher(entry)
      <4>1. params' = params
        BY <2>2, <3>5 DEF AppendEntry, AppendLiteral
      <4>2. Fitting(params, template', n + 1)
        <5> HIDE DEF n
        <5> QED BY <3>1, <3>3, <3>4, <3>5, FittingLiteral
      <4> QED BY <3>3, <4>1, <4>2 DEF TemplateWritten, Fitting
    <3>6. CASE IsMatcher(entry)
      <4>1. PICK param \in ParamsOf(entry.kind) : params' = Append(params, param)
        BY <2>2, <3>6 DEF AppendEntry, AppendMatcher
      <4>2. Fitting(Append(params, param), template', n + 1)
        <5> HIDE DEF n
        <5> QED BY <3>1, <3>3, <3>4, <3>6, FittingMatcher
      <4> QED BY <3>3, <4>1, <4>2 DEF TemplateWritten, Fitting
    <3> QED BY <3>5, <3>6
  <2> QED BY <2>1, <2>2 DEF Next, AppendDigit, BeginRequest, AskEntry, AskParam, vars
<1> QED BY <1>1, <1>2, PTL DEF Spec

-------------------------------------------------------------------------------
\* A parameter read back

TextsOf(list, T, stringCase) == [i \in 1..Len(T) |-> EntryText(list, T, i, stringCase)]

LEMMA EntriesPrinted ==
    ASSUME NEW T \in Seq(Entries), NEW list, Fitting(list, T, Len(T)), NEW stringCase \in StringCases
    PROVE  /\ TextsOf(list, T, stringCase) \in Seq(Text)
           /\ Len(TextsOf(list, T, stringCase)) = Len(T)
           /\ \A i \in 1..Len(T) : TextsOf(list, T, stringCase)[i] = EntryText(list, T, i, stringCase)
<1>1. Len(T) \in Nat
  OBVIOUS
<1>2. ASSUME NEW i \in 1..Len(T) PROVE EntryText(list, T, i, stringCase) \in Text
  <2>1. T[i] \in Entries
    OBVIOUS
  <2>2. CASE IsMatcher(T[i])
    <3>1. list[ParamIndex(T, i)] \in ParamsOf(T[i].kind) /\ T[i].kind \in Matchers
      BY <2>2 DEF Fitting, IsMatcher
    <3>2. Shown(T[i].kind, list[ParamIndex(T, i)], stringCase) \in Text
      BY <3>1, TemplateAssumption
    <3> QED BY <2>2, <3>2 DEF EntryText
  <2>3. CASE ~IsMatcher(T[i])
    <3>1. T[i].text \in Text
      BY <2>1, <2>3, EntryForms, TemplateAssumption
    <3> QED BY <2>3, <3>1 DEF EntryText
  <2> QED BY <2>2, <2>3
<1> QED BY <1>1, <1>2 DEF TextsOf

\* A sequence is its first elements and the others.
LEMMA CutIs ==
    ASSUME NEW V, NEW s \in Seq(V), NEW i \in 0..Len(s)
    PROVE  /\ SubSeq(s, 1, i) \in Seq(V) /\ Len(SubSeq(s, 1, i)) = i
           /\ \A j \in 1..i : SubSeq(s, 1, i)[j] = s[j]
           /\ SubSeq(s, i + 1, Len(s)) \in Seq(V) /\ Len(SubSeq(s, i + 1, Len(s))) = Len(s) - i
           /\ \A j \in 1..(Len(s) - i) : SubSeq(s, i + 1, Len(s))[j] = s[i + j]
           /\ s = SubSeq(s, 1, i) \o SubSeq(s, i + 1, Len(s))
<1> DEFINE a == SubSeq(s, 1, i)
  b == SubSeq(s, i + 1, Len(s))
<1>1. Len(s) \in Nat /\ \A j \in 1..Len(s) : s[j] \in V
  OBVIOUS
<1>2. a \in Seq(V) /\ Len(a) = i /\ \A j \in 1..i : a[j] = s[j]
  <2>1. a = [j \in 1..i |-> s[j]]
    OBVIOUS
  <2>2. \A j \in 1..i : s[j] \in V
    BY <1>1
  <2> HIDE DEF a
  <2> QED BY <2>1, <2>2
<1>3. b \in Seq(V) /\ Len(b) = Len(s) - i /\ \A j \in 1..(Len(s) - i) : b[j] = s[i + j]
  <2>1. b = [j \in 1..(Len(s) - i) |-> s[i + j]]
    <3>1. b = [j \in 1..(Len(s) - (i + 1) + 1) |-> s[(i + 1) + j - 1]]
      OBVIOUS
    <3>2. Len(s) - (i + 1) + 1 = Len(s) - i /\ \A j \in 1..(Len(s) - i) : (i + 1) + j - 1 = i + j
      OBVIOUS
    <3> HIDE DEF b
    <3> QED BY <3>1, <3>2
  <2>2. \A j \in 1..(Len(s) - i) : s[i + j] \in V
    BY <1>1
  <2>3. Len(s) - i \in Nat
    OBVIOUS
  <2> HIDE DEF b
  <2> QED BY <2>1, <2>2, <2>3
<1> HIDE DEF a, b
<1>4. /\ a \o b \in Seq(V) /\ Len(a \o b) = Len(a) + Len(b)
      /\ \A j \in 1..Len(a) : (a \o b)[j] = a[j]
      /\ \A j \in 1..Len(b) : (a \o b)[Len(a) + j] = b[j]
  <2>1. a \in Seq(V) /\ b \in Seq(V)
    BY <1>2, <1>3
  <2> QED BY <2>1, ConcatParts
<1>5. ASSUME NEW j \in 1..Len(s) PROVE s[j] = (a \o b)[j]
  <2>1. CASE j <= i
    <3>1. j \in 1..i /\ j \in 1..Len(a)
      BY <1>1, <1>2, <2>1
    <3> QED BY <1>2, <1>4, <3>1
  <2>2. CASE ~ (j <= i)
    <3>1. j - i \in 1..(Len(s) - i) /\ i + (j - i) = j
      BY <1>1, <2>2
    <3>2. b[j - i] = s[j] /\ (a \o b)[i + (j - i)] = b[j - i]
      BY <1>2, <1>3, <1>4, <3>1
    <3> QED BY <3>1, <3>2
  <2> QED BY <2>1, <2>2
<1>6. s = a \o b
  <2>1. Len(s) = Len(a \o b)
    BY <1>1, <1>2, <1>3, <1>4
  <2> QED BY <1>4, <1>5, <2>1, SameSeq
<1> QED BY <1>2, <1>3, <1>6 DEF a, b

LEMMA Cut ==
    ASSUME NEW V, NEW s \in Seq(V), NEW i \in 0..Len(s)
    PROVE  \E a \in Seq(V), b \in Seq(V) :
               /\ s = a \o b /\ Len(a) = i /\ Len(b) = Len(s) - i
               /\ \A j \in 1..i : a[j] = s[j]
               /\ \A j \in 1..Len(b) : b[j] = s[i + j]
<1>1. PICK a, b : a = SubSeq(s, 1, i) /\ b = SubSeq(s, i + 1, Len(s))
  OBVIOUS
<1>2. /\ a \in Seq(V) /\ b \in Seq(V) /\ s = a \o b /\ Len(a) = i /\ Len(b) = Len(s) - i
      /\ \A j \in 1..i : a[j] = s[j]
      /\ \A j \in 1..Len(b) : b[j] = s[i + j]
  BY <1>1, CutIs
<1> QED BY <1>2

\* The first words of a row are its first entries, as long as these have no blanks.
LEMMA WordOfRow ==
    ASSUME NEW texts \in Seq(Text), NEW i \in 1..Len(texts),
           \A j \in 1..i : ~HasBlank(texts[j])
    PROVE  LET words == splitString(Joined(texts), Space) IN
           /\ Len(words) \in Nat /\ i <= Len(words)
           /\ words[i] = texts[i]
<1> DEFINE words == splitString(Joined(texts), Space)
<1>1. i \in 0..Len(texts) /\ Len(texts) \in Nat
  OBVIOUS
<1>2. PICK a \in Seq(Text), b \in Seq(Text) :
          texts = a \o b /\ Len(a) = i /\ \A j \in 1..i : a[j] = texts[j]
  BY <1>1, Cut
<1>3. a # <<>> /\ NoBlanks(a) /\ i \in 1..i
  BY <1>2 DEF NoBlanks
<1>4. splitString(Joined(a), Space) = a
  BY <1>3, SplitRow
<1>5. CASE b = <<>>
  <2>1. texts = a
    BY <1>2, <1>5
  <2> QED BY <1>2, <1>3, <1>4, <2>1
<1>6. CASE b # <<>>
  <2>1. Joined(a) \in Text /\ Joined(b) \in Text
    BY JoinedIsText
  <2>2. Joined(texts) = (Joined(a) \o <<Space>>) \o Joined(b)
    BY <1>2, <1>3, <1>6, JoinedConcat
  <2>3. words = a \o splitString(Joined(b), Space)
    BY <1>4, <2>1, <2>2, SplitConcat
  <2> DEFINE rest == splitString(Joined(b), Space)
  <2>4. rest \in Seq(Text)
    BY <2>1, SplitIn
  <2> HIDE DEF rest
  <2>5. Len(a \o rest) = Len(a) + Len(rest) /\ \A j \in 1..Len(a) : (a \o rest)[j] = a[j]
    BY <2>4, ConcatParts
  <2>6. Len(rest) \in Nat
    BY <2>4
  <2>7. words = a \o rest
    BY <2>3 DEF rest
  <2> HIDE DEF words
  <2> QED BY <1>2, <1>3, <2>5, <2>6, <2>7 DEF words
<1> QED BY <1>5, <1>6

\* Whatever template and parameters, and whatever a contract prints of them.
THEOREM ParamReads == Spec => []ParamReadsBack
<1>1. TemplateWritten => ParamReadsBack
  <2> SUFFICES ASSUME TemplateWritten, NEW i \in 1..Len(template), NEW stringCase \in StringCases,
                      IsMatcher(template[i]),
                      \A j \in 1..i : ~HasBlank(EntryText(params, template, j, stringCase))
               PROVE  extractCommandParamByIndex(template, Command(stringCase),
                                                 ParamIndex(template, i) - 1)
                          = [panics |-> FALSE, text |-> EntryText(params, template, i, stringCase)]
    BY DEF ParamReadsBack
  <2> DEFINE texts == TextsOf(params, template, stringCase)
    words == splitString(Command(stringCase), Space)
    found == getParamWordIndex(template, ParamIndex(template, i) - 1)
    wordIndex == CHOOSE k \in found : TRUE
  <2>1. /\ texts \in Seq(Text) /\ Len(texts) = Len(template)
        /\ \A j \in 1..Len(template) : texts[j] = EntryText(params, template, j, stringCase)
    BY EntriesPrinted DEF TemplateWritten
  <2>2. Command(stringCase) = Joined(texts)
    BY DEF Command, computeExpectedCommand, TextsOf
  <2> HIDE DEF texts
  <2>3. Len(words) \in Nat /\ i <= Len(words) /\ words[i] = texts[i]
    <3>1. i \in 1..Len(texts) /\ \A j \in 1..i : j \in 1..Len(template)
      BY <2>1
    <3>2. \A j \in 1..i : ~HasBlank(texts[j])
      BY <2>1, <3>1
    <3> QED BY <2>1, <2>2, <3>1, <3>2, WordOfRow
  <2>4. found = {i}
    <3>1. ParamIndex(template, i) \in Nat /\ (ParamIndex(template, i) - 1) + 1 = ParamIndex(template, i)
      BY ParamIndexStep
    <3>2. \A k \in 1..Len(template) :
              IsMatcher(template[k]) /\ ParamIndex(template, k) = ParamIndex(template, i) => k = i
      BY ParamIndexTells
    <3> QED BY <3>1, <3>2 DEF getParamWordIndex
  <2> HIDE DEF words, found
  <2>5. wordIndex = i /\ found # {}
    BY <2>4
  <2> HIDE DEF wordIndex
  <2>6. ~ (wordIndex > Len(words))
    <3>1. i \in Nat
      BY <2>1
    <3> QED BY <2>3, <2>5, <3>1
  <2>7. extractCommandParamByIndex(template, Command(stringCase), ParamIndex(template, i) - 1)
            = [panics |-> FALSE, text |-> words[wordIndex]]
    BY <2>5, <2>6, Zenon DEF extractCommandParamByIndex, words, found, wordIndex
  <2> QED BY <2>1, <2>3, <2>5, <2>7
<1> QED BY <1>1, TemplateInvariant, PTL

-------------------------------------------------------------------------------
\* Rows of texts told apart

\* What a row of texts is split into, joined again, is the text.
LEMMA JoinedSplit ==
    ASSUME NEW text \in Text
    PROVE  Joined(splitString(text, Space)) = text
<1> DEFINE T == {s \in Seq(Tokens) : Joined(splitString(s, Space)) = s}
<1>1. <<>> \in T
  <2>1. << <<>> >> = Append(<<>>, <<>>) /\ <<>> \in Seq(Text) /\ <<>> \in Text /\ Len(<<>>) = 0
    BY BlankIsText
  <2>2. Joined(Append(<<>>, <<>>)) = (Joined(<<>>) \o Gap(Len(<<>>) + 1)) \o <<>>
    BY <2>1, JoinedAppend
  <2>3. Gap(0 + 1) = <<>> /\ (<<>> \o <<>>) \o <<>> = <<>> /\ <<>> \in Seq(Tokens)
    BY DEF Gap
  <2>4. Joined(<< <<>> >>) = <<>>
    BY <2>1, <2>2, <2>3, JoinedEmpty
  <2> QED BY <2>3, <2>4, SplitEmpty
<1>2. ASSUME NEW s \in T, NEW token \in Tokens PROVE Append(s, token) \in T
  <2>1. s \in Text /\ Append(s, token) \in Seq(Tokens) /\ Joined(splitString(s, Space)) = s
    BY AppendIs DEF Text
  <2>2. PICK parts : parts = splitString(s, Space)
    OBVIOUS
  <2>3. parts \in Seq(Text) /\ parts # <<>>
    BY <2>1, <2>2, SplitIn
  <2>4. splitString(Append(s, token), Space) = NextParts(parts, token)
    BY <2>1, <2>2, SplitAppend
  <2>5. CASE token = Space
    <3>1. NextParts(parts, token) = Append(parts, <<>>)
      BY <2>5 DEF NextParts
    <3>2. Joined(Append(parts, <<>>)) = (Joined(parts) \o Gap(Len(parts) + 1)) \o <<>>
      BY <2>3, BlankIsText, JoinedAppend
    <3>3. Gap(Len(parts) + 1) = <<Space>>
      <4>1. Len(parts) \in Nat /\ Len(parts) # 0
        BY <2>3
      <4> QED BY <4>1 DEF Gap
    <3>4. (s \o <<Space>>) \o <<>> = s \o <<Space>>
      <4>1. s \o <<Space>> \in Seq(Tokens)
        BY <2>1, BlankIsText, TextConcat DEF Text
      <4> QED BY <4>1
    <3>5. Append(s, token) = s \o <<Space>>
      BY <2>1, <2>5, AppendIs DEF Text
    <3> QED BY <2>1, <2>2, <2>4, <3>1, <3>2, <3>3, <3>4, <3>5
  <2>6. CASE token # Space
    <3>1. PICK front \in Seq(Text), last \in Text : parts = Append(front, last)
      BY <2>3, SequenceEmptyOrAppend
    <3>2. PICK longer : longer = Append(last, token)
      OBVIOUS
    <3>3. longer \in Text /\ longer = last \o <<token>> /\ <<token>> \in Text
      BY <3>1, <3>2, AppendIs, OneElement DEF Text
    <3>4. NextParts(parts, token) = Append(front, longer)
      <4>1. /\ Len(parts) = Len(front) + 1 /\ Len(front) \in Nat /\ parts[Len(parts)] = last
            /\ \A i \in 1..Len(front) : parts[i] = front[i]
        BY <3>1, AppendIs
      <4>2. parts \in Rows
        BY <2>3 DEF Rows
      <4>3. /\ NextParts(parts, token) \in Seq(Text)
            /\ Len(NextParts(parts, token)) = Len(parts)
            /\ \A i \in 1..(Len(parts) - 1) : NextParts(parts, token)[i] = parts[i]
            /\ NextParts(parts, token)[Len(parts)] = longer
        BY <2>6, <3>2, <4>1, <4>2, NextPartsIn DEF Rows
      <4>4. /\ Append(front, longer) \in Seq(Text) /\ Len(Append(front, longer)) = Len(front) + 1
            /\ \A i \in 1..Len(front) : Append(front, longer)[i] = front[i]
            /\ Append(front, longer)[Len(front) + 1] = longer
        BY <3>3, AppendIs
      <4>5. ASSUME NEW i \in 1..(Len(front) + 1)
            PROVE  NextParts(parts, token)[i] = Append(front, longer)[i]
        <5>1. CASE i = Len(front) + 1
          BY <4>1, <4>3, <4>4, <5>1
        <5>2. CASE i # Len(front) + 1
          <6>1. i \in 1..Len(front) /\ i \in 1..(Len(parts) - 1)
            BY <4>1, <5>2
          <6> QED BY <4>1, <4>3, <4>4, <6>1
        <5> QED BY <5>1, <5>2
      <4>6. PICK x : x = NextParts(parts, token)
        OBVIOUS
      <4>7. PICK y : y = Append(front, longer)
        OBVIOUS
      <4>8. x \in Seq(Text) /\ y \in Seq(Text) /\ Len(x) = Len(y) /\ \A i \in 1..Len(x) : x[i] = y[i]
        BY <4>1, <4>3, <4>4, <4>5, <4>6, <4>7
      <4>9. x = y
        BY <4>8, SameSeq
      <4> QED BY <4>6, <4>7, <4>9
    <3> DEFINE before == Joined(front) \o Gap(Len(front) + 1)
    <3>5. Joined(parts) = before \o last /\ Joined(Append(front, longer)) = before \o longer
      BY <3>1, <3>3, JoinedAppend
    <3>6. before \in Text
      <4>1. Len(front) + 1 \in Nat /\ Joined(front) \in Text
        BY JoinedIsText
      <4> QED BY <4>1, GapIsText, TextConcat
    <3> HIDE DEF before
    <3>7. before \o longer = (before \o last) \o <<token>>
      BY <3>3, <3>6, TextAssociative
    <3>8. Append(s, token) = s \o <<token>>
      BY <2>1, AppendIs DEF Text
    <3>9. Joined(NextParts(parts, token)) = Append(s, token)
      BY <2>1, <2>2, <3>4, <3>5, <3>7, <3>8
    <3> QED BY <2>1, <2>4, <3>9
  <2> QED BY <2>5, <2>6
<1>3. T = Seq(Tokens)
  <2> HIDE DEF T
  <2>1. T \in SUBSET Seq(Tokens)
    BY DEF T
  <2> QED BY <1>1, <1>2, <2>1, SeqInduction
<1>4. text \in T
  <2> HIDE DEF T
  <2> QED BY <1>3 DEF Text
<1> QED BY <1>4

\* The parts of a row are those of its entries.
LEMMA SplitRowAppend ==
    ASSUME NEW texts \in Seq(Text), NEW text \in Text
    PROVE  splitString(Joined(Append(texts, text)), Space) =
               IF texts = <<>> THEN splitString(text, Space)
               ELSE splitString(Joined(texts), Space) \o splitString(text, Space)
<1>1. Joined(texts) \in Text /\ Joined(Append(texts, text)) = (Joined(texts) \o Gap(Len(texts) + 1)) \o text
  BY JoinedAppend
<1>2. CASE texts = <<>>
  <2>1. Joined(texts) = <<>> /\ Gap(Len(texts) + 1) = <<>> /\ (<<>> \o <<>>) \o text = text
    BY <1>2, JoinedEmpty DEF Gap, Text
  <2> QED BY <1>1, <1>2, <2>1
<1>3. CASE texts # <<>>
  <2>1. Len(texts) \in Nat /\ Len(texts) # 0
    BY <1>3
  <2>2. Gap(Len(texts) + 1) = <<Space>>
    BY <2>1 DEF Gap
  <2> QED BY <1>1, <1>3, <2>2, SplitConcat
<1> QED BY <1>2, <1>3

\* u is s and then t.
IsConcat(u, s, t) == u = s \o t

LEMMA ConcatIs ==
    ASSUME NEW V, NEW s \in Seq(V), NEW t \in Seq(V), NEW u, IsConcat(u, s, t)
    PROVE  /\ u \in Seq(V) /\ Len(u) = Len(s) + Len(t)
           /\ \A i \in 1..Len(s) : u[i] = s[i]
           /\ \A i \in 1..Len(t) : u[Len(s) + i] = t[i]
<1>1. u = s \o t
  BY DEF IsConcat
<1> QED BY <1>1, ConcatParts

\* A sequence is made of two parts in one way only, when their lengths are known.
LEMMA Cancel ==
    ASSUME NEW V, NEW a \in Seq(V), NEW b \in Seq(V), NEW c \in Seq(V), NEW d \in Seq(V),
           NEW u, IsConcat(u, a, b), IsConcat(u, c, d), Len(b) = Len(d)
    PROVE  a = c /\ b = d
<1>1. Len(a) \in Nat /\ Len(b) \in Nat /\ Len(c) \in Nat
  OBVIOUS
<1>2. /\ Len(u) = Len(a) + Len(b)
      /\ \A i \in 1..Len(a) : u[i] = a[i]
      /\ \A i \in 1..Len(b) : u[Len(a) + i] = b[i]
  BY ConcatIs
<1>3. /\ Len(u) = Len(c) + Len(d)
      /\ \A i \in 1..Len(c) : u[i] = c[i]
      /\ \A i \in 1..Len(d) : u[Len(c) + i] = d[i]
  BY ConcatIs
<1>4. Len(a) = Len(c)
  BY <1>1, <1>2, <1>3
<1>5. \A i \in 1..Len(a) : a[i] = c[i]
  BY <1>2, <1>3, <1>4
<1>6. \A i \in 1..Len(b) : b[i] = d[i]
  BY <1>2, <1>3, <1>4
<1>7. a = c
  BY <1>4, <1>5, SameSeq
<1>8. b = d
  BY <1>6, SameSeq
<1> QED BY <1>7, <1>8

\* The number of parts.
Count(text) == Len(splitString(text, Space))

LEMMA CountIs ==
    ASSUME NEW text \in Text
    PROVE  /\ Count(text) \in Nat \ {0}
           /\ ~HasBlank(text) => Count(text) = 1
<1>1. splitString(text, Space) \in Seq(Text) /\ splitString(text, Space) # <<>>
  BY SplitIn
<1>2. Len(splitString(text, Space)) \in Nat /\ Len(splitString(text, Space)) # 0
  BY <1>1
<1>3. ASSUME ~HasBlank(text) PROVE Count(text) = 1
  <2>1. splitString(text, Space) = <<text>> /\ Len(<<text>>) = 1
    BY <1>3, SplitWord, OneElement
  <2> QED BY <2>1 DEF Count
<1> QED BY <1>2, <1>3 DEF Count

LEMMA CountAppend ==
    ASSUME NEW texts \in Seq(Text), NEW text \in Text
    PROVE  Count(Joined(Append(texts, text))) =
               (IF texts = <<>> THEN 0 ELSE Count(Joined(texts))) + Count(text)
<1>1. splitString(text, Space) \in Seq(Text) /\ Count(text) \in Nat
  BY SplitIn, CountIs
<1>2. CASE texts = <<>>
  <2>1. Count(Joined(Append(texts, text))) = Count(text)
    BY <1>2, SplitRowAppend, Zenon DEF Count
  <2> QED BY <1>1, <1>2, <2>1
<1>3. CASE texts # <<>>
  <2>1. Joined(texts) \in Text
    BY JoinedIsText
  <2>2. splitString(Joined(texts), Space) \in Seq(Text)
    BY <2>1, SplitIn
  <2>3. PICK p, q : p = splitString(Joined(texts), Space) /\ q = splitString(text, Space)
    OBVIOUS
  <2>4. p \in Seq(Text) /\ q \in Seq(Text)
    BY <1>1, <2>2, <2>3
  <2>5. Len(p \o q) = Len(p) + Len(q)
    BY <2>4, ConcatParts
  <2>6. splitString(Joined(Append(texts, text)), Space) = p \o q
    BY <1>3, <2>3, SplitRowAppend
  <2> QED BY <1>3, <2>3, <2>5, <2>6 DEF Count
<1> QED BY <1>2, <1>3

\* Texts in a row are known from the row and the number of parts of each.
LEMMA SameRow ==
    ASSUME NEW texts \in Seq(Text), NEW others \in Seq(Text), Len(texts) = Len(others),
           \A i \in 1..Len(texts) : Count(texts[i]) = Count(others[i]),
           Joined(texts) = Joined(others)
    PROVE  texts = others
<1> DEFINE Same(s, t) == \A i \in 1..Len(s) : Count(s[i]) = Count(t[i])
  T == {s \in Seq(Text) : \A t \in Seq(Text) :
            Len(s) = Len(t) /\ Same(s, t) /\ Joined(s) = Joined(t) => s = t}
<1>1. <<>> \in T
  OBVIOUS
<1>2. ASSUME NEW s \in T, NEW x \in Text PROVE Append(s, x) \in T
  <2>0. PICK more : more = Append(s, x)
    OBVIOUS
  <2>1. /\ s \in Seq(Text) /\ Len(s) \in Nat
        /\ more \in Seq(Text) /\ Len(more) = Len(s) + 1
        /\ \A i \in 1..Len(s) : more[i] = s[i]
        /\ more[Len(s) + 1] = x
    BY <2>0, AppendIs
  <2> SUFFICES ASSUME NEW u \in Seq(Text), Len(more) = Len(u), Same(more, u), Joined(more) = Joined(u)
               PROVE  more = u
    BY <2>0, <2>1
  <2> HIDE DEF T
  <2>2. u # <<>>
    <3>1. Len(u) = Len(s) + 1 /\ Len(s) \in Nat
      BY <2>1
    <3> QED BY <3>1
  <2>3. PICK t \in Seq(Text), y \in Text : u = Append(t, y)
    BY <2>2, SequenceEmptyOrAppend
  <2>4. /\ Len(t) \in Nat /\ Len(u) = Len(t) + 1
        /\ \A i \in 1..Len(t) : u[i] = t[i]
        /\ u[Len(t) + 1] = y
    BY <2>3, AppendIs
  <2>5. Len(t) = Len(s)
    <3>1. Len(u) = Len(s) + 1 /\ Len(u) = Len(t) + 1 /\ Len(s) \in Nat /\ Len(t) \in Nat
      BY <2>1, <2>4
    <3> QED BY <3>1
  <2>6. Count(x) = Count(y)
    <3>1. Len(s) + 1 \in 1..Len(more)
      BY <2>1
    <3>2. Count(more[Len(s) + 1]) = Count(u[Len(s) + 1])
      BY <3>1
    <3> QED BY <2>1, <2>4, <2>5, <3>2
  <2>7. Same(s, t)
    <3>1. ASSUME NEW i \in 1..Len(s) PROVE Count(s[i]) = Count(t[i])
      <4>1. i \in 1..Len(more) /\ i \in 1..Len(t)
        BY <2>1, <2>5
      <4>2. Count(more[i]) = Count(u[i])
        BY <4>1
      <4> QED BY <2>1, <2>4, <4>1, <4>2
    <3> QED BY <3>1
  <2>8. PICK p, q : p = splitString(x, Space) /\ q = splitString(y, Space)
    OBVIOUS
  <2>9. p \in Seq(Text) /\ q \in Seq(Text) /\ Len(p) = Len(q) /\ Joined(p) = x /\ Joined(q) = y
    BY <2>6, <2>8, SplitIn, JoinedSplit DEF Count
  <2>10. CASE s = <<>>
    <3>1. t = <<>>
      BY <2>5, <2>10
    <3>2. splitString(Joined(more), Space) = p /\ splitString(Joined(u), Space) = q
      BY <2>0, <2>3, <2>8, <2>10, <3>1, SplitRowAppend
    <3>3. x = y
      BY <2>9, <3>2
    <3> QED BY <2>0, <2>3, <2>10, <3>1, <3>3
  <2>11. CASE s # <<>>
    <3>1. t # <<>>
      BY <2>1, <2>5, <2>11
    <3>2. PICK v, w : v = splitString(Joined(s), Space) /\ w = splitString(Joined(t), Space)
      OBVIOUS
    <3>3. Joined(s) \in Text /\ Joined(t) \in Text
      BY <2>1, JoinedIsText
    <3>4. v \in Seq(Text) /\ w \in Seq(Text) /\ Joined(v) = Joined(s) /\ Joined(w) = Joined(t)
      BY <3>2, <3>3, SplitIn, JoinedSplit
    <3>5. IsConcat(splitString(Joined(more), Space), v, p)
      BY <2>0, <2>1, <2>8, <2>11, <3>2, SplitRowAppend DEF IsConcat
    <3>6. IsConcat(splitString(Joined(more), Space), w, q)
      BY <2>3, <2>8, <3>1, <3>2, SplitRowAppend DEF IsConcat
    <3>7. v = w /\ p = q
      BY <2>9, <3>4, <3>5, <3>6, Cancel
    <3>8. s = t
      BY <2>5, <2>7, <3>4, <3>7 DEF T
    <3> QED BY <2>0, <2>3, <2>9, <3>7, <3>8
  <2> QED BY <2>10, <2>11
<1>3. T = Seq(Text)
  <2> HIDE DEF T
  <2>1. T \in SUBSET Seq(Text)
    BY DEF T
  <2> QED BY <1>1, <1>2, <2>1, SeqInduction
<1>4. texts \in T
  <2> HIDE DEF T
  <2> QED BY <1>3
<1> QED BY <1>4

\* If the entries of two rows have as many parts each, but for one of them, so do the rows.
LEMMA CountDiffers ==
    ASSUME NEW texts \in Seq(Text), NEW others \in Seq(Text), Len(texts) = Len(others),
           NEW k \in Nat, \A i \in 1..Len(texts) : i # k => Count(texts[i]) = Count(others[i])
    PROVE  Count(Joined(texts)) - Count(Joined(others)) =
               IF k \in 1..Len(texts) THEN Count(texts[k]) - Count(others[k]) ELSE 0
<1> DEFINE Same(s, t) == \A i \in 1..Len(s) : i # k => Count(s[i]) = Count(t[i])
  Differ(s, t) == Count(Joined(s)) - Count(Joined(t)) =
                      IF k \in 1..Len(s) THEN Count(s[k]) - Count(t[k]) ELSE 0
  T == {s \in Seq(Text) : \A t \in Seq(Text) : Len(s) = Len(t) /\ Same(s, t) => Differ(s, t)}
<1>1. <<>> \in T
  <2>1. Count(Joined(<<>>)) \in Nat
    BY JoinedEmpty, BlankIsText, CountIs
  <2> SUFFICES ASSUME NEW t \in Seq(Text), Len(<<>>) = Len(t) PROVE Differ(<<>>, t)
    OBVIOUS
  <2>2. t = <<>> /\ Len(<<>>) = 0
    OBVIOUS
  <2>3. k \notin 1..Len(<<>>)
    BY <2>2
  <2>4. Count(Joined(<<>>)) - Count(Joined(<<>>)) = 0
    BY <2>1
  <2> QED BY <2>2, <2>3, <2>4
<1>2. ASSUME NEW s \in T, NEW x \in Text PROVE Append(s, x) \in T
  <2>0. PICK more : more = Append(s, x)
    OBVIOUS
  <2>1. /\ s \in Seq(Text) /\ Len(s) \in Nat
        /\ more \in Seq(Text) /\ Len(more) = Len(s) + 1
        /\ \A i \in 1..Len(s) : more[i] = s[i]
        /\ more[Len(s) + 1] = x
    BY <2>0, AppendIs
  <2> SUFFICES ASSUME NEW u \in Seq(Text), Len(more) = Len(u), Same(more, u)
               PROVE  Differ(more, u)
    BY <2>0, <2>1
  <2> HIDE DEF T
  <2>2. u # <<>>
    <3>1. Len(u) = Len(s) + 1 /\ Len(s) \in Nat
      BY <2>1
    <3> QED BY <3>1
  <2>3. PICK t \in Seq(Text), y \in Text : u = Append(t, y)
    BY <2>2, SequenceEmptyOrAppend
  <2>4. /\ Len(t) \in Nat /\ Len(u) = Len(t) + 1
        /\ \A i \in 1..Len(t) : u[i] = t[i]
        /\ u[Len(t) + 1] = y
    BY <2>3, AppendIs
  <2>5. Len(t) = Len(s)
    <3>1. Len(u) = Len(s) + 1 /\ Len(u) = Len(t) + 1 /\ Len(s) \in Nat /\ Len(t) \in Nat
      BY <2>1, <2>4
    <3> QED BY <3>1
  <2>6. Len(s) + 1 # k => Count(x) = Count(y)
    <3>1. Len(s) + 1 \in 1..Len(more)
      BY <2>1
    <3>2. Len(s) + 1 # k => Count(more[Len(s) + 1]) = Count(u[Len(s) + 1])
      BY <3>1
    <3> QED BY <2>1, <2>4, <2>5, <3>2
  <2>7. Same(s, t)
    <3>1. ASSUME NEW i \in 1..Len(s), i # k PROVE Count(s[i]) = Count(t[i])
      <4>1. i \in 1..Len(more) /\ i \in 1..Len(t)
        BY <2>1, <2>5
      <4>2. Count(more[i]) = Count(u[i])
        BY <3>1, <4>1
      <4> QED BY <2>1, <2>4, <4>1, <4>2
    <3> QED BY <3>1
  <2>8. Differ(s, t)
    BY <2>5, <2>7 DEF T
  <2>9. /\ Count(Joined(more)) = (IF s = <<>> THEN 0 ELSE Count(Joined(s))) + Count(x)
        /\ Count(Joined(u)) = (IF t = <<>> THEN 0 ELSE Count(Joined(t))) + Count(y)
    BY <2>0, <2>1, <2>3, CountAppend
  <2>10. s = <<>> <=> t = <<>>
    BY <2>1, <2>5
  <2>11. Joined(s) \in Text /\ Joined(t) \in Text
    BY <2>1, JoinedIsText
  <2>12. PICK a, b, c, d : a = Count(Joined(s)) /\ b = Count(Joined(t)) /\ c = Count(x) /\ d = Count(y)
    OBVIOUS
  <2>13. a \in Nat /\ b \in Nat /\ c \in Nat /\ d \in Nat
    BY <2>11, <2>12, CountIs
  <2>14. s = <<>> => a = b
    BY <2>10, <2>12
  <2>15. CASE k \in 1..Len(s)
    <3>1. k # Len(s) + 1 /\ k \in 1..Len(more) /\ k \in 1..Len(t) /\ s # <<>>
      BY <2>1, <2>5, <2>15
    <3>2. more[k] = s[k] /\ u[k] = t[k]
      BY <2>1, <2>4, <2>15, <3>1
    <3>3. c = d
      BY <2>6, <2>12, <3>1
    <3>4. a - b = Count(s[k]) - Count(t[k])
      BY <2>8, <2>12, <2>15
    <3>5. Count(Joined(more)) - Count(Joined(u)) = a - b
      BY <2>9, <2>10, <2>12, <2>13, <3>1, <3>3
    <3> QED BY <3>1, <3>2, <3>4, <3>5
  <2>16. CASE k = Len(s) + 1
    <3>1. k \notin 1..Len(s) /\ k \in 1..Len(more) /\ more[k] = x /\ u[k] = y
      BY <2>1, <2>4, <2>5, <2>16
    <3>2. a - b = 0
      BY <2>8, <2>12, <3>1
    <3>3. Count(Joined(more)) - Count(Joined(u)) = c - d
      BY <2>9, <2>10, <2>12, <2>13, <3>2
    <3> QED BY <2>12, <3>1, <3>3
  <2>17. CASE k \notin 1..(Len(s) + 1)
    <3>1. k \notin 1..Len(s) /\ k \notin 1..Len(more) /\ k # Len(s) + 1
      BY <2>1, <2>17
    <3>2. a - b = 0 /\ c = d
      BY <2>6, <2>8, <2>12, <3>1
    <3>3. Count(Joined(more)) - Count(Joined(u)) = 0
      BY <2>9, <2>10, <2>12, <2>13, <3>2
    <3> QED BY <3>1, <3>3
  <2> QED BY <2>1, <2>15, <2>16, <2>17
<1>3. T = Seq(Text)
  <2> HIDE DEF T
  <2>1. T \in SUBSET Seq(Text)
    BY DEF T
  <2> QED BY <1>1, <1>2, <2>1, SeqInduction
<1>4. texts \in T
  <2> HIDE DEF T
  <2> QED BY <1>3
<1>5. Differ(texts, others)
  BY <1>4
<1> QED BY <1>5

\* If all but one entry have as many parts in both rows, the rows differ or are the same
\* entry by entry.
LEMMA RowTells ==
    ASSUME NEW texts \in Seq(Text), NEW others \in Seq(Text), Len(texts) = Len(others),
           NEW k \in Nat, \A i \in 1..Len(texts) : i # k => Count(texts[i]) = Count(others[i]),
           Joined(texts) = Joined(others)
    PROVE  texts = others
<1>1. Count(Joined(texts)) - Count(Joined(others)) =
          IF k \in 1..Len(texts) THEN Count(texts[k]) - Count(others[k]) ELSE 0
  BY CountDiffers
<1>2. Joined(others) \in Text
  BY JoinedIsText
<1>3. Count(Joined(texts)) - Count(Joined(others)) = 0
  BY <1>2, CountIs
<1>4. k \in 1..Len(texts) => Count(texts[k]) = Count(others[k])
  <2> SUFFICES ASSUME k \in 1..Len(texts) PROVE Count(texts[k]) = Count(others[k])
    OBVIOUS
  <2>1. texts[k] \in Text /\ others[k] \in Text
    OBVIOUS
  <2>2. Count(texts[k]) \in Nat /\ Count(others[k]) \in Nat
    BY <2>1, CountIs
  <2> QED BY <1>1, <1>3, <2>2
<1>5. \A i \in 1..Len(texts) : Count(texts[i]) = Count(others[i])
  BY <1>4
<1> QED BY <1>5, SameRow

-------------------------------------------------------------------------------
\* Commands told apart

LEMMA OtherParamsFit ==
    ASSUME template \in Seq(Entries)
    PROVE  \A other \in OtherParams : Fitting(other, template, Len(template))
<1> DEFINE n == Len(template)
  V == SUBSET Seq(AllParams)
  next(i, lists) == IF IsMatcher(template[i]) THEN OneMore(lists, template[i].kind) ELSE lists
  step == [q \in (1..n) \X V |-> next(q[1], q[2])]
  Value(h) == [i \in 0..n |-> IF i = 0 THEN {<<>>}
                              ELSE IF IsMatcher(template[i]) THEN OneMore(h[i - 1], template[i].kind)
                              ELSE h[i - 1]]
  upTo == CHOOSE h : h = Value(h)
<1>1. n \in Nat /\ {<<>>} \in V
  OBVIOUS
<1>2. ASSUME NEW i \in 1..n, NEW lists \in V PROVE next(i, lists) \in V
  <2>1. CASE IsMatcher(template[i])
    <3>1. ASSUME NEW other \in lists, NEW param \in ParamsOf(template[i].kind)
          PROVE  Append(other, param) \in Seq(AllParams)
      <4>1. other \in Seq(AllParams) /\ param \in AllParams
        BY <2>1 DEF AllParams, IsMatcher
      <4> QED BY <4>1, AppendIs
    <3> QED BY <2>1, <3>1 DEF OneMore
  <2>2. CASE ~IsMatcher(template[i])
    BY <2>2
  <2> QED BY <2>1, <2>2
<1>3. step \in [(1..n) \X V -> V]
  <2>1. ASSUME NEW q \in (1..n) \X V PROVE next(q[1], q[2]) \in V
    <3>1. q[1] \in 1..n /\ q[2] \in V
      OBVIOUS
    <3> HIDE DEF n, next, V
    <3> QED BY <1>2, <3>1
  <2> HIDE DEF n, next, V
  <2> QED BY <2>1
<1>4. PICK g : RunOf(g, n, V, {<<>>}, step)
  <2> HIDE DEF step, n, V
  <2> QED BY <1>1, <1>3, Recursion
<1> HIDE DEF V
<1>5. g \in [0..n -> V] /\ g[0] = {<<>>}
  BY <1>4 DEF RunOf
<1>6. ASSUME NEW k \in 1..n PROVE g[k] = next(k, g[k - 1])
  <2>1. k - 1 \in 0..n
    BY <1>1
  <2>2. g[k] = step[<<k, g[k - 1]>>] /\ <<k, g[k - 1]>> \in (1..n) \X V
    BY <1>4, <1>5, <2>1 DEF RunOf
  <2> HIDE DEF n, next
  <2> QED BY <2>2
<1>7. ASSUME NEW h, NEW i \in 0..n
      PROVE  Value(h)[i] = IF i = 0 THEN {<<>>} ELSE next(i, h[i - 1])
  OBVIOUS
<1>8. g = Value(g)
  <2>1. ASSUME NEW i \in 0..n PROVE g[i] = Value(g)[i]
    <3>1. CASE i = 0
      <4> HIDE DEF Value
      <4> QED BY <1>5, <1>7, <3>1
    <3>2. CASE i # 0
      <4>1. i \in 1..n
        BY <1>1, <3>2
      <4> HIDE DEF n, Value, next
      <4> QED BY <1>6, <1>7, <3>2, <4>1
    <3> QED BY <3>1, <3>2
  <2>2. g = [i \in 0..n |-> g[i]] /\ Value(g) = [i \in 0..n |-> Value(g)[i]]
    BY <1>5
  <2>3. [i \in 0..n |-> g[i]] = [i \in 0..n |-> Value(g)[i]]
    <3> HIDE DEF Value
    <3> QED BY <2>1
  <2> QED BY <2>2, <2>3, Zenon
<1>9. upTo = Value(upTo)
  <2> HIDE DEF Value
  <2> QED BY <1>8, Zenon
<1>10. OtherParams = upTo[n]
  BY Zenon DEF OtherParams
<1> HIDE DEF upTo, Value
<1>11. upTo[0] = {<<>>}
  BY <1>1, <1>7, <1>9
<1>12. ASSUME NEW k \in 1..n PROVE upTo[k] = next(k, upTo[k - 1])
  <2>1. k \in 0..n /\ k # 0
    BY <1>1
  <2> HIDE DEF n, next
  <2> QED BY <1>7, <1>9, <2>1
<1> DEFINE S == {k \in Nat : k <= n => \A other \in upTo[k] : Fitting(other, template, k)}
<1>13. 0 \in S
  <2>1. Fitting(<<>>, template, 0)
    BY ParamIndexStep DEF Fitting
  <2> QED BY <1>11, <2>1
<1>14. ASSUME NEW k \in S PROVE k + 1 \in S
  <2> SUFFICES ASSUME k + 1 <= n, NEW list \in upTo[k + 1] PROVE Fitting(list, template, k + 1)
    BY <1>14
  <2>1. k \in Nat /\ k + 1 \in 1..n /\ (k + 1) - 1 = k
    BY <1>1, <1>14
  <2>2. \A other \in upTo[k] : Fitting(other, template, k)
    BY <1>1, <1>14, <2>1
  <2>3. upTo[k + 1] = next(k + 1, upTo[k])
    BY <1>12, <2>1
  <2>4. CASE ~IsMatcher(template[k + 1])
    <3>1. list \in upTo[k]
      BY <2>3, <2>4
    <3> QED BY <2>1, <2>2, <2>4, <3>1, FittingLiteral
  <2>5. CASE IsMatcher(template[k + 1])
    <3>1. PICK other \in upTo[k], param \in ParamsOf(template[k + 1].kind) : list = Append(other, param)
      BY <2>3, <2>5 DEF OneMore
    <3> QED BY <2>1, <2>2, <2>5, <3>1, FittingMatcher
  <2> QED BY <2>4, <2>5
<1>15. S = Nat
  <2> HIDE DEF S
  <2>1. S \in SUBSET Nat
    BY DEF S
  <2> QED BY <1>13, <1>14, <2>1, Induction
<1>16. n \in S
  <2> HIDE DEF S, n
  <2> QED BY <1>1, <1>15
<1> QED BY <1>1, <1>10, <1>16

\* Every parameter belongs to a matcher.
LEMMA MatcherOfParam ==
    ASSUME NEW T, NEW n \in Nat
    PROVE  \A k \in 1..ParamIndex(T, n) : \E i \in 1..n : IsMatcher(T[i]) /\ ParamIndex(T, i) = k
<1> DEFINE S == {m \in Nat : \A k \in 1..ParamIndex(T, m) :
                                 \E i \in 1..m : IsMatcher(T[i]) /\ ParamIndex(T, i) = k}
<1>1. 0 \in S
  <2>1. 1..ParamIndex(T, 0) = {}
    <3>1. ParamIndex(T, 0) = 0
      BY ParamIndexStep
    <3> QED BY <3>1
  <2> QED BY <2>1
<1>2. ASSUME NEW m \in S PROVE m + 1 \in S
  <2>1. m \in Nat /\ ParamIndex(T, m) \in Nat
    BY ParamIndexStep
  <2> SUFFICES ASSUME NEW k \in 1..ParamIndex(T, m + 1)
               PROVE  \E i \in 1..(m + 1) : IsMatcher(T[i]) /\ ParamIndex(T, i) = k
    BY <2>1
  <2>2. CASE k \in 1..ParamIndex(T, m)
    <3>1. PICK i \in 1..m : IsMatcher(T[i]) /\ ParamIndex(T, i) = k
      BY <1>2, <2>2
    <3>2. i \in 1..(m + 1)
      BY <2>1
    <3> QED BY <3>1, <3>2
  <2>3. CASE k \notin 1..ParamIndex(T, m)
    <3>1. \/ IsMatcher(T[m + 1]) /\ ParamIndex(T, m + 1) = ParamIndex(T, m) + 1
          \/ ParamIndex(T, m + 1) = ParamIndex(T, m)
      BY <2>1, ParamIndexStep
    <3>2. IsMatcher(T[m + 1]) /\ ParamIndex(T, m + 1) = k
      BY <2>1, <2>3, <3>1
    <3>3. m + 1 \in 1..(m + 1)
      BY <2>1
    <3> QED BY <3>2, <3>3
  <2> QED BY <2>2, <2>3
<1>3. S = Nat
  <2> HIDE DEF S
  <2>1. S \in SUBSET Nat
    BY DEF S
  <2> QED BY <1>1, <1>2, <2>1, Induction
<1>4. n \in S
  <2> HIDE DEF S
  <2> QED BY <1>3
<1> QED BY <1>4

\* Parameters that print the same entries are the same.
LEMMA EntriesTellParams ==
    ASSUME NEW T \in Seq(Entries), NEW list, NEW other, NEW stringCase \in StringCases,
           Fitting(list, T, Len(T)), Fitting(other, T, Len(T)),
           \A i \in 1..Len(T) : EntryText(list, T, i, stringCase) = EntryText(other, T, i, stringCase)
    PROVE  list = other
<1>1. /\ list \in Seq(AllParams) /\ other \in Seq(AllParams) /\ Len(T) \in Nat
      /\ Len(list) = ParamIndex(T, Len(T)) /\ Len(other) = ParamIndex(T, Len(T))
  BY DEF Fitting
<1>2. ASSUME NEW k \in 1..Len(list) PROVE list[k] = other[k]
  <2>1. PICK i \in 1..Len(T) : IsMatcher(T[i]) /\ ParamIndex(T, i) = k
    BY <1>1, MatcherOfParam
  <2>2. /\ EntryText(list, T, i, stringCase) = Shown(T[i].kind, list[k], stringCase)
        /\ EntryText(other, T, i, stringCase) = Shown(T[i].kind, other[k], stringCase)
    BY <2>1 DEF EntryText
  <2>3. T[i].kind \in Matchers /\ list[k] \in ParamsOf(T[i].kind) /\ other[k] \in ParamsOf(T[i].kind)
    BY <2>1 DEF Fitting, IsMatcher
  <2>4. Shown(T[i].kind, list[k], stringCase) = Shown(T[i].kind, other[k], stringCase)
    BY <2>2
  <2> QED BY <2>3, <2>4, PrintAssumption
<1> QED BY <1>1, <1>2, SameSeq

\* A set with at most one element.
LEMMA AtMostOne ==
    ASSUME NEW n \in Nat, NEW S \in SUBSET (1..n), Cardinality(S) <= 1
    PROVE  \E k \in Nat : \A i \in S : i = k
<1>1. IsFiniteSet(S)
  <2>1. IsFiniteSet(1..n)
    BY FS_Interval
  <2> QED BY <2>1, FS_Subset
<1>2. ASSUME NEW i \in S, NEW j \in S, i # j PROVE FALSE
  <2>1. {i, j} \subseteq S /\ IsFiniteSet({j}) /\ i \notin {j} /\ Cardinality({j}) = 1
    BY <1>2, FS_Singleton
  <2>2. {j} \union {i} = {i, j}
    OBVIOUS
  <2>3. Cardinality({j} \union {i}) = 1 + 1
    BY <2>1, FS_AddElement
  <2>4. Cardinality({i, j}) <= Cardinality(S)
    BY <1>1, <2>1, FS_Subset
  <2>5. Cardinality(S) \in Nat
    BY <1>1, FS_CardinalityType
  <2> QED BY <2>2, <2>3, <2>4, <2>5
<1>3. CASE S = {}
  BY <1>3
<1>4. CASE S # {}
  <2>1. PICK k \in S : TRUE
    BY <1>4
  <2>2. k \in Nat /\ \A i \in S : i = k
    BY <1>2, <2>1
  <2> QED BY <2>2
<1> QED BY <1>3, <1>4

\* Whatever the template and its parameters: if it has no two strings, no other
\* parameters print the same command.
THEOREM Unambiguous == Spec => []AmbiguityNeedsTwoStrings
<1>1. TemplateWritten => AmbiguityNeedsTwoStrings
  <2> SUFFICES ASSUME TemplateWritten,
                      Cardinality({i \in 1..Len(template) : template[i].kind = "string"}) <= 1,
                      NEW stringCase \in StringCases, NEW other \in OtherParams,
                      computeExpectedCommand(other, template, stringCase) = Command(stringCase)
               PROVE  other = params
    BY DEF AmbiguityNeedsTwoStrings
  <2> DEFINE texts == TextsOf(params, template, stringCase)
    others == TextsOf(other, template, stringCase)
  <2>1. /\ template \in Seq(Entries) /\ Len(template) \in Nat
        /\ Fitting(params, template, Len(template)) /\ Fitting(other, template, Len(template))
    BY OtherParamsFit DEF TemplateWritten
  <2>2. /\ texts \in Seq(Text) /\ Len(texts) = Len(template)
        /\ \A j \in 1..Len(template) : texts[j] = EntryText(params, template, j, stringCase)
    BY <2>1, EntriesPrinted
  <2>3. /\ others \in Seq(Text) /\ Len(others) = Len(template)
        /\ \A j \in 1..Len(template) : others[j] = EntryText(other, template, j, stringCase)
    BY <2>1, EntriesPrinted
  <2>4. Joined(texts) = Joined(others)
    BY DEF Command, computeExpectedCommand, TextsOf
  <2> HIDE DEF texts, others
  <2>5. PICK k \in Nat : \A i \in {j \in 1..Len(template) : template[j].kind = "string"} : i = k
    BY <2>1, AtMostOne
  <2>6. ASSUME NEW i \in 1..Len(texts), i # k PROVE Count(texts[i]) = Count(others[i])
    <3>1. /\ i \in 1..Len(template) /\ template[i].kind # "string"
          /\ texts[i] \in Text /\ others[i] \in Text
      BY <2>2, <2>3, <2>5, <2>6
    <3>2. CASE ~IsMatcher(template[i])
      BY <2>2, <2>3, <3>1, <3>2 DEF EntryText
    <3>3. CASE IsMatcher(template[i])
      <4> DEFINE kind == template[i].kind
        k1 == ParamIndex(template, i)
      <4>1. kind \in Matchers /\ params[k1] \in ParamsOf(kind) /\ other[k1] \in ParamsOf(kind)
        BY <2>1, <3>1, <3>3 DEF Fitting, IsMatcher
      <4>2. ~HasBlank(Shown(kind, params[k1], stringCase)) /\ ~HasBlank(Shown(kind, other[k1], stringCase))
        BY <3>1, <4>1, PrintAssumption
      <4>3. ~HasBlank(texts[i]) /\ ~HasBlank(others[i])
        BY <2>2, <2>3, <3>1, <3>3, <4>2 DEF EntryText
      <4> QED BY <3>1, <4>3, CountIs
    <3> QED BY <3>2, <3>3
  <2>7. texts = others
    BY <2>2, <2>3, <2>4, <2>6, RowTells
  <2>8. \A i \in 1..Len(template) :
            EntryText(params, template, i, stringCase) = EntryText(other, template, i, stringCase)
    BY <2>2, <2>3, <2>7
  <2> QED BY <2>1, <2>8, EntriesTellParams
<1> QED BY <1>1, TemplateInvariant, PTL

-------------------------------------------------------------------------------
\* Elements left out

\* What the next element makes of those kept.
Keep(kept, x, dropped) == IF x \in dropped THEN kept ELSE Append(kept, x)

\* The run of Without.
KeptOf(c, s, V, dropped) ==
    /\ c \in [0..Len(s) -> Seq(V)]
    /\ c[0] = <<>>
    /\ \A k \in 1..Len(s) : c[k] = Keep(c[k - 1], s[k], dropped)
    /\ Without(s, dropped) = c[Len(s)]

LEMMA KeepIn ==
    ASSUME NEW V, NEW kept \in Seq(V), NEW x \in V, NEW dropped
    PROVE  Keep(kept, x, dropped) \in Seq(V)
BY AppendIs DEF Keep

LEMMA WithoutGoes ==
    ASSUME NEW V, NEW s \in Seq(V), NEW dropped
    PROVE  \E c : KeptOf(c, s, V, dropped)
<1> DEFINE n == Len(s)
  W == Seq(V)
  step == [q \in (1..n) \X W |-> Keep(q[2], s[q[1]], dropped)]
  Value(h) == [i \in 0..n |-> IF i = 0 THEN <<>>
                              ELSE IF s[i] \in dropped THEN h[i - 1] ELSE Append(h[i - 1], s[i])]
  c == CHOOSE h : h = Value(h)
<1>1. n \in Nat /\ <<>> \in W /\ \A k \in 1..n : s[k] \in V
  OBVIOUS
<1>2. step \in [(1..n) \X W -> W]
  <2>1. ASSUME NEW q \in (1..n) \X W PROVE Keep(q[2], s[q[1]], dropped) \in W
    <3>1. q[1] \in 1..n /\ q[2] \in W
      OBVIOUS
    <3> QED BY <1>1, <3>1, KeepIn
  <2> HIDE DEF n, W
  <2> QED BY <2>1
<1>3. PICK g : RunOf(g, n, W, <<>>, step)
  <2> HIDE DEF step, n, W
  <2> QED BY <1>1, <1>2, Recursion
<1> HIDE DEF W
<1>4. g \in [0..n -> W] /\ g[0] = <<>>
  BY <1>3 DEF RunOf
<1>5. ASSUME NEW k \in 1..n PROVE g[k] = Keep(g[k - 1], s[k], dropped)
  <2>1. k - 1 \in 0..n
    BY <1>1
  <2>2. g[k] = step[<<k, g[k - 1]>>] /\ <<k, g[k - 1]>> \in (1..n) \X W
    BY <1>3, <1>4, <2>1 DEF RunOf
  <2> HIDE DEF n
  <2> QED BY <2>2
<1>6. ASSUME NEW h, NEW i \in 0..n
      PROVE  Value(h)[i] = IF i = 0 THEN <<>> ELSE Keep(h[i - 1], s[i], dropped)
  BY DEF Keep
<1>7. g = Value(g)
  <2>1. ASSUME NEW i \in 0..n PROVE g[i] = Value(g)[i]
    <3>1. CASE i = 0
      <4> HIDE DEF Value
      <4> QED BY <1>4, <1>6, <3>1
    <3>2. CASE i # 0
      <4>1. i \in 1..n
        BY <1>1, <3>2
      <4> HIDE DEF n, Value
      <4> QED BY <1>5, <1>6, <3>2, <4>1
    <3> QED BY <3>1, <3>2
  <2>2. g = [i \in 0..n |-> g[i]] /\ Value(g) = [i \in 0..n |-> Value(g)[i]]
    BY <1>4
  <2>3. [i \in 0..n |-> g[i]] = [i \in 0..n |-> Value(g)[i]]
    <3> HIDE DEF Value
    <3> QED BY <2>1
  <2> QED BY <2>2, <2>3, Zenon
<1>8. c = Value(c)
  <2> HIDE DEF Value
  <2> QED BY <1>7, Zenon
<1>9. Without(s, dropped) = c[n]
  BY Zenon DEF Without
<1>10. c = [i \in 0..n |-> Value(c)[i]]
  BY <1>8
<1> HIDE DEF c, Value
<1>11. c[0] = <<>>
  BY <1>1, <1>6, <1>8
<1>12. ASSUME NEW k \in 1..n PROVE c[k] = Keep(c[k - 1], s[k], dropped)
  <2>1. k \in 0..n /\ k # 0
    BY <1>1
  <2> HIDE DEF n
  <2> QED BY <1>6, <1>8, <2>1
<1> DEFINE T == {k \in Nat : k <= n => c[k] \in W}
<1>13. T = Nat
  <2>1. 0 \in T
    BY <1>1, <1>11
  <2>2. ASSUME NEW k \in T PROVE k + 1 \in T
    <3> SUFFICES ASSUME k + 1 <= n PROVE c[k + 1] \in W
      BY <2>2
    <3>1. k + 1 \in 1..n /\ (k + 1) - 1 = k /\ c[k] \in W
      BY <1>1, <2>2
    <3>2. c[k + 1] = Keep(c[k], s[k + 1], dropped)
      BY <1>12, <3>1
    <3> QED BY <1>1, <3>1, <3>2, KeepIn DEF W
  <2> HIDE DEF T
  <2>3. T \in SUBSET Nat
    BY DEF T
  <2> QED BY <2>1, <2>2, <2>3, Induction
<1>14. ASSUME NEW k \in 0..n PROVE c[k] \in W
  <2>1. k \in Nat /\ k <= n
    BY <1>1
  <2>2. k \in T
    <3> HIDE DEF T
    <3> QED BY <1>13, <2>1
  <2> QED BY <2>1, <2>2
<1>15. c \in [0..n -> W]
  <2> HIDE DEF n
  <2> QED BY <1>8, <1>10, <1>14
<1> QED BY <1>9, <1>11, <1>12, <1>15 DEF KeptOf, W

LEMMA WithoutEmpty ==
    ASSUME NEW dropped
    PROVE  Without(<<>>, dropped) = <<>>
<1>1. <<>> \in Seq({}) /\ Len(<<>>) = 0
  OBVIOUS
<1>2. PICK c : KeptOf(c, <<>>, {}, dropped)
  BY <1>1, WithoutGoes
<1> QED BY <1>1, <1>2 DEF KeptOf

LEMMA WithoutAppend ==
    ASSUME NEW V, NEW s \in Seq(V), NEW x \in V, NEW dropped
    PROVE  /\ Without(s, dropped) \in Seq(V)
           /\ Without(Append(s, x), dropped) = Keep(Without(s, dropped), x, dropped)
<1> DEFINE n == Len(s)
<1>0. PICK more : more = Append(s, x)
  OBVIOUS
<1>1. n \in Nat /\ more \in Seq(V) /\ Len(more) = n + 1 /\ more[n + 1] = x
  BY <1>0, AppendIs
<1>2. \A k \in 1..n : more[k] = s[k]
  BY <1>0, AppendIs
<1>3. PICK c : KeptOf(c, s, V, dropped)
  BY WithoutGoes
<1>4. PICK d : KeptOf(d, more, V, dropped)
  BY <1>1, WithoutGoes
<1> DEFINE S == {k \in Nat : k <= n => c[k] = d[k]}
<1>5. 0 \in S
  BY <1>3, <1>4 DEF KeptOf
<1>6. ASSUME NEW k \in S PROVE k + 1 \in S
  <2> SUFFICES ASSUME k + 1 <= n PROVE c[k + 1] = d[k + 1]
    BY <1>6
  <2>1. k \in Nat /\ k + 1 \in 1..n /\ k + 1 \in 1..Len(more) /\ (k + 1) - 1 = k /\ c[k] = d[k]
    BY <1>1, <1>6
  <2>2. c[k + 1] = Keep(c[k], s[k + 1], dropped)
    BY <1>3, <2>1 DEF KeptOf
  <2>3. d[k + 1] = Keep(d[k], more[k + 1], dropped)
    BY <1>4, <2>1 DEF KeptOf
  <2> HIDE DEF n
  <2> QED BY <1>2, <2>1, <2>2, <2>3
<1>7. S = Nat
  <2> HIDE DEF S
  <2>1. S \in SUBSET Nat
    BY DEF S
  <2> QED BY <1>5, <1>6, <2>1, Induction
<1>8. c[n] = d[n]
  <2>1. n \in S
    <3> HIDE DEF S, n
    <3> QED BY <1>1, <1>7
  <2> QED BY <1>1, <2>1
<1>9. Without(s, dropped) = c[n] /\ c[n] \in Seq(V)
  BY <1>1, <1>3 DEF KeptOf
<1>10. Without(more, dropped) = d[n + 1] /\ d[n + 1] = Keep(d[n], more[n + 1], dropped)
  <2>1. n + 1 \in 1..Len(more) /\ (n + 1) - 1 = n /\ Len(more) = n + 1
    BY <1>1
  <2> HIDE DEF n
  <2> QED BY <1>4, <2>1 DEF KeptOf
<1> HIDE DEF n
<1> QED BY <1>0, <1>1, <1>8, <1>9, <1>10

LEMMA WithoutIn ==
    ASSUME NEW V, NEW s \in Seq(V), NEW dropped
    PROVE  Without(s, dropped) \in Seq(V)
<1>1. PICK c : KeptOf(c, s, V, dropped)
  BY WithoutGoes
<1>2. Len(s) \in 0..Len(s)
  OBVIOUS
<1> QED BY <1>1, <1>2 DEF KeptOf

LEMMA KeepConcat ==
    ASSUME NEW V, NEW w \in Seq(V), NEW v \in Seq(V), NEW x \in V, NEW dropped
    PROVE  Keep(w \o v, x, dropped) = w \o Keep(v, x, dropped)
<1>1. CASE x \in dropped
  BY <1>1 DEF Keep
<1>2. CASE x \notin dropped
  <2>1. Append(v, x) = v \o <<x>> /\ <<x>> \in Seq(V)
    BY AppendIs
  <2>2. w \o v \in Seq(V)
    OBVIOUS
  <2>3. Append(w \o v, x) = (w \o v) \o <<x>>
    BY <2>2, AppendIsConcat
  <2>4. Append(w \o v, x) = w \o Append(v, x)
    BY <2>1, <2>3, Associative
  <2> QED BY <1>2, <2>4 DEF Keep
<1> QED BY <1>1, <1>2

LEMMA WithoutConcat ==
    ASSUME NEW V, NEW s \in Seq(V), NEW t \in Seq(V), NEW dropped
    PROVE  Without(s \o t, dropped) = Without(s, dropped) \o Without(t, dropped)
<1> DEFINE T == {r \in Seq(V) : Without(s \o r, dropped) = Without(s, dropped) \o Without(r, dropped)}
<1>0. Without(s, dropped) \in Seq(V)
  BY WithoutIn
<1>1. <<>> \in T
  <2>1. s \o <<>> = s /\ <<>> \in Seq(V)
    OBVIOUS
  <2>2. PICK w : w = Without(s, dropped)
    OBVIOUS
  <2>3. w \o <<>> = w
    BY <1>0, <2>2
  <2> QED BY <2>1, <2>2, <2>3, WithoutEmpty
<1>2. ASSUME NEW r \in T, NEW x \in V PROVE Append(r, x) \in T
  <2>1. /\ r \in Seq(V) /\ Append(r, x) \in Seq(V)
        /\ Without(s \o r, dropped) = Without(s, dropped) \o Without(r, dropped)
    BY AppendIs
  <2> HIDE DEF T
  <2>2. s \o Append(r, x) = Append(s \o r, x) /\ s \o r \in Seq(V)
    BY <2>1, AppendConcat, ConcatIn
  <2>3. Without(s \o Append(r, x), dropped) = Keep(Without(s \o r, dropped), x, dropped)
    <3>1. PICK u : u = s \o r
      OBVIOUS
    <3>2. u \in Seq(V)
      BY <2>2, <3>1
    <3>3. Without(Append(u, x), dropped) = Keep(Without(u, dropped), x, dropped)
      BY <3>2, WithoutAppend
    <3> QED BY <2>2, <3>1, <3>3
  <2>4. Without(Append(r, x), dropped) = Keep(Without(r, dropped), x, dropped)
    BY <2>1, WithoutAppend
  <2>5. PICK w, v : w = Without(s, dropped) /\ v = Without(r, dropped)
    OBVIOUS
  <2>6. w \in Seq(V) /\ v \in Seq(V)
    BY <2>1, <2>5, WithoutIn
  <2>7. Keep(w \o v, x, dropped) = w \o Keep(v, x, dropped)
    BY <2>6, KeepConcat
  <2>8. Without(s \o Append(r, x), dropped) = Without(s, dropped) \o Without(Append(r, x), dropped)
    BY <2>1, <2>3, <2>4, <2>5, <2>7
  <2> QED BY <2>1, <2>8 DEF T
<1>3. T = Seq(V)
  <2> HIDE DEF T
  <2>1. T \in SUBSET Seq(V)
    BY DEF T
  <2> QED BY <1>1, <1>2, <2>1, SeqInduction
<1>4. t \in T
  <2> HIDE DEF T
  <2> QED BY <1>3
<1> QED BY <1>4

\* What is left holds what is not dropped, and nothing else; it is everything if nothing is.
LEMMA WithoutHolds ==
    ASSUME NEW V, NEW s \in Seq(V), NEW dropped
    PROVE  /\ \A x : Holds(Without(s, dropped), x) <=> Holds(s, x) /\ x \notin dropped
           /\ (\A i \in 1..Len(s) : s[i] \notin dropped) => Without(s, dropped) = s
<1> DEFINE Same(r) == \A x : Holds(Without(r, dropped), x) <=> Holds(r, x) /\ x \notin dropped
  All(r) == (\A i \in 1..Len(r) : r[i] \notin dropped) => Without(r, dropped) = r
  T == {r \in Seq(V) : Same(r) /\ All(r)}
<1>1. <<>> \in T
  BY WithoutEmpty DEF Holds
<1>2. ASSUME NEW r \in T, NEW y \in V PROVE Append(r, y) \in T
  <2>0. PICK more : more = Append(r, y)
    OBVIOUS
  <2>1. /\ r \in Seq(V) /\ Len(r) \in Nat /\ more \in Seq(V) /\ Len(more) = Len(r) + 1
        /\ \A i \in 1..Len(r) : more[i] = r[i]
        /\ more[Len(r) + 1] = y
    BY <2>0, AppendIs
  <2>2. PICK w : w = Without(r, dropped)
    OBVIOUS
  <2>3. w \in Seq(V) /\ Len(w) \in Nat /\ Without(more, dropped) = Keep(w, y, dropped)
    BY <2>0, <2>1, <2>2, WithoutAppend
  <2>4. Same(r) /\ All(r)
    OBVIOUS
  <2> HIDE DEF T
  <2>5. \A x : Holds(more, x) <=> Holds(r, x) \/ x = y
    <3>1. ASSUME NEW x, Holds(more, x) PROVE Holds(r, x) \/ x = y
      <4>1. PICK i \in 1..Len(more) : more[i] = x
        BY <3>1 DEF Holds
      <4>2. i \in 1..Len(r) \/ i = Len(r) + 1
        BY <2>1
      <4> QED BY <2>1, <4>1, <4>2 DEF Holds
    <3>2. ASSUME NEW x, Holds(r, x) \/ x = y PROVE Holds(more, x)
      <4>1. Len(r) + 1 \in 1..Len(more) /\ \A i \in 1..Len(r) : i \in 1..Len(more)
        BY <2>1
      <4> QED BY <2>1, <3>2, <4>1 DEF Holds
    <3> QED BY <3>1, <3>2
  <2>6. CASE y \in dropped
    <3>1. Without(more, dropped) = w
      BY <2>3, <2>6 DEF Keep
    <3>2. Same(more)
      BY <2>2, <2>4, <2>5, <2>6, <3>1
    <3>3. Len(r) + 1 \in 1..Len(more)
      BY <2>1
    <3>4. All(more)
      BY <2>1, <2>6, <3>3
    <3> QED BY <2>0, <2>1, <3>2, <3>4 DEF T
  <2>7. CASE y \notin dropped
    <3>1. Without(more, dropped) = Append(w, y)
      BY <2>3, <2>7 DEF Keep
    <3>2. PICK v : v = Append(w, y)
      OBVIOUS
    <3>3. /\ Len(v) = Len(w) + 1
          /\ \A i \in 1..Len(w) : v[i] = w[i]
          /\ v[Len(w) + 1] = y
      BY <2>3, <3>2, AppendIs
    <3>4. \A x : Holds(v, x) <=> Holds(w, x) \/ x = y
      <4>1. ASSUME NEW x, Holds(v, x) PROVE Holds(w, x) \/ x = y
        <5>1. PICK i \in 1..Len(v) : v[i] = x
          BY <4>1 DEF Holds
        <5>2. i \in 1..Len(w) \/ i = Len(w) + 1
          BY <2>3, <3>3
        <5> QED BY <3>3, <5>1, <5>2 DEF Holds
      <4>2. ASSUME NEW x, Holds(w, x) \/ x = y PROVE Holds(v, x)
        <5>1. Len(w) + 1 \in 1..Len(v) /\ \A i \in 1..Len(w) : i \in 1..Len(v)
          BY <2>3, <3>3
        <5> QED BY <3>3, <4>2, <5>1 DEF Holds
      <4> QED BY <4>1, <4>2
    <3>5. Same(more)
      BY <2>2, <2>4, <2>5, <2>7, <3>1, <3>2, <3>4
    <3>6. All(more)
      <4> SUFFICES ASSUME \A i \in 1..Len(more) : more[i] \notin dropped
                   PROVE  Without(more, dropped) = more
        OBVIOUS
      <4>1. \A i \in 1..Len(r) : i \in 1..Len(more)
        BY <2>1
      <4>2. \A i \in 1..Len(r) : r[i] \notin dropped
        BY <2>1, <4>1
      <4>3. w = r
        BY <2>2, <2>4, <4>2
      <4> QED BY <2>0, <3>1, <4>3
    <3> QED BY <2>0, <2>1, <3>5, <3>6 DEF T
  <2> QED BY <2>6, <2>7
<1>3. T = Seq(V)
  <2> HIDE DEF T
  <2>1. T \in SUBSET Seq(V)
    BY DEF T
  <2> QED BY <1>1, <1>2, <2>1, SeqInduction
<1>4. s \in T
  <2> HIDE DEF T
  <2> QED BY <1>3
<1> QED BY <1>4

-------------------------------------------------------------------------------
\* The words of a row

LEMMA HoldsConcat ==
    ASSUME NEW V, NEW s \in Seq(V), NEW t \in Seq(V), NEW u, IsConcat(u, s, t), NEW x
    PROVE  Holds(u, x) <=> Holds(s, x) \/ Holds(t, x)
<1>1. /\ Len(u) = Len(s) + Len(t) /\ Len(s) \in Nat /\ Len(t) \in Nat
      /\ \A i \in 1..Len(s) : u[i] = s[i]
      /\ \A i \in 1..Len(t) : u[Len(s) + i] = t[i]
  BY ConcatIs
<1>2. ASSUME Holds(u, x) PROVE Holds(s, x) \/ Holds(t, x)
  <2>1. PICK i \in 1..Len(u) : u[i] = x
    BY <1>2 DEF Holds
  <2>2. CASE i <= Len(s)
    <3>1. i \in 1..Len(s)
      BY <1>1, <2>2
    <3> QED BY <1>1, <2>1, <3>1 DEF Holds
  <2>3. CASE ~ (i <= Len(s))
    <3>1. i - Len(s) \in 1..Len(t) /\ Len(s) + (i - Len(s)) = i
      BY <1>1, <2>3
    <3>2. u[Len(s) + (i - Len(s))] = t[i - Len(s)]
      BY <1>1, <3>1
    <3>3. t[i - Len(s)] = x
      BY <2>1, <3>1, <3>2
    <3> QED BY <3>1, <3>3 DEF Holds
  <2> QED BY <2>2, <2>3
<1>3. ASSUME Holds(s, x) PROVE Holds(u, x)
  <2>1. PICK i \in 1..Len(s) : s[i] = x
    BY <1>3 DEF Holds
  <2>2. i \in 1..Len(u) /\ u[i] = x
    BY <1>1, <2>1
  <2> QED BY <2>2 DEF Holds
<1>4. ASSUME Holds(t, x) PROVE Holds(u, x)
  <2>1. PICK i \in 1..Len(t) : t[i] = x
    BY <1>4 DEF Holds
  <2>2. Len(s) + i \in 1..Len(u) /\ u[Len(s) + i] = x
    BY <1>1, <2>1
  <2> QED BY <2>2 DEF Holds
<1> QED BY <1>2, <1>3, <1>4

LEMMA HoldsOne ==
    ASSUME NEW y
    PROVE  \A x : /\ Holds(<<y>>, x) <=> x = y
                  /\ ~Holds(<<>>, x)
<1>1. Len(<<y>>) = 1 /\ <<y>>[1] = y /\ Len(<<>>) = 0
  OBVIOUS
<1> QED BY <1>1 DEF Holds

LEMMA HoldsGap ==
    ASSUME NEW k, NEW token, Holds(Gap(k), token)
    PROVE  token = Space
<1>1. CASE k > 1
  <2>1. Gap(k) = <<Space>>
    BY <1>1 DEF Gap
  <2> QED BY <2>1, HoldsOne
<1>2. CASE ~ (k > 1)
  <2>1. Gap(k) = <<>>
    BY <1>2 DEF Gap
  <2> QED BY <2>1, HoldsOne
<1> QED BY <1>1, <1>2

LEMMA TextWithout ==
    ASSUME NEW s \in Text, NEW t \in Text, NEW u, IsConcat(u, s, t), NEW dropped
    PROVE  IsConcat(Without(u, dropped), Without(s, dropped), Without(t, dropped))
<1>1. PICK V : V = Tokens
  OBVIOUS
<1>2. s \in Seq(V) /\ t \in Seq(V)
  BY <1>1 DEF Text
<1>3. Without(s \o t, dropped) = Without(s, dropped) \o Without(t, dropped)
  BY <1>2, WithoutConcat
<1> QED BY <1>3 DEF IsConcat

LEMMA WordsIn ==
    ASSUME NEW text \in Text
    PROVE  WordsOf(text) \in Seq(Text)
<1>1. splitString(text, Space) \in Seq(Text)
  BY SplitIn
<1> QED BY <1>1, WithoutIn DEF WordsOf

LEMMA WordsOfWord ==
    ASSUME NEW word \in Text, word # <<>>, ~HasBlank(word)
    PROVE  WordsOf(word) = <<word>>
<1>1. splitString(word, Space) = <<word>>
  BY SplitWord
<1>2. <<word>> \in Seq(Text) /\ \A i \in 1..Len(<<word>>) : <<word>>[i] \notin { <<>> }
  <2>1. <<word>> \in Seq(Text) /\ Len(<<word>>) = 1 /\ <<word>>[1] = word
    BY OneElement
  <2> QED BY <2>1
<1>3. Without(<<word>>, { <<>> }) = <<word>>
  BY <1>2, WithoutHolds
<1> QED BY <1>1, <1>3 DEF WordsOf

LEMMA WordsOfNothing == WordsOf(<<>>) = <<>>
<1>1. PICK e, D : e = <<>> /\ D = { <<>> }
  OBVIOUS
<1>2. << <<>> >> = Append(e, e) /\ e \in Seq(Text) /\ e \in Text
  BY <1>1, BlankIsText
<1>3. Without(Append(e, e), D) = Keep(Without(e, D), e, D)
  BY <1>2, WithoutAppend
<1>4. Without(<< <<>> >>, { <<>> }) = <<>>
  BY <1>1, <1>2, <1>3, WithoutEmpty DEF Keep
<1> QED BY <1>4, SplitEmpty DEF WordsOf

\* A blank ends a word.
LEMMA WordsConcat ==
    ASSUME NEW text \in Text, NEW rest \in Text
    PROVE  WordsOf((text \o <<Space>>) \o rest) = WordsOf(text) \o WordsOf(rest)
<1>1. PICK p, q : p = splitString(text, Space) /\ q = splitString(rest, Space)
  OBVIOUS
<1>2. p \in Seq(Text) /\ q \in Seq(Text)
  BY <1>1, SplitIn
<1>3. splitString((text \o <<Space>>) \o rest, Space) = p \o q
  BY <1>1, SplitConcat
<1>4. Without(p \o q, { <<>> }) = Without(p, { <<>> }) \o Without(q, { <<>> })
  BY <1>2, WithoutConcat
<1> QED BY <1>1, <1>3, <1>4 DEF WordsOf

LEMMA WordsRowAppend ==
    ASSUME NEW texts \in Seq(Text), NEW text \in Text
    PROVE  /\ WordsOf(Joined(texts)) \in Seq(Text) /\ WordsOf(text) \in Seq(Text)
           /\ IsConcat(WordsOf(Joined(Append(texts, text))), WordsOf(Joined(texts)), WordsOf(text))
<1>1. Joined(texts) \in Text /\ Joined(Append(texts, text)) = (Joined(texts) \o Gap(Len(texts) + 1)) \o text
  BY JoinedAppend
<1>2. WordsOf(Joined(texts)) \in Seq(Text) /\ WordsOf(text) \in Seq(Text)
  BY <1>1, WordsIn
<1>3. CASE texts = <<>>
  <2>1. Joined(texts) = <<>> /\ Gap(Len(texts) + 1) = <<>> /\ (<<>> \o <<>>) \o text = text
    BY <1>3, JoinedEmpty DEF Gap, Text
  <2>2. PICK w : w = WordsOf(text)
    OBVIOUS
  <2>3. <<>> \o w = w
    BY <1>2, <2>2
  <2>4. WordsOf(Joined(Append(texts, text))) = w /\ WordsOf(Joined(texts)) = <<>>
    BY <1>1, <2>1, <2>2, WordsOfNothing
  <2> QED BY <1>2, <2>2, <2>3, <2>4 DEF IsConcat
<1>4. CASE texts # <<>>
  <2>1. Len(texts) \in Nat /\ Len(texts) # 0
    BY <1>4
  <2>2. Gap(Len(texts) + 1) = <<Space>>
    BY <2>1 DEF Gap
  <2>3. WordsOf(Joined(Append(texts, text))) = WordsOf(Joined(texts)) \o WordsOf(text)
    BY <1>1, <2>2, WordsConcat
  <2> QED BY <1>2, <2>3 DEF IsConcat
<1> QED BY <1>3, <1>4

\* The words of a row of words are these.
LEMMA WordsOfRow ==
    ASSUME NEW texts \in Seq(Text), \A i \in 1..Len(texts) : WordsOf(texts[i]) = <<texts[i]>>
    PROVE  WordsOf(Joined(texts)) = texts
<1> DEFINE AreWords(s) == \A i \in 1..Len(s) : WordsOf(s[i]) = <<s[i]>>
  T == {s \in Seq(Text) : AreWords(s) => WordsOf(Joined(s)) = s}
<1>1. <<>> \in T
  BY JoinedEmpty, WordsOfNothing
<1>2. ASSUME NEW s \in T, NEW x \in Text PROVE Append(s, x) \in T
  <2>0. PICK more : more = Append(s, x)
    OBVIOUS
  <2>1. /\ s \in Seq(Text) /\ Len(s) \in Nat
        /\ more \in Seq(Text) /\ Len(more) = Len(s) + 1
        /\ \A i \in 1..Len(s) : more[i] = s[i]
        /\ more[Len(s) + 1] = x /\ more = s \o <<x>>
    BY <2>0, AppendIs
  <2> SUFFICES ASSUME AreWords(more) PROVE WordsOf(Joined(more)) = more
    BY <2>0, <2>1
  <2>2. Len(s) + 1 \in 1..Len(more) /\ \A i \in 1..Len(s) : i \in 1..Len(more)
    BY <2>1
  <2>3. WordsOf(x) = <<x>> /\ AreWords(s)
    BY <2>1, <2>2
  <2>4. WordsOf(Joined(s)) = s
    BY <2>3
  <2>5. IsConcat(WordsOf(Joined(more)), s, <<x>>)
    BY <2>0, <2>1, <2>3, <2>4, WordsRowAppend
  <2> QED BY <2>1, <2>5 DEF IsConcat
<1>3. T = Seq(Text)
  <2> HIDE DEF T
  <2>1. T \in SUBSET Seq(Text)
    BY DEF T
  <2> QED BY <1>1, <1>2, <2>1, SeqInduction
<1>4. texts \in T
  <2> HIDE DEF T
  <2> QED BY <1>3
<1> QED BY <1>4

\* A word of a row is a word of an entry.
LEMMA WordInRow ==
    ASSUME NEW texts \in Seq(Text), NEW word, Holds(WordsOf(Joined(texts)), word)
    PROVE  \E i \in 1..Len(texts) : Holds(WordsOf(texts[i]), word)
<1> DEFINE T == {s \in Seq(Text) : Holds(WordsOf(Joined(s)), word)
                                       => \E i \in 1..Len(s) : Holds(WordsOf(s[i]), word)}
<1>1. <<>> \in T
  <2>1. ~Holds(<<>>, word)
    BY HoldsOne
  <2> QED BY <2>1, JoinedEmpty, WordsOfNothing
<1>2. ASSUME NEW s \in T, NEW x \in Text PROVE Append(s, x) \in T
  <2>0. PICK more : more = Append(s, x)
    OBVIOUS
  <2>1. /\ s \in Seq(Text) /\ Len(s) \in Nat
        /\ more \in Seq(Text) /\ Len(more) = Len(s) + 1
        /\ \A i \in 1..Len(s) : more[i] = s[i]
        /\ more[Len(s) + 1] = x
    BY <2>0, AppendIs
  <2> SUFFICES ASSUME Holds(WordsOf(Joined(more)), word)
               PROVE  \E i \in 1..Len(more) : Holds(WordsOf(more[i]), word)
    BY <2>0, <2>1
  <2>2. Len(s) + 1 \in 1..Len(more) /\ \A i \in 1..Len(s) : i \in 1..Len(more)
    BY <2>1
  <2>3. /\ IsConcat(WordsOf(Joined(more)), WordsOf(Joined(s)), WordsOf(x))
        /\ WordsOf(Joined(s)) \in Seq(Text) /\ WordsOf(x) \in Seq(Text)
    BY <2>0, <2>1, WordsRowAppend
  <2>4. Holds(WordsOf(Joined(s)), word) \/ Holds(WordsOf(x), word)
    BY <2>3, HoldsConcat
  <2>5. CASE Holds(WordsOf(x), word)
    BY <2>1, <2>2, <2>5
  <2>6. CASE Holds(WordsOf(Joined(s)), word)
    <3>1. PICK i \in 1..Len(s) : Holds(WordsOf(s[i]), word)
      BY <2>6
    <3> QED BY <2>1, <2>2, <3>1
  <2> QED BY <2>4, <2>5, <2>6
<1>3. T = Seq(Text)
  <2> HIDE DEF T
  <2>1. T \in SUBSET Seq(Text)
    BY DEF T
  <2> QED BY <1>1, <1>2, <2>1, SeqInduction
<1>4. texts \in T
  <2> HIDE DEF T
  <2> QED BY <1>3
<1> QED BY <1>4

\* A row holds blanks and the tokens of its entries.
LEMMA TokenInRow ==
    ASSUME NEW texts \in Seq(Text), NEW token, Holds(Joined(texts), token)
    PROVE  token = Space \/ \E i \in 1..Len(texts) : Holds(texts[i], token)
<1> DEFINE T == {s \in Seq(Text) : Holds(Joined(s), token)
                                       => token = Space \/ \E i \in 1..Len(s) : Holds(s[i], token)}
<1>1. <<>> \in T
  <2>1. ~Holds(<<>>, token)
    BY HoldsOne
  <2> QED BY <2>1, JoinedEmpty
<1>2. ASSUME NEW s \in T, NEW x \in Text PROVE Append(s, x) \in T
  <2>0. PICK more : more = Append(s, x)
    OBVIOUS
  <2>1. /\ s \in Seq(Text) /\ Len(s) \in Nat
        /\ more \in Seq(Text) /\ Len(more) = Len(s) + 1
        /\ \A i \in 1..Len(s) : more[i] = s[i]
        /\ more[Len(s) + 1] = x
    BY <2>0, AppendIs
  <2> SUFFICES ASSUME Holds(Joined(more), token)
               PROVE  token = Space \/ \E i \in 1..Len(more) : Holds(more[i], token)
    BY <2>0, <2>1
  <2>2. Len(s) + 1 \in 1..Len(more) /\ \A i \in 1..Len(s) : i \in 1..Len(more)
    BY <2>1
  <2>3. PICK before : before = Joined(s) \o Gap(Len(s) + 1)
    OBVIOUS
  <2>4. Joined(more) = before \o x /\ Joined(s) \in Text
    BY <2>0, <2>1, <2>3, JoinedAppend
  <2>5. Gap(Len(s) + 1) \in Text
    <3>1. Len(s) + 1 \in Nat
      BY <2>1
    <3> QED BY <3>1, GapIsText
  <2>6. before \in Text
    BY <2>3, <2>4, <2>5, TextConcat
  <2>7. Holds(before, token) \/ Holds(x, token)
    BY <2>4, <2>6, HoldsConcat DEF IsConcat, Text
  <2>8. Holds(before, token) => Holds(Joined(s), token) \/ Holds(Gap(Len(s) + 1), token)
    <3>1. IsConcat(before, Joined(s), Gap(Len(s) + 1))
      BY <2>3 DEF IsConcat
    <3> QED BY <2>4, <2>5, <3>1, HoldsConcat DEF Text
  <2>9. Holds(Gap(Len(s) + 1), token) => token = Space
    BY HoldsGap
  <2>10. CASE Holds(x, token)
    BY <2>1, <2>2, <2>10
  <2>11. CASE Holds(Joined(s), token)
    <3>1. token = Space \/ \E i \in 1..Len(s) : Holds(s[i], token)
      BY <2>11
    <3> QED BY <2>1, <2>2, <3>1
  <2> QED BY <2>7, <2>8, <2>9, <2>10, <2>11
<1>3. T = Seq(Text)
  <2> HIDE DEF T
  <2>1. T \in SUBSET Seq(Text)
    BY DEF T
  <2> QED BY <1>1, <1>2, <2>1, SeqInduction
<1>4. texts \in T
  <2> HIDE DEF T
  <2> QED BY <1>3
<1> QED BY <1>4

\* What a row keeps is the row of what its entries keep, if blanks are kept.
LEMMA WithoutRow ==
    ASSUME NEW texts \in Seq(Text), NEW others \in Seq(Text), Len(texts) = Len(others),
           NEW dropped, Space \notin dropped,
           \A i \in 1..Len(texts) : others[i] = Without(texts[i], dropped)
    PROVE  Without(Joined(texts), dropped) = Joined(others)
<1> DEFINE Fewer(s, t) == \A i \in 1..Len(s) : t[i] = Without(s[i], dropped)
  T == {s \in Seq(Text) : \A t \in Seq(Text) :
            Len(s) = Len(t) /\ Fewer(s, t) => Without(Joined(s), dropped) = Joined(t)}
<1>1. <<>> \in T
  <2> SUFFICES ASSUME NEW t \in Seq(Text), Len(<<>>) = Len(t)
               PROVE  Without(Joined(<<>>), dropped) = Joined(t)
    OBVIOUS
  <2>1. t = <<>>
    OBVIOUS
  <2> QED BY <2>1, JoinedEmpty, WithoutEmpty
<1>2. ASSUME NEW s \in T, NEW x \in Text PROVE Append(s, x) \in T
  <2>0. PICK more : more = Append(s, x)
    OBVIOUS
  <2>1. /\ s \in Seq(Text) /\ Len(s) \in Nat
        /\ more \in Seq(Text) /\ Len(more) = Len(s) + 1
        /\ \A i \in 1..Len(s) : more[i] = s[i]
        /\ more[Len(s) + 1] = x
    BY <2>0, AppendIs
  <2> SUFFICES ASSUME NEW u \in Seq(Text), Len(more) = Len(u), Fewer(more, u)
               PROVE  Without(Joined(more), dropped) = Joined(u)
    BY <2>0, <2>1
  <2> HIDE DEF T
  <2>2. u # <<>>
    <3>1. Len(u) = Len(s) + 1 /\ Len(s) \in Nat
      BY <2>1
    <3> QED BY <3>1
  <2>3. PICK t \in Seq(Text), y \in Text : u = Append(t, y)
    BY <2>2, SequenceEmptyOrAppend
  <2>4. /\ Len(t) \in Nat /\ Len(u) = Len(t) + 1
        /\ \A i \in 1..Len(t) : u[i] = t[i]
        /\ u[Len(t) + 1] = y
    BY <2>3, AppendIs
  <2>5. Len(t) = Len(s)
    <3>1. Len(u) = Len(s) + 1 /\ Len(u) = Len(t) + 1 /\ Len(s) \in Nat /\ Len(t) \in Nat
      BY <2>1, <2>4
    <3> QED BY <3>1
  <2>6. y = Without(x, dropped)
    <3>1. Len(s) + 1 \in 1..Len(more)
      BY <2>1
    <3>2. u[Len(s) + 1] = Without(more[Len(s) + 1], dropped)
      BY <3>1
    <3> QED BY <2>1, <2>4, <2>5, <3>2
  <2>7. Fewer(s, t)
    <3>1. ASSUME NEW i \in 1..Len(s) PROVE t[i] = Without(s[i], dropped)
      <4>1. i \in 1..Len(more) /\ i \in 1..Len(t)
        BY <2>1, <2>5
      <4>2. u[i] = Without(more[i], dropped)
        BY <4>1
      <4> QED BY <2>1, <2>4, <4>1, <4>2
    <3> QED BY <3>1
  <2>8. Without(Joined(s), dropped) = Joined(t)
    BY <2>5, <2>7 DEF T
  <2>9. PICK a, g : a = Joined(s) /\ g = Gap(Len(s) + 1)
    OBVIOUS
  <2>10. a \in Text /\ g \in Text
    <3>1. Len(s) + 1 \in Nat /\ Joined(s) \in Text
      BY <2>1, JoinedIsText
    <3> QED BY <2>9, <3>1, GapIsText
  <2>11. Without(g, dropped) = g
    <3>1. g \in Seq(Tokens) /\ \A i \in 1..Len(g) : g[i] \notin dropped
      <4>1. g = <<Space>> \/ g = <<>>
        BY <2>9 DEF Gap
      <4> QED BY <2>10, <4>1 DEF Text
    <3> QED BY <3>1, WithoutHolds
  <2>12. PICK b : b = a \o g
    OBVIOUS
  <2>13. b \in Text /\ IsConcat(Without(b, dropped), Joined(t), g)
    <3>1. IsConcat(b, a, g)
      BY <2>12 DEF IsConcat
    <3>2. IsConcat(Without(b, dropped), Without(a, dropped), Without(g, dropped))
      BY <2>10, <3>1, TextWithout
    <3> QED BY <2>8, <2>9, <2>10, <2>11, <2>12, <3>2, TextConcat
  <2>14. IsConcat(Joined(more), b, x)
    BY <2>0, <2>1, <2>9, <2>12, JoinedAppend DEF IsConcat
  <2>15. Joined(u) = (Joined(t) \o g) \o y
    BY <2>3, <2>5, <2>9, JoinedAppend
  <2>16. IsConcat(Without(Joined(more), dropped), Without(b, dropped), Without(x, dropped))
    BY <2>13, <2>14, TextWithout
  <2> QED BY <2>6, <2>13, <2>15, <2>16 DEF IsConcat
<1>3. T = Seq(Text)
  <2> HIDE DEF T
  <2>1. T \in SUBSET Seq(Text)
    BY DEF T
  <2> QED BY <1>1, <1>2, <2>1, SeqInduction
<1>4. texts \in T
  <2> HIDE DEF T
  <2> QED BY <1>3
<1> QED BY <1>4

-------------------------------------------------------------------------------
\* The template filled in

Open == "{"
Close == "}"

Placeholder(kind) == <<Open, kind, Close>>

LEMMA BracesAre ==
    /\ Open \in Tokens /\ Close \in Tokens /\ Matchers \subseteq Tokens /\ Open # Close
    /\ \A kind \in Matchers : kind # Open /\ kind # Close
    /\ Space # Open /\ Space # Close /\ Space \notin Matchers
    /\ SoftBreak # Open /\ SoftBreak # Close /\ SoftBreak \notin Matchers
    /\ \A address \in Addresses : address # Open /\ address # Close /\ address \notin Matchers
<1> DEFINE written == Matchers \union {"{", "}", "Code", CodeToken}
<1>1. Open \in written /\ Close \in written /\ Matchers \subseteq written
  BY Zenon DEF Open, Close
<1>2. /\ written \subseteq Tokens
      /\ Space \notin written /\ SoftBreak \notin written
      /\ \A address \in Addresses : address \notin written
  BY TokenAssumption, Zenon
<1>3. Open # Close
  <2>1. "{" # "}"
    OBVIOUS
  <2> QED BY <2>1, Zenon DEF Open, Close
<1>4. \A kind \in Matchers : kind # Open /\ kind # Close
  <2>1. \A kind \in Matchers : kind # "{" /\ kind # "}"
    BY DEF Matchers
  <2> QED BY <2>1, Zenon DEF Open, Close
<1> HIDE DEF written
<1> QED BY <1>1, <1>2, <1>3, <1>4, Zenon

LEMMA PlaceholderIs ==
    ASSUME NEW kind \in Matchers
    PROVE  /\ Placeholder(kind) \in Text /\ Len(Placeholder(kind)) = 3
           /\ Placeholder(kind)[1] = Open /\ Placeholder(kind)[2] = kind /\ Placeholder(kind)[3] = Close
           /\ kind # Open /\ kind # Close /\ Open # Close
<1>1. Open \in Tokens /\ Close \in Tokens /\ kind \in Tokens /\ kind # Open /\ kind # Close /\ Open # Close
  BY BracesAre
<1>2. PICK a, b, c : a = Open /\ b = kind /\ c = Close
  OBVIOUS
<1>3. PICK s : s = <<a, b, c>>
  OBVIOUS
<1>4. s \in Seq(Tokens) /\ Len(s) = 3 /\ s[1] = a /\ s[2] = b /\ s[3] = c
  BY <1>1, <1>2, <1>3
<1> QED BY <1>1, <1>2, <1>3, <1>4 DEF Placeholder, Text

\* The first brace of each sort, if there are both.
BracePlaces(text) ==
    {place \in (1..Len(text)) \X (1..Len(text)) :
        /\ place[1] \in FirstPlace(text, Open, 1)
        /\ place[2] \in FirstPlace(text, Close, place[1])}

LEMMA ReplacedIs ==
    ASSUME NEW text, NEW value
    PROVE  Replaced(text, value) =
               IF BracePlaces(text) = {} THEN text
               ELSE LET found == CHOOSE place \in BracePlaces(text) : TRUE IN
                    SubSeq(text, 1, found[1] - 1) \o value \o SubSeq(text, found[2] + 1, Len(text))
BY Zenon DEF Replaced, BracePlaces, Open, Close

\* A text without braces stays as it is.
LEMMA ReplacedNone ==
    ASSUME NEW text, ~Holds(text, Open), NEW value
    PROVE  Replaced(text, value) = text
<1>1. FirstPlace(text, Open, 1) = {}
  BY DEF FirstPlace, Holds
<1>2. BracePlaces(text) = {}
  BY <1>1 DEF BracePlaces
<1> QED BY <1>2, ReplacedIs

\* The first placeholder is replaced, in a text without braces in front of it.
LEMMA ReplacedFirst ==
    ASSUME NEW pre \in Text, ~Holds(pre, Open), NEW kind \in Matchers, NEW post \in Text, NEW value \in Text
    PROVE  Replaced((pre \o Placeholder(kind)) \o post, value) = (pre \o value) \o post
<1>0. pre \in Seq(Tokens) /\ post \in Seq(Tokens)
  BY DEF Text
<1>p. PICK p : p = Len(pre)
  OBVIOUS
<1>1. PICK text, head : text = head \o post /\ head = pre \o Placeholder(kind)
  OBVIOUS
<1>2. p \in Nat /\ Len(post) \in Nat
  BY <1>0, <1>p
<1>3. /\ head \in Text /\ Len(head) = p + 3
      /\ \A i \in 1..p : head[i] = pre[i]
      /\ head[p + 1] = Open /\ head[p + 2] = kind /\ head[p + 3] = Close
  <2>0. PICK brace : brace = Placeholder(kind)
    OBVIOUS
  <2>1. /\ brace \in Seq(Tokens) /\ Len(brace) = 3 
        /\ brace[1] = Open /\ brace[2] = kind /\ brace[3] = Close
    BY <2>0, PlaceholderIs DEF Text
  <2>2. IsConcat(head, pre, brace)
    BY <1>1, <2>0 DEF IsConcat
  <2>3. /\ head \in Seq(Tokens) /\ Len(head) = Len(pre) + Len(brace)
        /\ \A i \in 1..Len(pre) : head[i] = pre[i]
        /\ \A i \in 1..Len(brace) : head[Len(pre) + i] = brace[i]
    <3>1. PICK V : V = Tokens
      OBVIOUS
    <3>2. brace \in Seq(V) /\ pre \in Seq(V)
      BY <1>0, <2>1, <3>1
    <3>3. /\ head \in Seq(V) /\ Len(head) = Len(pre) + Len(brace)
          /\ \A i \in 1..Len(pre) : head[i] = pre[i]
          /\ \A i \in 1..Len(brace) : head[Len(pre) + i] = brace[i]
      BY <2>2, <3>2, ConcatIs
    <3> QED BY <3>1, <3>3
  <2>4. 1 \in 1..3 /\ 2 \in 1..3 /\ 3 \in 1..3
    OBVIOUS
  <2>5. head \in Text
    BY <2>3 DEF Text
  <2>6. head[p + 1] = brace[1] /\ head[p + 2] = brace[2] /\ head[p + 3] = brace[3]
    BY <1>p, <2>1, <2>3, <2>4
  <2> QED BY <1>p, <2>1, <2>3, <2>5, <2>6
<1>4. /\ text \in Seq(Tokens) /\ Len(text) = p + 3 + Len(post)
      /\ \A i \in 1..(p + 3) : text[i] = head[i]
      /\ \A i \in 1..Len(post) : text[p + 3 + i] = post[i]
  <2>1. IsConcat(text, head, post) /\ head \in Seq(Tokens) /\ post \in Seq(Tokens)
    BY <1>1, <1>3 DEF IsConcat, Text
  <2>2. /\ text \in Seq(Tokens) /\ Len(text) = Len(head) + Len(post)
        /\ \A i \in 1..Len(head) : text[i] = head[i]
        /\ \A i \in 1..Len(post) : text[Len(head) + i] = post[i]
    BY <2>1, ConcatIs
  <2> QED BY <1>3, <2>2
<1>5. /\ \A i \in 1..p : text[i] = pre[i] /\ text[i] # Open
      /\ text[p + 1] = Open /\ text[p + 2] = kind /\ text[p + 3] = Close
  <2>1. ASSUME NEW i \in 1..p PROVE text[i] = pre[i] /\ text[i] # Open
    <3>1. i \in 1..(p + 3)
      BY <1>2
    <3>2. pre[i] # Open
      BY <1>p DEF Holds
    <3> QED BY <1>3, <1>4, <3>1, <3>2
  <2>2. p + 1 \in 1..(p + 3) /\ p + 2 \in 1..(p + 3) /\ p + 3 \in 1..(p + 3)
    BY <1>2
  <2> QED BY <1>3, <1>4, <2>1, <2>2
<1>6. FirstPlace(text, Open, 1) = {p + 1}
  <2>1. p + 1 \in FirstPlace(text, Open, 1)
    <3>1. p + 1 \in 1..Len(text) /\ (p + 1) - 1 = p
      BY <1>2, <1>4
    <3> QED BY <1>5, <3>1 DEF FirstPlace
  <2>2. ASSUME NEW i \in FirstPlace(text, Open, 1) PROVE i = p + 1
    <3>1. i \in 1..Len(text) /\ text[i] = Open /\ \A j \in 1..(i - 1) : text[j] # Open
      BY DEF FirstPlace
    <3>2. i \notin 1..p
      BY <1>5, <3>1
    <3>3. ~ (p + 1 < i)
      <4> SUFFICES ASSUME p + 1 < i PROVE FALSE
        OBVIOUS
      <4>1. p + 1 \in 1..(i - 1)
        BY <1>2, <1>4, <3>1
      <4> QED BY <1>5, <3>1, <4>1
    <3> QED BY <1>2, <1>4, <3>1, <3>2, <3>3
  <2> QED BY <2>1, <2>2
<1>7. FirstPlace(text, Close, p + 1) = {p + 3}
  <2>1. p + 3 \in FirstPlace(text, Close, p + 1)
    <3>1. p + 3 \in (p + 1)..Len(text)
      BY <1>2, <1>4
    <3>2. \A j \in (p + 1)..((p + 3) - 1) : j = p + 1 \/ j = p + 2
      BY <1>2
    <3>3. \A j \in (p + 1)..((p + 3) - 1) : text[j] # Close
      BY <1>5, <3>2, PlaceholderIs
    <3> QED BY <1>5, <3>1, <3>3 DEF FirstPlace
  <2>2. ASSUME NEW i \in FirstPlace(text, Close, p + 1) PROVE i = p + 3
    <3>1. i \in (p + 1)..Len(text) /\ text[i] = Close /\ \A j \in (p + 1)..(i - 1) : text[j] # Close
      BY DEF FirstPlace
    <3>2. i # p + 1 /\ i # p + 2
      BY <1>5, <3>1, PlaceholderIs
    <3>3. ~ (p + 3 < i)
      <4> SUFFICES ASSUME p + 3 < i PROVE FALSE
        OBVIOUS
      <4>1. p + 3 \in (p + 1)..(i - 1)
        BY <1>2, <1>4, <3>1
      <4> QED BY <1>5, <3>1, <4>1
    <3> QED BY <1>2, <1>4, <3>1, <3>2, <3>3
  <2> QED BY <2>1, <2>2
<1> DEFINE braces == BracePlaces(text)
<1>8. braces = {<<p + 1, p + 3>>}
  <2>1. <<p + 1, p + 3>> \in braces
    <3>1. p + 1 \in 1..Len(text) /\ p + 3 \in 1..Len(text)
      BY <1>2, <1>4
    <3> QED BY <1>6, <1>7, <3>1 DEF BracePlaces
  <2>2. ASSUME NEW place \in braces PROVE place = <<p + 1, p + 3>>
    <3>1. place[1] = p + 1 /\ place[2] = p + 3 /\ place = <<place[1], place[2]>>
      BY <1>6, <1>7 DEF BracePlaces
    <3> QED BY <3>1
  <2> HIDE DEF braces
  <2> QED BY <2>1, <2>2
<1>9. Replaced(text, value) = SubSeq(text, 1, p) \o value \o SubSeq(text, p + 3 + 1, Len(text))
  <2> DEFINE found == CHOOSE place \in braces : TRUE
  <2>1. Replaced(text, value) =
            IF braces = {} THEN text
            ELSE SubSeq(text, 1, found[1] - 1) \o value \o SubSeq(text, found[2] + 1, Len(text))
    BY ReplacedIs, Zenon
  <2> HIDE DEF braces
  <2>2. found = <<p + 1, p + 3>> /\ braces # {}
    BY <1>8
  <2> HIDE DEF found
  <2>3. found[1] - 1 = p /\ found[2] + 1 = p + 3 + 1
    BY <1>2, <2>2
  <2> QED BY <2>1, <2>2, <2>3
<1> HIDE DEF braces
<1>10. SubSeq(text, 1, p) = pre
  <2>1. p \in 0..Len(text)
    BY <1>2, <1>4
  <2>2. /\ SubSeq(text, 1, p) \in Seq(Tokens) /\ Len(SubSeq(text, 1, p)) = p
        /\ \A i \in 1..p : SubSeq(text, 1, p)[i] = text[i]
    BY <1>4, <2>1, CutIs
  <2>3. PICK s : s = SubSeq(text, 1, p)
    OBVIOUS
  <2>4. s \in Seq(Tokens) /\ pre \in Seq(Tokens) /\ Len(s) = Len(pre) /\ \A i \in 1..Len(s) : s[i] = pre[i]
    BY <1>0, <1>p, <1>5, <2>2, <2>3
  <2> QED BY <2>3, <2>4, SameSeq
<1>11. SubSeq(text, p + 3 + 1, Len(text)) = post
  <2>1. p + 3 \in 0..Len(text) /\ Len(text) - (p + 3) = Len(post)
    BY <1>2, <1>4
  <2>2. PICK s : s = SubSeq(text, p + 3 + 1, Len(text))
    OBVIOUS
  <2>3. s \in Seq(Tokens) /\ Len(s) = Len(text) - (p + 3) /\ \A i \in 1..Len(s) : s[i] = text[p + 3 + i]
    <3>1. PICK V, k : V = Tokens /\ k = p + 3
      OBVIOUS
    <3>2. text \in Seq(V) /\ k \in 0..Len(text) /\ s = SubSeq(text, k + 1, Len(text))
      BY <1>4, <2>1, <2>2, <3>1
    <3>3. s \in Seq(V) /\ Len(s) = Len(text) - k /\ \A i \in 1..(Len(text) - k) : s[i] = text[k + i]
      BY <3>2, CutIs
    <3> QED BY <3>1, <3>3
  <2>4. post \in Seq(Tokens) /\ Len(s) = Len(post) /\ \A i \in 1..Len(s) : s[i] = post[i]
    BY <1>4, <2>1, <2>3 DEF Text
  <2>5. s = post
    BY <2>3, <2>4, SameSeq
  <2> QED BY <2>2, <2>5
<1> QED BY <1>1, <1>9, <1>10, <1>11

\* A sequence as the elements in front of one, this and the others.
PartsAt(s, i, front, rest) ==
    /\ s = Append(front, s[i]) \o rest
    /\ Len(front) = i - 1 /\ Len(rest) = Len(s) - i
    /\ \A j \in 1..(i - 1) : front[j] = s[j]
    /\ \A j \in 1..(Len(s) - i) : rest[j] = s[i + j]

LEMMA RowParts ==
    ASSUME NEW V, NEW s \in Seq(V), NEW i \in 1..Len(s)
    PROVE  \E front \in Seq(V), rest \in Seq(V) : PartsAt(s, i, front, rest)
<1>1. i \in 0..Len(s) /\ i - 1 \in 0..Len(s) /\ i \in Nat /\ Len(s) \in Nat /\ s[i] \in V
  OBVIOUS
<1>2. PICK front, head, rest : front = SubSeq(s, 1, i - 1) /\ head = SubSeq(s, 1, i) /\ rest = SubSeq(s, i + 1, Len(s))
  OBVIOUS
<1>3. /\ head \in Seq(V) /\ Len(head) = i /\ \A j \in 1..i : head[j] = s[j]
      /\ rest \in Seq(V) /\ Len(rest) = Len(s) - i /\ \A j \in 1..(Len(s) - i) : rest[j] = s[i + j]
      /\ s = head \o rest
  BY <1>1, <1>2, CutIs
<1>4. front \in Seq(V) /\ Len(front) = i - 1 /\ \A j \in 1..(i - 1) : front[j] = s[j]
  <2>1. PICK k : k = i - 1
    OBVIOUS
  <2>2. k \in 0..Len(s) /\ front = SubSeq(s, 1, k)
    BY <1>1, <1>2, <2>1
  <2>3. front \in Seq(V) /\ Len(front) = k /\ \A j \in 1..k : front[j] = s[j]
    BY <2>2, CutIs
  <2> QED BY <2>1, <2>3
<1>5. PICK x, more : x = s[i] /\ more = Append(front, x)
  OBVIOUS
<1>6. /\ more \in Seq(V) /\ Len(more) = Len(front) + 1
      /\ \A j \in 1..Len(front) : more[j] = front[j]
      /\ more[Len(front) + 1] = x
  BY <1>1, <1>4, <1>5, AppendIs
<1>7. ASSUME NEW j \in 1..Len(more) PROVE more[j] = head[j]
  <2>1. CASE j = i
    BY <1>1, <1>3, <1>4, <1>5, <1>6, <2>1
  <2>2. CASE j # i
    <3>1. j \in 1..(i - 1) /\ j \in 1..Len(front) /\ j \in 1..i
      BY <1>1, <1>4, <1>6, <2>2
    <3> QED BY <1>3, <1>4, <1>6, <3>1
  <2> QED BY <2>1, <2>2
<1>8. more = head
  <2>1. Len(more) = Len(head)
    BY <1>1, <1>3, <1>4, <1>6
  <2> QED BY <1>3, <1>6, <1>7, <2>1, SameSeq
<1>9. s = Append(front, s[i]) \o rest
  BY <1>3, <1>5, <1>8
<1> QED BY <1>3, <1>4, <1>9 DEF PartsAt

\* A row as its text in front of an entry, the entry and the text behind it.
Before(front) == Joined(front) \o Gap(Len(front) + 1)
After(rest) == IF rest = <<>> THEN <<>> ELSE <<Space>> \o Joined(rest)

LEMMA RowAround ==
    ASSUME NEW front \in Seq(Text), NEW x \in Text, NEW rest \in Seq(Text)
    PROVE  /\ Before(front) \in Text /\ After(rest) \in Text
           /\ Joined(Append(front, x) \o rest) = (Before(front) \o x) \o After(rest)
<1>1. Joined(front) \in Text /\ Joined(rest) \in Text
  BY JoinedIsText
<1>2. Before(front) \in Text
  <2>1. Len(front) + 1 \in Nat
    OBVIOUS
  <2> QED BY <1>1, <2>1, GapIsText, TextConcat DEF Before
<1>3. After(rest) \in Text
  BY <1>1, BlankIsText, TextConcat DEF After
<1>4. PICK head : head = Append(front, x)
  OBVIOUS
<1>5. head \in Seq(Text) /\ head # <<>>
  <2>1. head \in Seq(Text) /\ Len(head) = Len(front) + 1 /\ Len(front) \in Nat
    BY <1>4, AppendIs
  <2> QED BY <2>1
<1>6. Joined(head) = Before(front) \o x
  BY <1>4, JoinedAppend DEF Before
<1>7. PICK before : before = Before(front) \o x
  OBVIOUS
<1>8. before \in Text
  BY <1>2, <1>7, TextConcat
<1>9. CASE rest = <<>>
  <2>1. head \o rest = head
    BY <1>5, <1>9
  <2>2. before \o <<>> = before
    BY <1>8 DEF Text
  <2> QED BY <1>2, <1>3, <1>4, <1>6, <1>7, <1>9, <2>1, <2>2 DEF After
<1>10. CASE rest # <<>>
  <2>1. Joined(head \o rest) = (Joined(head) \o <<Space>>) \o Joined(rest)
    BY <1>5, <1>10, JoinedConcat
  <2>2. (before \o <<Space>>) \o Joined(rest) = before \o (<<Space>> \o Joined(rest))
    BY <1>1, <1>8, BlankIsText, TextAssociative
  <2> QED BY <1>2, <1>3, <1>4, <1>6, <1>7, <1>10, <2>1, <2>2 DEF After
<1> QED BY <1>9, <1>10

\* Rows with one entry that differs are the same text around it.
SameAround(F, G, i, pre, post) ==
    /\ Joined(F) = (pre \o F[i]) \o post
    /\ Joined(G) = (pre \o G[i]) \o post
    /\ \A token : Holds(pre, token)
           => token = Space \/ \E k \in 1..(i - 1) : Holds(F[k], token)

LEMMA RowReplace ==
    ASSUME NEW F \in Seq(Text), NEW G \in Seq(Text), Len(F) = Len(G), NEW i \in 1..Len(F),
           \A k \in 1..Len(F) : k # i => F[k] = G[k]
    PROVE  \E pre \in Text, post \in Text : SameAround(F, G, i, pre, post)
<1>0. i \in 1..Len(G) /\ Len(F) \in Nat /\ i \in Nat
  OBVIOUS
<1>1. PICK front \in Seq(Text), rest \in Seq(Text) : PartsAt(F, i, front, rest)
  BY RowParts
<1>2. PICK front2 \in Seq(Text), rest2 \in Seq(Text) : PartsAt(G, i, front2, rest2)
  BY <1>0, RowParts
<1>3. /\ F = Append(front, F[i]) \o rest
      /\ Len(front) = i - 1 /\ Len(rest) = Len(F) - i
      /\ \A j \in 1..(i - 1) : front[j] = F[j]
      /\ \A j \in 1..(Len(F) - i) : rest[j] = F[i + j]
  BY <1>1 DEF PartsAt
<1>4. /\ G = Append(front2, G[i]) \o rest2
      /\ Len(front2) = i - 1 /\ Len(rest2) = Len(G) - i
      /\ \A j \in 1..(i - 1) : front2[j] = G[j]
      /\ \A j \in 1..(Len(G) - i) : rest2[j] = G[i + j]
  BY <1>2 DEF PartsAt
<1>5. front = front2
  <2>1. ASSUME NEW j \in 1..Len(front) PROVE front[j] = front2[j]
    <3>1. j \in 1..(i - 1) /\ j \in 1..Len(F) /\ j # i
      BY <1>0, <1>3
    <3> QED BY <1>3, <1>4, <3>1
  <2> QED BY <1>3, <1>4, <2>1, SameSeq
<1>6. rest = rest2
  <2>1. ASSUME NEW j \in 1..Len(rest) PROVE rest[j] = rest2[j]
    <3>1. /\ j \in 1..(Len(F) - i) /\ j \in 1..(Len(G) - i)
          /\ i + j \in 1..Len(F) /\ i + j # i
      BY <1>0, <1>3
    <3>2. F[i + j] = G[i + j]
      BY <3>1
    <3> QED BY <1>3, <1>4, <3>1, <3>2
  <2> QED BY <1>3, <1>4, <2>1, SameSeq
<1>7. PICK x, y : x = F[i] /\ y = G[i]
  OBVIOUS
<1>8. /\ Before(front) \in Text /\ After(rest) \in Text
      /\ Joined(Append(front, x) \o rest) = (Before(front) \o x) \o After(rest)
      /\ Joined(Append(front, y) \o rest) = (Before(front) \o y) \o After(rest)
  <2>1. ASSUME NEW z \in Text
        PROVE  /\ Before(front) \in Text /\ After(rest) \in Text
               /\ Joined(Append(front, z) \o rest) = (Before(front) \o z) \o After(rest)
    BY <1>3, RowAround
  <2>2. x \in Text /\ y \in Text
    BY <1>0, <1>7
  <2> QED BY <2>1, <2>2
<1>9. Joined(F) = (Before(front) \o F[i]) \o After(rest)
  BY <1>3, <1>7, <1>8
<1>10. Joined(G) = (Before(front) \o G[i]) \o After(rest)
  BY <1>4, <1>5, <1>6, <1>7, <1>8
<1>11. ASSUME NEW token, Holds(Before(front), token)
       PROVE  token = Space \/ \E k \in 1..(i - 1) : Holds(F[k], token)
  <2>1. Joined(front) \in Text /\ Gap(Len(front) + 1) \in Text
    <3>1. Len(front) + 1 \in Nat
      BY <1>3
    <3> QED BY <1>3, <3>1, JoinedIsText, GapIsText
  <2>2. IsConcat(Before(front), Joined(front), Gap(Len(front) + 1))
    BY DEF IsConcat, Before
  <2>3. Holds(Joined(front), token) \/ Holds(Gap(Len(front) + 1), token)
    BY <1>11, <2>1, <2>2, HoldsConcat DEF Text
  <2>4. CASE Holds(Gap(Len(front) + 1), token)
    BY <2>4, HoldsGap
  <2>5. CASE Holds(Joined(front), token)
    <3>1. token = Space \/ \E k \in 1..Len(front) : Holds(front[k], token)
      BY <1>3, <2>5, TokenInRow
    <3> QED BY <1>3, <3>1
  <2> QED BY <2>3, <2>4, <2>5
<1>12. SameAround(F, G, i, Before(front), After(rest))
  BY <1>9, <1>10, <1>11 DEF SameAround
<1> QED BY <1>8, <1>12

LEMMA RequestWords ==
    /\ AskedMatchers \subseteq Matchers
    /\ EmptyRequests \subseteq [template : {<<>>}, params : {<<>>}, codeExists : BOOLEAN,
                                folded : BOOLEAN, subject : Text]
    /\ \A word \in Words :
           /\ word \in Text /\ word # <<>>
           /\ ~HasBlank(word) /\ ~Holds(word, SoftBreak) /\ ~Holds(word, Open)
    /\ \A text \in RequestTexts : text \in Text /\ ~Holds(text, SoftBreak)
    /\ AskedParams \subseteq Text
<1>1. Open \in {Space, SoftBreak, "{"}
  BY Zenon DEF Open
<1>2. Space \in {Space, SoftBreak, "{"} /\ SoftBreak \in {Space, SoftBreak, "{"}
  BY Zenon
<1>3. AskedParams \subseteq RequestTexts
  BY Zenon DEF RequestTexts
<1>4. \A word \in Words :
          /\ word \in Text \ {<<>>}
          /\ \A token \in {Space, SoftBreak, "{"} : ~Holds(word, token)
  BY RequestAssumption, Zenon
<1>5. \A word \in Words :
           /\ word \in Text /\ word # <<>>
           /\ ~HasBlank(word) /\ ~Holds(word, SoftBreak) /\ ~Holds(word, Open)
  BY <1>1, <1>2, <1>4, Zenon DEF HasBlank
<1>6. /\ AskedMatchers \subseteq Matchers
      /\ EmptyRequests \subseteq [template : {<<>>}, params : {<<>>}, codeExists : BOOLEAN,
                                folded : BOOLEAN, subject : Text]
      /\ \A text \in RequestTexts : text \in Text /\ ~Holds(text, SoftBreak)
  BY RequestAssumption, Zenon
<1> QED BY <1>3, <1>5, <1>6, Zenon

LEMMA RequestEntryForms ==
    ASSUME NEW entry \in RequestEntries
    PROVE  /\ IsMatcher(entry) => entry.kind \in AskedMatchers /\ entry.kind \in Matchers
           /\ ~IsMatcher(entry) => entry.text \in Words
<1>1. "literal" \notin Matchers
  BY DEF Matchers
<1>2. AskedMatchers \subseteq Matchers
  BY RequestWords
<1> QED BY <1>1, <1>2 DEF RequestEntries, IsMatcher

\* The template when the first j parameters have replaced their placeholders.
FilledEntry(T, values, j, i) ==
    IF ~IsMatcher(T[i]) THEN T[i].text
    ELSE IF ParamIndex(T, i) <= j THEN values[ParamIndex(T, i)]
    ELSE Placeholder(T[i].kind)

Filled(T, values, j) == [i \in 1..Len(T) |-> FilledEntry(T, values, j, i)]

\* No parameter that another one follows brings a placeholder of its own.
NoBraces(T, values) ==
    \A i \in 1..Len(T) :
        IsMatcher(T[i]) /\ ParamIndex(T, i) < Len(values) => ~Holds(values[ParamIndex(T, i)], Open)

LEMMA FilledIs ==
    ASSUME NEW T \in Seq(RequestEntries), NEW values \in Seq(Text), NEW j \in 0..Len(values)
    PROVE  /\ Filled(T, values, j) \in Seq(Text)
           /\ Len(Filled(T, values, j)) = Len(T)
           /\ \A i \in 1..Len(T) : Filled(T, values, j)[i] = FilledEntry(T, values, j, i)
<1>1. Len(T) \in Nat /\ j \in Nat /\ Len(values) \in Nat
  OBVIOUS
<1>2. ASSUME NEW i \in 1..Len(T) PROVE FilledEntry(T, values, j, i) \in Text
  <2>1. T[i] \in RequestEntries /\ i \in Nat /\ i <= Len(T) /\ i # 0
    OBVIOUS
  <2>2. CASE ~IsMatcher(T[i])
    <3>1. T[i].text \in Text
      BY <2>1, <2>2, RequestEntryForms, RequestWords
    <3> QED BY <2>2, <3>1 DEF FilledEntry
  <2>3. CASE IsMatcher(T[i])
    <3>1. T[i].kind \in Matchers
      BY <2>3 DEF IsMatcher
    <3>2. Placeholder(T[i].kind) \in Text
      BY <3>1, PlaceholderIs
    <3>3. ParamIndex(T, i) \in 1..ParamIndex(T, Len(T))
      BY <1>1, <2>1, <2>3, ParamIndexWithin
    <3>4. ParamIndex(T, Len(T)) \in Nat
      BY <1>1, ParamIndexStep
    <3>5. ParamIndex(T, i) <= j => ParamIndex(T, i) \in 1..Len(values)
      BY <1>1, <3>3, <3>4
    <3>6. ParamIndex(T, i) <= j => values[ParamIndex(T, i)] \in Text
      BY <3>5
    <3> QED BY <2>3, <3>2, <3>6 DEF FilledEntry
  <2> QED BY <2>2, <2>3
<1> QED BY <1>1, <1>2 DEF Filled

\* What stands in front of the first placeholder that is left has no brace.
LEMMA FilledNoBrace ==
    ASSUME NEW T \in Seq(RequestEntries), NEW values \in Seq(Text), NEW j \in Nat, j < Len(values),
           NoBraces(T, values),
           NEW i \in 1..Len(T), ~IsMatcher(T[i]) \/ ParamIndex(T, i) <= j
    PROVE  ~Holds(Filled(T, values, j)[i], Open)
<1>1. Filled(T, values, j)[i] = FilledEntry(T, values, j, i)
  <2>1. j \in 0..Len(values)
    OBVIOUS
  <2> QED BY <2>1, FilledIs
<1>2. CASE ~IsMatcher(T[i])
  <2>1. T[i].text \in Words
    BY <1>2, RequestEntryForms
  <2> QED BY <1>1, <1>2, <2>1, RequestWords DEF FilledEntry
<1>3. CASE IsMatcher(T[i])
  <2>1. ParamIndex(T, i) \in Nat /\ j \in Nat /\ Len(values) \in Nat /\ j < Len(values)
    BY ParamIndexStep
  <2>2. ParamIndex(T, i) <= j /\ ParamIndex(T, i) < Len(values)
    BY <1>3, <2>1
  <2> QED BY <1>1, <1>3, <2>2 DEF FilledEntry, NoBraces
<1> QED BY <1>2, <1>3

\* A parameter replaces the placeholder of its matcher, or nothing.
LEMMA FillStep ==
    ASSUME NEW T \in Seq(RequestEntries), NEW values \in Seq(Text), NoBraces(T, values),
           NEW j \in Nat, j + 1 <= Len(values)
    PROVE  Replaced(Joined(Filled(T, values, j)), values[j + 1]) = Joined(Filled(T, values, j + 1))
<1>1. /\ j \in 0..Len(values) /\ j < Len(values)
      /\ j + 1 \in 0..Len(values) /\ j + 1 \in 1..Len(values) /\ Len(T) \in Nat
  OBVIOUS
<1>2. PICK F, G : F = Filled(T, values, j) /\ G = Filled(T, values, j + 1)
  OBVIOUS
<1>3. /\ F \in Seq(Text) /\ Len(F) = Len(T)
      /\ \A i \in 1..Len(T) : F[i] = FilledEntry(T, values, j, i)
  BY <1>1, <1>2, FilledIs
<1>4. /\ G \in Seq(Text) /\ Len(G) = Len(T)
      /\ \A i \in 1..Len(T) : G[i] = FilledEntry(T, values, j + 1, i)
  BY <1>1, <1>2, FilledIs
<1>5. \A i \in 1..Len(T) : ParamIndex(T, i) \in Nat
  BY ParamIndexStep
<1>6. \A i \in 1..Len(T) : ~IsMatcher(T[i]) \/ ParamIndex(T, i) <= j => ~Holds(F[i], Open)
  BY <1>1, <1>2, FilledNoBrace
<1>7. ASSUME NEW i \in 1..Len(T), ~ (IsMatcher(T[i]) /\ ParamIndex(T, i) = j + 1) PROVE F[i] = G[i]
  <2>1. ParamIndex(T, i) \in Nat
    BY <1>5
  <2>2. IsMatcher(T[i]) => (ParamIndex(T, i) <= j <=> ParamIndex(T, i) <= j + 1)
    BY <1>7, <2>1
  <2> QED BY <1>3, <1>4, <2>2 DEF FilledEntry
<1>8. Open # Space
  BY BracesAre
<1>9. CASE \A i \in 1..Len(T) : ~ (IsMatcher(T[i]) /\ ParamIndex(T, i) = j + 1)
  <2>1. F = G
    <3>1. \A i \in 1..Len(F) : F[i] = G[i]
      BY <1>3, <1>7, <1>9
    <3> QED BY <1>3, <1>4, <3>1, SameSeq
  <2>2. ASSUME NEW i \in 1..Len(T), IsMatcher(T[i]) PROVE ParamIndex(T, i) <= j
    <3>1. i \in Nat /\ i <= Len(T) /\ i # 0
      OBVIOUS
    <3>2. PICK n : n = ParamIndex(T, Len(T))
      OBVIOUS
    <3>3. ParamIndex(T, i) \in 1..n /\ n \in Nat
      BY <1>1, <2>2, <3>1, <3>2, ParamIndexWithin, ParamIndexStep
    <3>4. ~ (j + 1 \in 1..n)
      BY <1>1, <1>9, <3>2, MatcherOfParam
    <3> QED BY <3>3, <3>4
  <2>3. ~Holds(Joined(F), Open)
    <3> SUFFICES ASSUME Holds(Joined(F), Open) PROVE FALSE
      OBVIOUS
    <3>1. PICK i \in 1..Len(F) : Holds(F[i], Open)
      BY <1>3, <1>8, TokenInRow
    <3> QED BY <1>3, <1>6, <2>2, <3>1
  <2> QED BY <1>2, <2>1, <2>3, ReplacedNone
<1>10. CASE \E i \in 1..Len(T) : IsMatcher(T[i]) /\ ParamIndex(T, i) = j + 1
  <2>1. PICK i \in 1..Len(T) : IsMatcher(T[i]) /\ ParamIndex(T, i) = j + 1
    BY <1>10
  <2>2. \A k \in 1..Len(F) : k # i => F[k] = G[k]
    <3> SUFFICES ASSUME NEW k \in 1..Len(F), k # i PROVE F[k] = G[k]
      OBVIOUS
    <3>1. k \in 1..Len(T) /\ k \in Nat /\ i \in Nat
      BY <1>3
    <3>2. ~ (IsMatcher(T[k]) /\ ParamIndex(T, k) = j + 1)
      BY <2>1, <3>1, ParamIndexTells
    <3> QED BY <1>7, <3>1, <3>2
  <2>3. i \in 1..Len(F) /\ Len(F) = Len(G)
    BY <1>3, <1>4
  <2>9. PICK pre \in Text, post \in Text : SameAround(F, G, i, pre, post)
    BY <1>3, <1>4, <2>2, <2>3, RowReplace
  <2>4. /\ Joined(F) = (pre \o F[i]) \o post
        /\ Joined(G) = (pre \o G[i]) \o post
        /\ \A token : Holds(pre, token)
               => token = Space \/ \E k \in 1..(i - 1) : Holds(F[k], token)
    BY <2>9 DEF SameAround
  <2>5. ~Holds(pre, Open)
    <3> SUFFICES ASSUME Holds(pre, Open) PROVE FALSE
      OBVIOUS
    <3>1. PICK k \in 1..(i - 1) : Holds(F[k], Open)
      BY <1>8, <2>4
    <3>2. k \in 1..Len(T) /\ k \in Nat /\ i \in Nat /\ i - 1 \in Nat /\ k <= i - 1 /\ (i - 1) + 1 = i
      OBVIOUS
    <3>3. ParamIndex(T, k) <= ParamIndex(T, i - 1)
      BY <3>2, ParamIndexWithin
    <3>4. ParamIndex(T, (i - 1) + 1) = ParamIndex(T, i - 1) + 1 /\ ParamIndex(T, i - 1) \in Nat
      BY <2>1, <3>2, ParamIndexStep
    <3>5. ParamIndex(T, k) <= j
      BY <1>5, <2>1, <3>2, <3>3, <3>4
    <3> QED BY <1>6, <3>1, <3>2, <3>5
  <2>6. F[i] = Placeholder(T[i].kind) /\ G[i] = values[j + 1] /\ T[i].kind \in Matchers
    BY <1>3, <1>4, <2>1 DEF FilledEntry, IsMatcher
  <2>7. PICK kind \in Matchers, value \in Text : kind = T[i].kind /\ value = values[j + 1]
    BY <1>1, <2>6
  <2>8. Replaced((pre \o Placeholder(kind)) \o post, value) = (pre \o value) \o post
    BY <2>5, ReplacedFirst
  <2> QED BY <1>2, <2>4, <2>6, <2>7, <2>8
<1> QED BY <1>9, <1>10

\* The command of the mail is the row of the template's words and the parameters.
LEMMA TemplateTextIs ==
    ASSUME NEW T \in Seq(RequestEntries), NEW values
    PROVE  TemplateText(T) = Joined(Filled(T, values, 0))
<1>1. ASSUME NEW i \in 1..Len(T)
      PROVE  FilledEntry(T, values, 0, i) = IF IsMatcher(T[i]) THEN Placeholder(T[i].kind) ELSE T[i].text
  <2>1. i \in Nat /\ Len(T) \in Nat /\ i <= Len(T) /\ i # 0
    OBVIOUS
  <2>2. ParamIndex(T, Len(T)) \in Nat
    BY <2>1, ParamIndexStep
  <2>3. IsMatcher(T[i]) => ParamIndex(T, i) \in 1..ParamIndex(T, Len(T))
    BY <2>1, ParamIndexWithin
  <2>4. IsMatcher(T[i]) => ~ (ParamIndex(T, i) <= 0)
    BY <2>2, <2>3
  <2> QED BY <2>4, Zenon DEF FilledEntry
<1>2. Filled(T, values, 0) =
          [i \in 1..Len(T) |-> IF IsMatcher(T[i]) THEN Placeholder(T[i].kind) ELSE T[i].text]
  BY <1>1 DEF Filled
<1> QED BY <1>2, Zenon DEF TemplateText, Placeholder, Open, Close

LEMMA ParsedRow ==
    ASSUME NEW T \in Seq(RequestEntries), NEW values \in Seq(Text), NoBraces(T, values)
    PROVE  parse_command_template(TemplateText(T), values) = Joined(Filled(T, values, Len(values)))
<1> DEFINE n == Len(values)
  text == TemplateText(T)
  row(j) == Joined(Filled(T, values, j))
  Value(h) == [i \in 0..n |-> IF i = 0 THEN text ELSE Replaced(h[i - 1], values[i])]
  g == [j \in 0..n |-> row(j)]
  c == CHOOSE h : h = Value(h)
<1>1. n \in Nat
  OBVIOUS
<1>2. row(0) = text
  BY TemplateTextIs
<1>3. ASSUME NEW j \in 1..n PROVE row(j) = Replaced(row(j - 1), values[j])
  <2>1. PICK k : k = j - 1
    OBVIOUS
  <2>2. k \in Nat /\ k + 1 = j /\ k + 1 <= Len(values)
    BY <1>1, <2>1
  <2>3. Replaced(Joined(Filled(T, values, k)), values[k + 1]) = Joined(Filled(T, values, k + 1))
    BY <2>2, FillStep
  <2> QED BY <2>1, <2>2, <2>3
<1> HIDE DEF row, text
<1>4. ASSUME NEW h, NEW i \in 0..n
      PROVE  Value(h)[i] = IF i = 0 THEN text ELSE Replaced(h[i - 1], values[i])
  OBVIOUS
<1>5. \A i \in 0..n : g[i] = row(i)
  OBVIOUS
<1>6. g = Value(g)
  <2>1. ASSUME NEW i \in 0..n PROVE g[i] = Value(g)[i]
    <3>1. CASE i = 0
      <4> HIDE DEF Value, g, n
      <4> QED BY <1>2, <1>4, <1>5, <3>1
    <3>2. CASE i # 0
      <4>1. i \in 1..n /\ i - 1 \in 0..n
        BY <1>1, <3>2
      <4> HIDE DEF n, Value, g
      <4> QED BY <1>3, <1>4, <1>5, <3>2, <4>1
    <3> QED BY <3>1, <3>2
  <2>2. g = [i \in 0..n |-> g[i]] /\ Value(g) = [i \in 0..n |-> Value(g)[i]]
    OBVIOUS
  <2>3. [i \in 0..n |-> g[i]] = [i \in 0..n |-> Value(g)[i]]
    <3> HIDE DEF Value, g
    <3> QED BY <2>1
  <2> QED BY <2>2, <2>3, Zenon
<1>7. c = Value(c)
  <2> HIDE DEF Value
  <2> QED BY <1>6, Zenon
<1>8. parse_command_template(text, values) = c[n]
  BY Zenon DEF parse_command_template
<1> HIDE DEF c, Value
<1> DEFINE S == {k \in Nat : k <= n => c[k] = row(k)}
<1>9. 0 \in S
  <2>1. 0 \in 0..n
    BY <1>1
  <2>2. c[0] = text
    <3> HIDE DEF n
    <3> QED BY <1>4, <1>7, <2>1
  <2> QED BY <1>2, <2>2
<1>10. ASSUME NEW k \in S PROVE k + 1 \in S
  <2> SUFFICES ASSUME k + 1 <= n PROVE c[k + 1] = row(k + 1)
    BY <1>10
  <2>1. k \in Nat /\ k + 1 \in 1..n /\ k + 1 \in 0..n /\ k + 1 # 0 /\ (k + 1) - 1 = k /\ c[k] = row(k)
    BY <1>1, <1>10
  <2> HIDE DEF S, n
  <2>2. c[k + 1] = Replaced(c[k], values[k + 1])
    BY <1>4, <1>7, <2>1
  <2> QED BY <1>3, <2>1, <2>2
<1>11. S = Nat
  <2> HIDE DEF S
  <2>1. S \in SUBSET Nat
    BY DEF S
  <2> QED BY <1>9, <1>10, <2>1, Induction
<1>12. n \in S
  <2> HIDE DEF S, n
  <2> QED BY <1>1, <1>11
<1>13. c[n] = row(n)
  BY <1>1, <1>12
<1> QED BY <1>8, <1>13 DEF row, text

-------------------------------------------------------------------------------
\* The request and the reply

RequestWritten ==
    request \in [template : Seq(RequestEntries), params : Seq(AskedParams), codeExists : BOOLEAN,
                 folded : BOOLEAN, subject : {empty.subject : empty \in EmptyRequests} \union { <<>> }]

LEMMA RequestInvariant == Spec => []RequestWritten
<1>1. Init => RequestWritten
  BY DEF Init, NoRequest, RequestWritten
<1>2. RequestWritten /\ [Next]_vars => RequestWritten'
  <2> SUFFICES ASSUME RequestWritten, [Next]_vars PROVE RequestWritten'
    OBVIOUS
  <2>1. ASSUME UNCHANGED request PROVE RequestWritten'
    BY <2>1 DEF RequestWritten
  <2>2. ASSUME NEW empty \in EmptyRequests, BeginRequest(empty) PROVE RequestWritten'
    <3>1. request' = empty
      BY <2>2 DEF BeginRequest
    <3>2. empty \in [template : {<<>>}, params : {<<>>}, codeExists : BOOLEAN, folded : BOOLEAN, subject : Text]
      BY RequestWords
    <3>3. empty.subject \in {other.subject : other \in EmptyRequests}
      OBVIOUS
    <3>4. <<>> \in Seq(RequestEntries) /\ <<>> \in Seq(AskedParams)
      OBVIOUS
    <3> QED BY <3>1, <3>2, <3>3, <3>4 DEF RequestWritten
  <2>3. ASSUME NEW entry \in RequestEntries, AskEntry(entry) PROVE RequestWritten'
    <3>1. request' = [request EXCEPT !.template = Append(request.template, entry)]
      BY <2>3 DEF AskEntry
    <3>2. PICK more : more = Append(request.template, entry)
      OBVIOUS
    <3>3. more \in Seq(RequestEntries)
      BY <3>2, AppendIs DEF RequestWritten
    <3> QED BY <3>1, <3>2, <3>3 DEF RequestWritten
  <2>4. ASSUME NEW param \in AskedParams, AskParam(param) PROVE RequestWritten'
    <3>1. request' = [request EXCEPT !.params = Append(request.params, param)]
      BY <2>4 DEF AskParam
    <3>2. PICK more : more = Append(request.params, param)
      OBVIOUS
    <3>3. more \in Seq(AskedParams)
      BY <3>2, AppendIs DEF RequestWritten
    <3> QED BY <3>1, <3>2, <3>3 DEF RequestWritten
  <2> QED BY <2>1, <2>2, <2>3, <2>4 DEF Next, AppendDigit, AppendEntry, vars
<1> QED BY <1>1, <1>2, PTL DEF Spec

\* What the mail quotes, entry by entry, and the words of the code.
MailRow == Filled(request.template, request.params, Len(request.params))
CodeWords == IF request.codeExists THEN << <<"Code">>, <<CodeToken>> >> ELSE <<>>

\* No parameter that another one follows brings a placeholder.
Plain == NoBraces(request.template, request.params)

LEMMA RequestIs ==
    ASSUME RequestWritten
    PROVE  /\ request.template \in Seq(RequestEntries) /\ Len(request.template) \in Nat
           /\ request.params \in Seq(AskedParams) /\ request.params \in Seq(Text)
           /\ Len(request.params) \in Nat /\ Len(request.params) \in 0..Len(request.params)
           /\ request.subject \in Text /\ ~Holds(request.subject, SoftBreak)
           /\ \A word : Holds(WordsOf(request.subject), word) => word \in MailWords
           /\ \A param \in AskedParams : \A word : Holds(WordsOf(param), word) => word \in MailWords
<1>1. request.template \in Seq(RequestEntries) /\ request.params \in Seq(AskedParams)
  BY DEF RequestWritten
<1>2. AskedParams \subseteq Text
  BY RequestWords
<1>3. request.params \in Seq(Text)
  BY <1>1, <1>2
<1>4. request.subject \in RequestTexts \/ request.subject = <<>>
  BY DEF RequestWritten, RequestTexts
<1>5. request.subject \in Text /\ ~Holds(request.subject, SoftBreak)
  BY <1>4, RequestWords, BlankIsText, HoldsOne
<1>6. ASSUME NEW text \in RequestTexts, NEW word, Holds(WordsOf(text), word) PROVE word \in MailWords
  <2>1. PICK i \in 1..Len(WordsOf(text)) : WordsOf(text)[i] = word
    BY <1>6, Zenon DEF Holds
  <2>2. word \in UNION {{WordsOf(other)[k] : k \in 1..Len(WordsOf(other))} : other \in RequestTexts}
    <3> DEFINE wordsIn(other) == {WordsOf(other)[k] : k \in 1..Len(WordsOf(other))}
    <3>1. word \in wordsIn(text)
      BY <2>1
    <3> HIDE DEF wordsIn
    <3>2. word \in UNION {wordsIn(other) : other \in RequestTexts}
      BY <3>1, text \in RequestTexts
    <3> QED BY <3>2, Zenon DEF wordsIn
  <2> QED BY <2>2, Zenon DEF MailWords
<1>7. \A word : Holds(WordsOf(request.subject), word) => word \in MailWords
  <2>1. \A word : ~Holds(<<>>, word)
    BY HoldsOne
  <2> QED BY <1>4, <1>6, <2>1, WordsOfNothing, Zenon
<1>8. \A param \in AskedParams : \A word : Holds(WordsOf(param), word) => word \in MailWords
  BY <1>6, Zenon DEF RequestTexts
<1>9. Len(request.template) \in Nat /\ Len(request.params) \in Nat /\ Len(request.params) \in 0..Len(request.params)
  BY <1>1
<1> QED BY <1>1, <1>3, <1>5, <1>7, <1>8, <1>9

LEMMA MailRowIs ==
    ASSUME RequestWritten
    PROVE  /\ MailRow \in Seq(Text) /\ Len(MailRow) = Len(request.template)
           /\ \A i \in 1..Len(request.template) :
                  MailRow[i] = FilledEntry(request.template, request.params, Len(request.params), i)
BY RequestIs, FilledIs DEF MailRow

\* An entry of the mail is a word of the template, a parameter or a placeholder.
LEMMA MailEntry ==
    ASSUME RequestWritten, NEW i \in 1..Len(request.template)
    PROVE  \/ ~IsMatcher(request.template[i]) /\ MailRow[i] = request.template[i].text /\ MailRow[i] \in Words
           \/ /\ IsMatcher(request.template[i]) /\ request.template[i].kind \in AskedMatchers
              /\ request.template[i].kind \in Matchers
              /\ ParamIndex(request.template, i) \in 1..Len(request.params)
              /\ MailRow[i] = request.params[ParamIndex(request.template, i)]
              /\ MailRow[i] \in AskedParams
           \/ /\ IsMatcher(request.template[i]) /\ request.template[i].kind \in AskedMatchers
              /\ request.template[i].kind \in Matchers
              /\ ~ (ParamIndex(request.template, i) <= Len(request.params))
              /\ MailRow[i] = Placeholder(request.template[i].kind)
<1> DEFINE T == request.template
  values == request.params
<1>1. /\ T \in Seq(RequestEntries) /\ Len(T) \in Nat /\ values \in Seq(AskedParams) /\ Len(values) \in Nat
      /\ T[i] \in RequestEntries
  BY RequestIs
<1>2. MailRow[i] = FilledEntry(T, values, Len(values), i)
  BY MailRowIs
<1>3. i \in Nat /\ i <= Len(T) /\ i # 0
  BY <1>1
<1> HIDE DEF T, values
<1>4. CASE ~IsMatcher(T[i])
  <2>1. T[i].text \in Words
    BY <1>1, <1>4, RequestEntryForms
  <2> QED BY <1>2, <1>4, <2>1 DEF FilledEntry, T, values
<1>5. CASE IsMatcher(T[i])
  <2>1. T[i].kind \in AskedMatchers /\ T[i].kind \in Matchers
    BY <1>1, <1>5, RequestEntryForms
  <2>2. ParamIndex(T, i) \in 1..ParamIndex(T, Len(T)) /\ ParamIndex(T, Len(T)) \in Nat
    BY <1>1, <1>3, <1>5, ParamIndexWithin, ParamIndexStep
  <2>3. CASE ParamIndex(T, i) <= Len(values)
    <3>1. ParamIndex(T, i) \in 1..Len(values)
      BY <1>1, <2>2, <2>3
    <3>2. values[ParamIndex(T, i)] \in AskedParams
      BY <1>1, <3>1
    <3>3. MailRow[i] = values[ParamIndex(T, i)]
      BY <1>2, <1>5, <2>3 DEF FilledEntry
    <3> QED BY <1>5, <2>1, <3>1, <3>2, <3>3 DEF T, values
  <2>4. CASE ~ (ParamIndex(T, i) <= Len(values))
    <3>1. MailRow[i] = Placeholder(T[i].kind)
      BY <1>2, <1>5, <2>4 DEF FilledEntry
    <3> QED BY <1>5, <2>1, <2>4, <3>1 DEF T, values
  <2> QED BY <2>3, <2>4
<1> QED BY <1>4, <1>5

LEMMA PlaceholderHolds ==
    ASSUME NEW kind \in Matchers, NEW token, Holds(Placeholder(kind), token)
    PROVE  token = Open \/ token = kind \/ token = Close
<1>1. PICK i \in 1..Len(Placeholder(kind)) : Placeholder(kind)[i] = token
  BY DEF Holds
<1>2. i = 1 \/ i = 2 \/ i = 3
  BY <1>1, PlaceholderIs
<1> QED BY <1>1, <1>2, PlaceholderIs

LEMMA PlaceholderWord ==
    ASSUME NEW kind \in Matchers
    PROVE  /\ ~HasBlank(Placeholder(kind)) /\ ~Holds(Placeholder(kind), SoftBreak)
           /\ \A address \in Addresses : ~Holds(Placeholder(kind), address)
           /\ Placeholder(kind) # <<>> /\ Placeholder(kind) \in MailWords
<1>1. /\ Space # Open /\ Space # Close /\ Space # kind
      /\ SoftBreak # Open /\ SoftBreak # Close /\ SoftBreak # kind
      /\ \A address \in Addresses : address # Open /\ address # kind /\ address # Close
  BY BracesAre
<1>2. Placeholder(kind) # <<>>
  BY PlaceholderIs
<1>3. Placeholder(kind) \in MailWords
  BY Zenon DEF MailWords, Placeholder, Open, Close
<1> QED BY <1>1, <1>2, <1>3, PlaceholderHolds DEF HasBlank

LEMMA CodeIs ==
    /\ <<"Code">> \in Text /\ <<"Code">> # <<>> /\ ~HasBlank(<<"Code">>) /\ ~Holds(<<"Code">>, SoftBreak)
    /\ <<CodeToken>> \in Text /\ <<CodeToken>> # <<>> /\ ~HasBlank(<<CodeToken>>) /\ ~Holds(<<CodeToken>>, SoftBreak)
    /\ <<"Code">> \in MailWords /\ <<CodeToken>> \in MailWords
<1>1. PICK code : code = "Code"
  OBVIOUS
<1>2. /\ code \in Tokens /\ CodeToken \in Tokens /\ Space # code /\ Space # CodeToken
      /\ SoftBreak # code /\ SoftBreak # CodeToken
  <2> DEFINE written == Matchers \union {"{", "}", "Code", CodeToken}
  <2>1. code \in written /\ CodeToken \in written
    BY <1>1, Zenon
  <2>2. written \subseteq Tokens /\ Space \notin written /\ SoftBreak \notin written
    BY TokenAssumption, Zenon
  <2> HIDE DEF written
  <2> QED BY <2>1, <2>2, Zenon
<1>3. ASSUME NEW x \in Tokens, Space # x, SoftBreak # x
      PROVE  <<x>> \in Text /\ <<x>> # <<>> /\ ~HasBlank(<<x>>) /\ ~Holds(<<x>>, SoftBreak)
  <2>1. <<x>> \in Text /\ Len(<<x>>) = 1
    BY OneElement DEF Text
  <2> QED BY <1>3, <2>1, HoldsOne DEF HasBlank
<1>4. <<"Code">> \in MailWords /\ <<CodeToken>> \in MailWords
  BY Zenon DEF MailWords
<1> QED BY <1>1, <1>2, <1>3, <1>4

\* An entry without its soft line breaks is itself.
LEMMA MailEntryUnbroken ==
    ASSUME RequestWritten, NEW i \in 1..Len(request.template)
    PROVE  ~Holds(MailRow[i], SoftBreak)
<1>1. AskedParams \subseteq RequestTexts
  BY DEF RequestTexts
<1> QED BY <1>1, MailEntry, RequestWords, PlaceholderWord

\* Whatever a mail program breaks, the text is whole again without the soft line breaks.
LEMMA Unbroken ==
    ASSUME NEW text \in Text, ~Holds(text, SoftBreak)
    PROVE  Without(text, {SoftBreak}) = text
<1>1. text \in Seq(Tokens) /\ \A i \in 1..Len(text) : text[i] \notin {SoftBreak}
  BY DEF Text, Holds
<1> QED BY <1>1, WithoutHolds

LEMMA Unfolded ==
    ASSUME NEW quoted \in Text, ~Holds(quoted, SoftBreak), NEW m \in 0..Len(quoted)
    PROVE  /\ SubSeq(quoted, 1, m) \o <<SoftBreak>> \o SubSeq(quoted, m + 1, Len(quoted)) \in Text
           /\ Without(SubSeq(quoted, 1, m) \o <<SoftBreak>> \o SubSeq(quoted, m + 1, Len(quoted)), {SoftBreak})
                  = quoted
<1>1. PICK a, b, break, drop :
          /\ a = SubSeq(quoted, 1, m) /\ b = SubSeq(quoted, m + 1, Len(quoted))
          /\ break = <<SoftBreak>> /\ drop = {SoftBreak}
  OBVIOUS
<1>2. a \in Text /\ b \in Text /\ quoted = a \o b
  <2>1. quoted \in Seq(Tokens)
    BY DEF Text
  <2> QED BY <1>1, <2>1, CutIs DEF Text
<1>3. ~Holds(a, SoftBreak) /\ ~Holds(b, SoftBreak)
  <2>1. IsConcat(quoted, a, b) /\ a \in Seq(Tokens) /\ b \in Seq(Tokens)
    BY <1>2 DEF IsConcat, Text
  <2> QED BY <2>1, HoldsConcat
<1>4. break \in Text /\ Without(break, drop) = <<>>
  <2>1. SoftBreak \in Tokens
    <3>1. {Space, SoftBreak} \union Addresses \union (Matchers \union {"{", "}", "Code", CodeToken}) \subseteq Tokens
      BY TokenAssumption, Zenon
    <3> QED BY <3>1, Zenon
  <2>2. break \in Seq(Tokens)
    BY <1>1, <2>1, OneElement
  <2>3. PICK e : e = <<>>
    OBVIOUS
  <2>4. e \in Seq(Tokens) /\ break = Append(e, SoftBreak) /\ Without(e, drop) = e
    BY <1>1, <2>3, WithoutEmpty
  <2>5. Without(Append(e, SoftBreak), drop) = Keep(Without(e, drop), SoftBreak, drop)
    BY <2>1, <2>4, WithoutAppend
  <2>6. Without(break, drop) = e
    BY <1>1, <2>4, <2>5 DEF Keep
  <2> QED BY <2>2, <2>3, <2>6 DEF Text
<1>5. PICK c, d : c = a \o break /\ d = c \o b
  OBVIOUS
<1>6. c \in Text /\ d \in Text
  BY <1>2, <1>4, <1>5, TextConcat
<1>7. Without(c, drop) = a
  <2>1. IsConcat(Without(c, drop), Without(a, drop), Without(break, drop))
    <3>1. IsConcat(c, a, break)
      BY <1>5 DEF IsConcat
    <3> QED BY <1>2, <1>4, <3>1, TextWithout
  <2>2. a \o <<>> = a
    BY <1>2 DEF Text
  <2>3. Without(a, drop) = a
    BY <1>1, <1>2, <1>3, Unbroken
  <2> QED BY <1>4, <2>1, <2>2, <2>3 DEF IsConcat
<1>8. Without(d, drop) = a \o b
  <2>1. IsConcat(Without(d, drop), Without(c, drop), Without(b, drop))
    <3>1. IsConcat(d, c, b)
      BY <1>5 DEF IsConcat
    <3> QED BY <1>2, <1>6, <3>1, TextWithout
  <2>2. Without(b, drop) = b
    BY <1>1, <1>2, <1>3, Unbroken
  <2> QED BY <1>7, <2>1, <2>2 DEF IsConcat
<1> QED BY <1>1, <1>2, <1>5, <1>6, <1>8

\* The command that is mailed, without and with the code.
CodeText == (<<"Code">> \o <<Space>>) \o <<CodeToken>>

LEMMA CodeTextIs ==
    /\ CodeText \in Text /\ ~Holds(CodeText, SoftBreak)
    /\ <<Space, "Code", Space, CodeToken>> = <<Space>> \o CodeText
    /\ WordsOf(CodeText) = << <<"Code">>, <<CodeToken>> >>
<1>1. PICK code, blank, token : code = <<"Code">> /\ blank = <<Space>> /\ token = <<CodeToken>>
  OBVIOUS
<1>2. code \in Text /\ blank \in Text /\ token \in Text
  BY <1>1, CodeIs, BlankIsText
<1>3. PICK head : head = code \o blank
  OBVIOUS
<1>4. head \in Text /\ CodeText = head \o token
  BY <1>1, <1>2, <1>3, TextConcat DEF CodeText
<1>5. CodeText \in Text
  BY <1>2, <1>4, TextConcat
<1>6. ~Holds(blank, SoftBreak)
  BY <1>1, HoldsOne, TokenAssumption, Zenon
<1>7. ~Holds(CodeText, SoftBreak)
  <2>1. IsConcat(head, code, blank) /\ IsConcat(CodeText, head, token)
    BY <1>3, <1>4 DEF IsConcat
  <2>2. ~Holds(code, SoftBreak) /\ ~Holds(token, SoftBreak)
    BY <1>1, CodeIs
  <2>3. code \in Seq(Tokens) /\ blank \in Seq(Tokens) /\ token \in Seq(Tokens) /\ head \in Seq(Tokens)
    BY <1>2, <1>4 DEF Text
  <2>4. Holds(head, SoftBreak) <=> Holds(code, SoftBreak) \/ Holds(blank, SoftBreak)
    BY <2>1, <2>3, HoldsConcat
  <2>5. Holds(CodeText, SoftBreak) <=> Holds(head, SoftBreak) \/ Holds(token, SoftBreak)
    BY <2>1, <2>3, HoldsConcat
  <2> QED BY <1>6, <2>2, <2>4, <2>5
<1>8. <<Space, "Code", Space, CodeToken>> = <<Space>> \o CodeText
  BY DEF CodeText
<1>9. WordsOf(CodeText) = << <<"Code">>, <<CodeToken>> >>
  <2>1. WordsOf(CodeText) = WordsOf(code) \o WordsOf(token)
    BY <1>1, <1>2, WordsConcat DEF CodeText
  <2>2. WordsOf(code) = <<code>> /\ WordsOf(token) = <<token>>
    BY <1>1, CodeIs, WordsOfWord
  <2>3. <<code>> \o <<token>> = <<code, token>>
    <3>1. PICK V, one : V = {code, token} /\ one = <<code>>
      OBVIOUS
    <3>2. one \in Seq(V) /\ token \in V /\ Len(one) = 1 /\ one[1] = code
      BY <3>1
    <3>3. PICK u, v : u = one \o <<token>> /\ v = <<code, token>>
      OBVIOUS
    <3>4. u \in Seq(V) /\ Len(u) = 2 /\ u[1] = code /\ u[2] = token
      BY <3>2, <3>3, AppendIs
    <3>5. v \in Seq(V) /\ Len(v) = 2 /\ v[1] = code /\ v[2] = token
      BY <3>1, <3>3
    <3>6. \A i \in 1..Len(u) : u[i] = v[i]
      BY <3>4, <3>5
    <3> QED BY <3>1, <3>3, <3>4, <3>5, <3>6, SameSeq
  <2> QED BY <1>1, <2>1, <2>2, <2>3
<1> QED BY <1>5, <1>7, <1>8, <1>9

LEMMA RequestWordsIn ==
    ASSUME RequestWritten
    PROVE  WordsOf(request.subject) \in Seq(Text) /\ CodeWords \in Seq(Text)
<1>1. WordsOf(CodeText) \in Seq(Text)
  BY CodeTextIs, WordsIn
<1>2. <<>> \in Seq(Text)
  OBVIOUS
<1>3. CodeWords \in Seq(Text)
  BY <1>1, <1>2, CodeTextIs DEF CodeWords
<1> QED BY <1>3, RequestIs, WordsIn

\* The words of the reply: those of its subject, those of the command, and the code's.
LEMMA ReplyWords ==
    ASSUME RequestWritten, Plain
    PROVE  /\ Parsed = Joined(MailRow) /\ Joined(MailRow) \in Text
           /\ WordsOf(CleanedEmail(ReplyText))
                  = (WordsOf(request.subject) \o WordsOf(Joined(MailRow))) \o CodeWords
<1>1. Parsed = Joined(MailRow)
  BY RequestIs, ParsedRow DEF Parsed, MailRow, Plain
<1>2. PICK row : row = Joined(MailRow)
  OBVIOUS
<1>3. row \in Text /\ ~Holds(row, SoftBreak)
  <2>1. row \in Text
    BY <1>2, MailRowIs, JoinedIsText
  <2>2. ASSUME Holds(row, SoftBreak) PROVE FALSE
    <3>1. SoftBreak # Space
      BY TokenAssumption, Zenon
    <3>2. PICK i \in 1..Len(MailRow) : Holds(MailRow[i], SoftBreak)
      BY <1>2, <2>2, <3>1, MailRowIs, TokenInRow
    <3> QED BY <3>2, MailRowIs, MailEntryUnbroken
  <2> QED BY <2>1, <2>2
<1>4. PICK quoted : quoted = MailedCommand(request)
  OBVIOUS
<1>5. quoted = IF request.codeExists THEN (row \o <<Space>>) \o CodeText ELSE row
  <2>1. quoted = row \o (IF request.codeExists THEN <<Space>> \o CodeText ELSE <<>>)
    BY <1>1, <1>2, <1>4, CodeTextIs, Zenon DEF MailedCommand, Parsed
  <2>2. row \o <<>> = row
    BY <1>3 DEF Text
  <2>3. (row \o <<Space>>) \o CodeText = row \o (<<Space>> \o CodeText)
    BY <1>3, BlankIsText, CodeTextIs, TextAssociative
  <2> QED BY <2>1, <2>2, <2>3
<1>6. quoted \in Text /\ ~Holds(quoted, SoftBreak) /\ WordsOf(quoted) = WordsOf(row) \o CodeWords
  <2>1. CASE ~request.codeExists
    <3>1. PICK w : w = WordsOf(row)
      OBVIOUS
    <3>2. w \in Seq(Text)
      BY <1>3, <3>1, WordsIn
    <3>3. w \o <<>> = w
      BY <3>2
    <3> QED BY <1>3, <1>5, <2>1, <3>1, <3>3 DEF CodeWords
  <2>2. CASE request.codeExists
    <3>1. PICK head, blank : head = row \o blank /\ blank = <<Space>>
      OBVIOUS
    <3>2. blank \in Text /\ head \in Text /\ quoted = head \o CodeText
      BY <1>3, <1>5, <2>2, <3>1, BlankIsText, TextConcat
    <3>3. quoted \in Text
      BY <3>2, CodeTextIs, TextConcat
    <3>4. ~Holds(quoted, SoftBreak)
      <4>1. IsConcat(head, row, blank) /\ IsConcat(quoted, head, CodeText)
        BY <3>1, <3>2 DEF IsConcat
      <4>2. /\ row \in Seq(Tokens) /\ blank \in Seq(Tokens) /\ head \in Seq(Tokens)
            /\ CodeText \in Seq(Tokens)
        BY <1>3, <3>2, CodeTextIs DEF Text
      <4>3. ~Holds(blank, SoftBreak)
        BY <3>1, HoldsOne, TokenAssumption, Zenon
      <4>4. ~Holds(head, SoftBreak)
        BY <1>3, <4>1, <4>2, <4>3, HoldsConcat
      <4> QED BY <4>1, <4>2, <4>4, CodeTextIs, HoldsConcat
    <3>5. WordsOf(quoted) = WordsOf(row) \o WordsOf(CodeText)
      BY <1>3, <1>5, <2>2, CodeTextIs, WordsConcat
    <3> QED BY <2>2, <3>3, <3>4, <3>5, CodeTextIs DEF CodeWords
  <2> QED BY <2>1, <2>2
<1>7. PICK middle : middle = (Len(quoted) + 1) \div 2
  OBVIOUS
<1>8. middle \in 0..Len(quoted)
  <2>1. Len(quoted) \in Nat
    BY <1>6 DEF Text
  <2> QED BY <1>7, <2>1
<1>9. PICK body : body = IF request.folded
                         THEN SubSeq(quoted, 1, middle) \o <<SoftBreak>> \o SubSeq(quoted, middle + 1, Len(quoted))
                         ELSE quoted
  OBVIOUS
<1>10. body \in Text /\ Without(body, {SoftBreak}) = quoted
  BY <1>6, <1>8, <1>9, Unfolded, Unbroken
<1>11. PICK head, blank : head = request.subject \o blank /\ blank = <<Space>>
  OBVIOUS
<1>12. blank \in Text /\ head \in Text /\ request.subject \in Text
  BY <1>11, RequestIs, BlankIsText, TextConcat
<1>13. ReplyText = head \o body
  BY <1>4, <1>7, <1>9, <1>11, Zenon DEF ReplyText
<1>14. CleanedEmail(ReplyText) = (request.subject \o <<Space>>) \o quoted
  <2>1. ~Holds(head, SoftBreak)
    <3>1. IsConcat(head, request.subject, blank) /\ request.subject \in Seq(Tokens) /\ blank \in Seq(Tokens)
      BY <1>11, <1>12 DEF IsConcat, Text
    <3>2. ~Holds(blank, SoftBreak) /\ ~Holds(request.subject, SoftBreak)
      <4>1. ~Holds(blank, SoftBreak)
        BY <1>11, HoldsOne, TokenAssumption, Zenon
      <4> QED BY <4>1, RequestIs
    <3> QED BY <3>1, <3>2, HoldsConcat
  <2>2. Without(head, {SoftBreak}) = head
    BY <1>12, <2>1, Unbroken
  <2>3. IsConcat(Without(ReplyText, {SoftBreak}), Without(head, {SoftBreak}), Without(body, {SoftBreak}))
    <3>1. IsConcat(ReplyText, head, body)
      BY <1>13 DEF IsConcat
    <3> QED BY <1>10, <1>12, <3>1, TextWithout
  <2>4. CleanedEmail(ReplyText) = head \o quoted
    BY <1>10, <2>2, <2>3 DEF CleanedEmail, IsConcat
  <2> QED BY <1>11, <2>4
<1>15. WordsOf(CleanedEmail(ReplyText)) = WordsOf(request.subject) \o WordsOf(quoted)
  BY <1>6, <1>12, <1>14, WordsConcat
<1>16. PICK s, w, c : s = WordsOf(request.subject) /\ w = WordsOf(row) /\ c = CodeWords
  OBVIOUS
<1>17. s \in Seq(Text) /\ w \in Seq(Text) /\ c \in Seq(Text)
  <2>1. w \in Seq(Text)
    BY <1>3, <1>12, <1>16, WordsIn
  <2> QED BY <1>16, <2>1, RequestWordsIn
<1>18. s \o (w \o c) = (s \o w) \o c
  <2>1. PICK V : V = Text
    OBVIOUS
  <2>2. s \in Seq(V) /\ w \in Seq(V) /\ c \in Seq(V)
    BY <1>17, <2>1
  <2> QED BY <2>2, Associative
<1> QED BY <1>1, <1>2, <1>3, <1>6, <1>15, <1>16, <1>18

-------------------------------------------------------------------------------
\* A quoted reply authenticates

\* The matchers of the request, by their numbers.
LEMMA MatcherNumbers ==
    ASSUME RequestWritten
    PROVE  /\ MatcherCount = ParamIndex(request.template, Len(request.template)) /\ MatcherCount \in Nat
           /\ \A n \in 1..MatcherCount :
                  /\ MatcherEntry(request.template, n) \in 1..Len(request.template)
                  /\ IsMatcher(request.template[MatcherEntry(request.template, n)])
                  /\ ParamIndex(request.template, MatcherEntry(request.template, n)) = n
           /\ \A i \in 1..Len(request.template) : IsMatcher(request.template[i]) =>
                  /\ ParamIndex(request.template, i) \in 1..MatcherCount
                  /\ MatcherEntry(request.template, ParamIndex(request.template, i)) = i
                  /\ AskedKind(ParamIndex(request.template, i)) = request.template[i].kind
<1>1. PICK T : T = request.template
  OBVIOUS
<1>2. Len(T) \in Nat
  BY <1>1, RequestIs
<1>3. MatcherCount = ParamIndex(T, Len(T))
  BY <1>1 DEF MatcherCount, MatcherEntries, ParamIndex
<1>4. MatcherCount \in Nat
  BY <1>2, <1>3, ParamIndexStep
<1>5. ASSUME NEW n, NEW i \in 1..Len(T), IsMatcher(T[i]), ParamIndex(T, i) = n
      PROVE  MatcherEntry(T, n) \in 1..Len(T) /\ IsMatcher(T[MatcherEntry(T, n)])
                 /\ ParamIndex(T, MatcherEntry(T, n)) = n /\ MatcherEntry(T, n) = i
  <2>1. i \in MatcherEntries(T)
    BY <1>5 DEF MatcherEntries
  <2>2. MatcherEntry(T, n) \in MatcherEntries(T) /\ ParamIndex(T, MatcherEntry(T, n)) = n
    BY <1>5, <2>1, Zenon DEF MatcherEntry
  <2>3. PICK k : k = MatcherEntry(T, n)
    OBVIOUS
  <2>4. k \in 1..Len(T) /\ IsMatcher(T[k]) /\ ParamIndex(T, k) = n
    BY <2>2, <2>3 DEF MatcherEntries
  <2>5. k \in Nat /\ i \in Nat
    BY <1>2, <2>4
  <2>6. k = i
    BY <1>5, <2>4, <2>5, ParamIndexTells
  <2> QED BY <2>3, <2>4, <2>6
<1>6. ASSUME NEW n \in 1..MatcherCount
      PROVE  MatcherEntry(T, n) \in 1..Len(T) /\ IsMatcher(T[MatcherEntry(T, n)])
                 /\ ParamIndex(T, MatcherEntry(T, n)) = n
  <2>1. n \in 1..ParamIndex(T, Len(T))
    BY <1>3
  <2>2. PICK i \in 1..Len(T) : IsMatcher(T[i]) /\ ParamIndex(T, i) = n
    BY <1>2, <2>1, MatcherOfParam
  <2> QED BY <1>5, <2>2
<1>7. ASSUME NEW i \in 1..Len(T), IsMatcher(T[i])
      PROVE  /\ ParamIndex(T, i) \in 1..MatcherCount
             /\ MatcherEntry(T, ParamIndex(T, i)) = i
             /\ AskedKind(ParamIndex(T, i)) = T[i].kind
  <2>1. i \in Nat /\ i <= Len(T) /\ i # 0
    BY <1>2
  <2>2. ParamIndex(T, i) \in 1..ParamIndex(T, Len(T))
    BY <1>2, <1>7, <2>1, ParamIndexWithin
  <2>3. MatcherEntry(T, ParamIndex(T, i)) = i
    BY <1>5, <1>7
  <2> QED BY <1>1, <1>3, <2>2, <2>3 DEF AskedKind
<1> QED BY <1>1, <1>3, <1>4, <1>6, <1>7

LEMMA RegularIs ==
    ASSUME NEW n, NEW stringCase, Regular(n, stringCase)
    PROVE  /\ WordsOf(request.params[n]) = <<request.params[n]>>
           /\ ~Holds(request.params[n], Open)
           /\ \A address \in Addresses : ~Holds(request.params[n], address)
           /\ IsValue(AskedKind(n), request.params[n])
           /\ Shown(AskedKind(n), Encoded(AskedKind(n), request.params[n]), stringCase) = request.params[n]
BY Zenon DEF Regular, Holds, Open

\* A text from its start is the text.
LEMMA WholeText ==
    ASSUME NEW text \in Text
    PROVE  removePrefix(text, 0) = text
<1>1. text \in Seq(Tokens) /\ Len(text) \in 0..Len(text)
  BY DEF Text
<1>2. PICK s : s = SubSeq(text, 1, Len(text))
  OBVIOUS
<1>3. s \in Seq(Tokens) /\ Len(s) = Len(text) /\ \A j \in 1..Len(s) : s[j] = text[j]
  BY <1>1, <1>2, CutIs
<1>4. s = text
  BY <1>1, <1>3, SameSeq
<1> QED BY <1>2, <1>4 DEF removePrefix

\* The words of the mail that an entry contributes.
LEMMA MailEntryWords ==
    ASSUME RequestWritten, NEW i \in 1..Len(request.template), NEW word, Holds(WordsOf(MailRow[i]), word)
    PROVE  word \in MailWords
<1>1. CASE MailRow[i] \in Words
  <2>1. WordsOf(MailRow[i]) = <<MailRow[i]>>
    BY <1>1, RequestWords, WordsOfWord
  <2>2. word = MailRow[i]
    BY <2>1, HoldsOne
  <2> QED BY <1>1, <2>2, Zenon DEF MailWords
<1>2. CASE MailRow[i] \in AskedParams
  BY <1>2, RequestIs
<1>3. CASE \E kind \in Matchers : MailRow[i] = Placeholder(kind)
  <2>1. PICK kind \in Matchers : MailRow[i] = Placeholder(kind)
    BY <1>3
  <2>2. WordsOf(MailRow[i]) = <<MailRow[i]>>
    BY <2>1, PlaceholderWord, PlaceholderIs, WordsOfWord
  <2> QED BY <2>1, <2>2, PlaceholderWord, HoldsOne
<1> QED BY <1>1, <1>2, <1>3, MailEntry

\* The words that a reply with the request's parameters has at the end of its subject.
LEMMA QuotedWords ==
    ASSUME RequestWritten, Plain, WordsOf(Joined(MailRow)) = MailRow,
           NEW words, words = WordsOf(CleanedEmail(ReplyText)),
           NEW p, p = Len(WordsOf(request.subject)) + 1
    PROVE  /\ Len(words) \in Nat /\ p \in 1..(Len(words) - Len(request.template) + 1)
           /\ \A i \in 1..Len(request.template) : words[p + i - 1] = MailRow[i]
<1>1. PICK s, c, front : s = WordsOf(request.subject) /\ c = CodeWords /\ front = s \o MailRow
  OBVIOUS
<1>2. s \in Seq(Text) /\ c \in Seq(Text) /\ MailRow \in Seq(Text) /\ Len(MailRow) = Len(request.template)
  BY <1>1, RequestWordsIn, MailRowIs
<1>3. words = front \o c
  BY <1>1, ReplyWords
<1>4. /\ front \in Seq(Text) /\ Len(front) = Len(s) + Len(MailRow)
      /\ \A i \in 1..Len(MailRow) : front[Len(s) + i] = MailRow[i]
  <2>1. IsConcat(front, s, MailRow)
    BY <1>1 DEF IsConcat
  <2> QED BY <1>2, <2>1, ConcatIs
<1>5. /\ words \in Seq(Text) /\ Len(words) = Len(front) + Len(c)
      /\ \A i \in 1..Len(front) : words[i] = front[i]
  <2>1. IsConcat(words, front, c)
    BY <1>3 DEF IsConcat
  <2> QED BY <1>2, <1>4, <2>1, ConcatIs
<1>6. Len(s) \in Nat /\ Len(c) \in Nat /\ Len(MailRow) \in Nat /\ p = Len(s) + 1
  BY <1>1, <1>2
<1>7. ASSUME NEW i \in 1..Len(request.template) PROVE words[p + i - 1] = MailRow[i]
  <2>1. i \in 1..Len(MailRow) /\ p + i - 1 = Len(s) + i /\ Len(s) + i \in 1..Len(front)
    <3>1. PICK m, n : m = Len(s) /\ n = Len(MailRow)
      OBVIOUS
    <3>2. m \in Nat /\ n \in Nat /\ p = m + 1 /\ i \in 1..n /\ Len(front) = m + n
      BY <1>2, <1>4, <1>6, <3>1
    <3>3. i \in 1..n /\ p + i - 1 = m + i /\ m + i \in 1..(m + n)
      BY <3>2
    <3> QED BY <3>1, <3>2, <3>3
  <2> QED BY <1>4, <1>5, <2>1
<1>8. p \in 1..(Len(words) - Len(request.template) + 1) /\ Len(words) \in Nat
  BY <1>2, <1>4, <1>5, <1>6
<1> QED BY <1>7, <1>8

\* No word of the template holds an address.
LiteralsKept ==
    \A text \in {request.template[i].text :
                    i \in (1..Len(request.template)) \ MatcherEntries(request.template)},
       address \in Addresses : ~Holds(text, address)

LEMMA LiteralKept ==
    ASSUME LiteralsKept, NEW i \in 1..Len(request.template), ~IsMatcher(request.template[i]),
           NEW address \in Addresses
    PROVE  ~Holds(request.template[i].text, address)
<1>1. i \in (1..Len(request.template)) \ MatcherEntries(request.template)
  BY DEF MatcherEntries
<1> QED BY <1>1, Zenon DEF LiteralsKept

\* Whatever the request, if its mail lets the reply be read only as the request has it
\* and masking leaves the template's words as they are.
THEOREM QuotedAuthenticates == Spec => []QuotedReplyAuthenticates
<1>1. RequestWritten => QuotedReplyAuthenticates
  <2> SUFFICES ASSUME RequestWritten, Len(request.params) >= MatcherCount,
                      NEW stringCase \in StringCases, \A n \in 1..MatcherCount : Regular(n, stringCase),
                      LiteralsKept,
                      Cardinality(MatchingPlaces(WordsOf(CleanedEmail(ReplyText)), request.template)) <= 1
               PROVE  Values # {} /\ \A values \in Values : Authentic(values)
    BY DEF QuotedReplyAuthenticates, LiteralsKept
  <2> DEFINE T == request.template
  <2>1. /\ Len(T) \in Nat /\ Len(request.params) \in Nat /\ MatcherCount \in Nat
        /\ request.params \in Seq(AskedParams)
    BY RequestIs, MatcherNumbers
  <2>2. ASSUME NEW i \in 1..Len(T), IsMatcher(T[i])
        PROVE  /\ ParamIndex(T, i) \in 1..MatcherCount /\ ParamIndex(T, i) \in 1..Len(request.params)
               /\ Regular(ParamIndex(T, i), stringCase) /\ AskedKind(ParamIndex(T, i)) = T[i].kind
               /\ MailRow[i] = request.params[ParamIndex(T, i)]
               /\ T[i].kind \in AskedMatchers
    <3>1. /\ ParamIndex(T, i) \in 1..MatcherCount /\ AskedKind(ParamIndex(T, i)) = T[i].kind
      BY <2>2, MatcherNumbers
    <3>2. ParamIndex(T, i) \in 1..Len(request.params) /\ ParamIndex(T, i) <= Len(request.params)
      BY <2>1, <3>1
    <3> QED BY <2>2, <3>1, <3>2, MailEntry
  <2>3. Plain
    <3>1. ASSUME NEW i \in 1..Len(T), IsMatcher(T[i]) PROVE ~Holds(request.params[ParamIndex(T, i)], Open)
      BY <2>2, <3>1, RegularIs
    <3> QED BY <3>1 DEF Plain, NoBraces
  <2>4. ASSUME NEW i \in 1..Len(T), ~IsMatcher(T[i])
        PROVE  MailRow[i] = T[i].text /\ MailRow[i] \in Words
    BY <2>4, MailEntry
  <2>5. /\ MailRow \in Seq(Text) /\ Len(MailRow) = Len(T)
        /\ \A i \in 1..Len(T) : MailRow[i] = FilledEntry(T, request.params, Len(request.params), i)
    BY MailRowIs
  <2>6. WordsOf(Joined(MailRow)) = MailRow
    <3>1. ASSUME NEW i \in 1..Len(MailRow) PROVE WordsOf(MailRow[i]) = <<MailRow[i]>>
      <4>1. i \in 1..Len(T)
        BY <2>5
      <4>2. CASE IsMatcher(T[i])
        BY <2>2, <4>1, <4>2, RegularIs
      <4>3. CASE ~IsMatcher(T[i])
        BY <2>4, <4>1, <4>3, RequestWords, WordsOfWord
      <4> QED BY <4>2, <4>3
    <3> QED BY <2>5, <3>1, WordsOfRow
  <2>7. PICK words, p : words = WordsOf(CleanedEmail(ReplyText)) /\ p = Len(WordsOf(request.subject)) + 1
    OBVIOUS
  <2>8. /\ Len(words) \in Nat /\ p \in 1..(Len(words) - Len(T) + 1)
        /\ \A i \in 1..Len(T) : words[p + i - 1] = MailRow[i]
    BY <2>3, <2>6, <2>7, QuotedWords
  <2>9. p \in MatchingPlaces(words, T)
    <3>1. ASSUME NEW i \in 1..Len(T)
          PROVE  IF IsMatcher(T[i]) THEN IsValue(T[i].kind, words[p + i - 1])
                 ELSE words[p + i - 1] = T[i].text
      <4>1. CASE IsMatcher(T[i])
        <5>1. IsValue(AskedKind(ParamIndex(T, i)), request.params[ParamIndex(T, i)])
          BY <2>2, <4>1, RegularIs
        <5> QED BY <2>2, <2>8, <4>1, <5>1
      <4>2. CASE ~IsMatcher(T[i])
        BY <2>4, <2>8, <4>2
      <4> QED BY <4>1, <4>2
    <3> QED BY <2>8, <3>1, Zenon DEF MatchingPlaces
  <2>10. \A q \in MatchingPlaces(words, T) : q = p
    <3>1. PICK n : n = Len(words) - Len(T) + 1
      OBVIOUS
    <3>2. n \in Nat /\ MatchingPlaces(words, T) \in SUBSET (1..n)
      <4>1. n \in Nat
        BY <2>1, <2>8, <3>1
      <4>2. \A q \in MatchingPlaces(words, T) : q \in 1..n
        BY <3>1, Zenon DEF MatchingPlaces
      <4> QED BY <4>1, <4>2
    <3>3. Cardinality(MatchingPlaces(words, T)) <= 1
      BY <2>7
    <3>4. PICK k \in Nat : \A q \in MatchingPlaces(words, T) : q = k
      BY <3>2, <3>3, AtMostOne
    <3> QED BY <2>9, <3>4
  <2>11. Values = {EncodedAt(words, T, p)}
    <3>1. Values = {EncodedAt(words, T, q) : q \in MatchingPlaces(words, T)}
      BY <2>7 DEF Values, get_encoded_command_params
    <3> QED BY <2>9, <2>10, <3>1
  <2>12. PICK values : values = EncodedAt(words, T, p)
    OBVIOUS
  <2>13. /\ Len(values) = MatcherCount
         /\ \A n \in 1..MatcherCount : values[n] = Encoded(AskedKind(n), request.params[n])
    <3>1. values = [n \in 1..MatcherCount |->
                       Encoded(T[MatcherEntry(T, n)].kind, words[p + MatcherEntry(T, n) - 1])]
      BY <2>12, Zenon DEF EncodedAt, MatcherCount
    <3>2. ASSUME NEW n \in 1..MatcherCount PROVE values[n] = Encoded(AskedKind(n), request.params[n])
      <4>1. PICK i : i = MatcherEntry(T, n)
        OBVIOUS
      <4>2. i \in 1..Len(T) /\ IsMatcher(T[i]) /\ ParamIndex(T, i) = n
        BY <4>1, MatcherNumbers
      <4>3. words[p + i - 1] = request.params[n] /\ T[i].kind = AskedKind(n)
        BY <2>2, <2>8, <4>2
      <4> QED BY <3>1, <4>1, <4>3
    <3> QED BY <2>1, <3>1, <3>2
  <2>14. Parsed = Joined(MailRow) /\ Parsed \in Text
    BY <2>3, ReplyWords
  <2>15. \A i \in 1..Len(Parsed) : Parsed[i] \notin Addresses
    <3> SUFFICES ASSUME NEW k \in 1..Len(Parsed), Parsed[k] \in Addresses PROVE FALSE
      OBVIOUS
    <3>1. PICK address \in Addresses : Holds(Parsed, address)
      BY Zenon DEF Holds
    <3>2. address # Space
      BY TokenAssumption, Zenon
    <3>3. PICK i \in 1..Len(T) : Holds(MailRow[i], address)
      BY <2>5, <2>14, <3>1, <3>2, TokenInRow
    <3>4. CASE IsMatcher(T[i])
      BY <2>2, <3>3, <3>4, RegularIs
    <3>5. CASE ~IsMatcher(T[i])
      BY <2>4, <3>3, <3>5, LiteralKept
    <3> QED BY <3>4, <3>5
  <2>16. ProofVerifies(Parsed)
    BY <2>15 DEF ProofVerifies
  <2>17. removePrefix(MaskedCommand(Parsed), 0) = Parsed
    <3>1. Without(Parsed, Addresses) = Parsed
      BY <2>14, <2>15, WithoutHolds DEF Text
    <3> QED BY <2>14, <3>1, WholeText DEF MaskedCommand
  <2>18. ParamsFit(values, T)
    <3> SUFFICES ASSUME NEW i \in 1..Len(T), IsMatcher(T[i])
                 PROVE  /\ ParamIndex(T, i) <= Len(values)
                        /\ Decodable(T[i].kind, values[ParamIndex(T, i)])
      BY DEF ParamsFit
    <3>1. PICK n, word : n = ParamIndex(T, i) /\ word = request.params[n]
      OBVIOUS
    <3>2. /\ n \in 1..MatcherCount /\ n \in 1..Len(request.params) /\ Regular(n, stringCase)
          /\ AskedKind(n) = T[i].kind /\ T[i].kind \in AskedMatchers
      BY <2>2, <3>1
    <3>3. word \in MailWords
      <4>1. WordsOf(word) = <<word>> /\ word \in AskedParams
        BY <2>1, <3>1, <3>2, RegularIs
      <4> QED BY <4>1, HoldsOne, RequestIs
    <3>4. IsValue(T[i].kind, word)
      BY <3>1, <3>2, RegularIs
    <3>5. Decodable(T[i].kind, Encoded(T[i].kind, word))
      BY <3>2, <3>3, <3>4, EncodingAssumption
    <3>6. n <= Len(values) /\ values[n] = Encoded(T[i].kind, word)
      BY <2>1, <2>13, <3>1, <3>2
    <3> QED BY <3>1, <3>5, <3>6
  <2>19. computeExpectedCommand(values, T, stringCase) = Parsed
    <3>1. ASSUME NEW i \in 1..Len(T)
          PROVE  EntryText(values, T, i, stringCase) = FilledEntry(T, request.params, Len(request.params), i)
      <4>1. CASE IsMatcher(T[i])
        <5>1. PICK n : n = ParamIndex(T, i)
          OBVIOUS
        <5>2. values[n] = Encoded(T[i].kind, request.params[n]) /\ MailRow[i] = request.params[n]
          BY <2>2, <2>13, <4>1, <5>1
        <5>3. Shown(T[i].kind, values[n], stringCase) = request.params[n]
          BY <2>2, <4>1, <5>1, <5>2, RegularIs
        <5> QED BY <2>5, <4>1, <5>1, <5>2, <5>3 DEF EntryText
      <4>2. CASE ~IsMatcher(T[i])
        BY <2>4, <2>5, <4>2 DEF EntryText
      <4> QED BY <4>1, <4>2
    <3>2. [i \in 1..Len(T) |-> EntryText(values, T, i, stringCase)] = MailRow
      BY <3>1 DEF MailRow, Filled
    <3> QED BY <2>14, <3>2 DEF computeExpectedCommand
  <2>20. Authentic(values)
    BY <2>16, <2>17, <2>18, <2>19 DEF Authentic, Authenticates, IsExpectedCommand
  <2> QED BY <2>11, <2>12, <2>20
<1> QED BY <1>1, RequestInvariant, PTL

-------------------------------------------------------------------------------
\* What a reply authorizes

\* A row has at least as many parts as entries, and no more only if each has one.
LEMMA CountLeast ==
    ASSUME NEW texts \in Seq(Text), texts # <<>>
    PROVE  /\ Count(Joined(texts)) >= Len(texts)
           /\ Count(Joined(texts)) = Len(texts) => \A i \in 1..Len(texts) : Count(texts[i]) = 1
<1> DEFINE Least(s) == /\ Count(Joined(s)) >= Len(s)
                       /\ Count(Joined(s)) = Len(s) => \A i \in 1..Len(s) : Count(s[i]) = 1
  T == {s \in Seq(Text) : s # <<>> => Least(s)}
<1>1. <<>> \in T
  OBVIOUS
<1>2. ASSUME NEW s \in T, NEW x \in Text PROVE Append(s, x) \in T
  <2>0. PICK more : more = Append(s, x)
    OBVIOUS
  <2>1. /\ s \in Seq(Text) /\ Len(s) \in Nat
        /\ more \in Seq(Text) /\ Len(more) = Len(s) + 1
        /\ \A i \in 1..Len(s) : more[i] = s[i]
        /\ more[Len(s) + 1] = x
    BY <2>0, AppendIs
  <2>2. s # <<>> => Least(s)
    OBVIOUS
  <2>3. Count(Joined(more)) = (IF s = <<>> THEN 0 ELSE Count(Joined(s))) + Count(x)
    BY <2>0, <2>1, CountAppend
  <2>4. PICK a, c : a = (IF s = <<>> THEN 0 ELSE Count(Joined(s))) /\ c = Count(x)
    OBVIOUS
  <2>5. c \in Nat \ {0}
    BY <2>4, CountIs
  <2>6. a \in Nat /\ a >= Len(s)
    <3>1. CASE s = <<>>
      BY <2>4, <3>1
    <3>2. CASE s # <<>>
      <4>1. Count(Joined(s)) \in Nat
        BY <2>1, JoinedIsText, CountIs
      <4> QED BY <2>2, <2>4, <3>2, <4>1
    <3> QED BY <3>1, <3>2
  <2>7. Count(Joined(more)) = a + c
    BY <2>3, <2>4
  <2>8. ASSUME a + c = Len(s) + 1 PROVE \A i \in 1..Len(more) : Count(more[i]) = 1
    <3>1. a = Len(s) /\ c = 1
      BY <2>1, <2>5, <2>6, <2>8
    <3>2. ASSUME NEW i \in 1..Len(s) PROVE Count(s[i]) = 1
      <4>1. s # <<>>
        OBVIOUS
      <4> QED BY <2>2, <2>4, <3>1, <4>1
    <3>3. \A i \in 1..Len(more) : i \in 1..Len(s) \/ i = Len(s) + 1
      BY <2>1
    <3> QED BY <2>1, <2>4, <3>1, <3>2, <3>3
  <2>9. Count(Joined(more)) >= Len(more)
    BY <2>1, <2>5, <2>6, <2>7
  <2>10. Least(more)
    BY <2>1, <2>7, <2>8, <2>9
  <2> QED BY <2>0, <2>1, <2>10
<1>3. T = Seq(Text)
  <2> HIDE DEF T
  <2>1. T \in SUBSET Seq(Text)
    BY DEF T
  <2> QED BY <1>1, <1>2, <2>1, SeqInduction
<1>4. texts \in T
  <2> HIDE DEF T
  <2> QED BY <1>3
<1> QED BY <1>4

\* A row of words without blanks is no other row of as many entries.
LEMMA WordsTell ==
    ASSUME NEW texts \in Seq(Text), NEW others \in Seq(Text), Len(texts) = Len(others),
           NoBlanks(texts), Joined(texts) = Joined(others)
    PROVE  texts = others
<1>1. CASE texts = <<>>
  BY <1>1
<1>2. CASE texts # <<>>
  <2>1. splitString(Joined(texts), Space) = texts
    BY <1>2, SplitRow
  <2>2. Count(Joined(others)) = Len(others) /\ others # <<>>
    BY <1>2, <2>1 DEF Count
  <2>3. \A i \in 1..Len(others) : Count(others[i]) = 1
    BY <2>2, CountLeast
  <2>4. \A i \in 1..Len(texts) : Count(texts[i]) = 1
    BY CountIs DEF NoBlanks
  <2> QED BY <2>3, <2>4, SameRow
<1> QED BY <1>1, <1>2

\* The entries of the mail without the addresses.
MaskedRow == [i \in 1..Len(request.template) |-> Without(MailRow[i], Addresses)]

LEMMA MaskedIs ==
    ASSUME RequestWritten, Plain
    PROVE  /\ MaskedRow \in Seq(Text) /\ Len(MaskedRow) = Len(request.template)
           /\ removePrefix(MaskedCommand(Parsed), 0) = Joined(MaskedRow)
<1>1. /\ MailRow \in Seq(Text) /\ Len(MailRow) = Len(request.template) /\ Len(request.template) \in Nat
  BY MailRowIs, RequestIs
<1>2. ASSUME NEW i \in 1..Len(request.template) PROVE Without(MailRow[i], Addresses) \in Text
  <2>1. MailRow[i] \in Seq(Tokens)
    <3>1. MailRow[i] \in Text
      BY <1>1
    <3> QED BY <3>1 DEF Text
  <2> QED BY <2>1, WithoutIn DEF Text
<1>3. /\ MaskedRow \in Seq(Text) /\ Len(MaskedRow) = Len(request.template)
      /\ \A i \in 1..Len(request.template) : MaskedRow[i] = Without(MailRow[i], Addresses)
  BY <1>1, <1>2 DEF MaskedRow
<1>4. Space \notin Addresses
  BY TokenAssumption, Zenon
<1>5. Without(Joined(MailRow), Addresses) = Joined(MaskedRow)
  BY <1>1, <1>3, <1>4, WithoutRow
<1>6. MaskedCommand(Parsed) = Joined(MaskedRow)
  BY <1>5, ReplyWords DEF MaskedCommand
<1>7. Joined(MaskedRow) \in Text
  BY <1>3, JoinedIsText
<1> QED BY <1>3, <1>6, <1>7, WholeText

\* An entry of which a word is left that has no blank is one word of the mail.
LEMMA MaskedWord ==
    ASSUME RequestWritten, NEW i \in 1..Len(request.template),
           NEW word \in Text, word # <<>>, ~HasBlank(word), word = Without(MailRow[i], Addresses)
    PROVE  word \in MaskedWords
<1>1. PICK entry : entry = MailRow[i]
  OBVIOUS
<1>2. entry \in Text /\ entry \in Seq(Tokens)
  <2>1. MailRow[i] \in Text
    BY MailRowIs
  <2> QED BY <1>1, <2>1 DEF Text
<1>3. \A token : Holds(word, token) <=> Holds(entry, token) /\ token \notin Addresses
  BY <1>1, <1>2, WithoutHolds
<1>4. ~HasBlank(entry)
  <2>1. Space \notin Addresses
    BY TokenAssumption, Zenon
  <2> QED BY <1>3, <2>1 DEF HasBlank
<1>5. entry # <<>>
  BY <1>1, WithoutEmpty
<1>6. WordsOf(entry) = <<entry>>
  BY <1>2, <1>4, <1>5, WordsOfWord
<1>7. entry \in MailWords
  BY <1>1, <1>6, HoldsOne, MailEntryWords
<1> QED BY <1>1, <1>7, Zenon DEF MaskedWords

\* Every word of the reply is one that a mail may consist of.
LEMMA ReplyWordsKnown ==
    ASSUME RequestWritten, Plain, NEW words, words = WordsOf(CleanedEmail(ReplyText)),
           NEW k \in 1..Len(words)
    PROVE  words[k] \in MailWords
<1>1. PICK s, w, c, front : s = WordsOf(request.subject) /\ w = WordsOf(Joined(MailRow)) /\ c = CodeWords /\ front = s \o w
  OBVIOUS
<1>2. s \in Seq(Text) /\ c \in Seq(Text) /\ w \in Seq(Text)
  <2>1. w \in Seq(Text)
    BY <1>1, ReplyWords, WordsIn
  <2> QED BY <1>1, <2>1, RequestWordsIn
<1>3. IsConcat(words, front, c) /\ IsConcat(front, s, w)
  BY <1>1, ReplyWords DEF IsConcat
<1>4. PICK word : word = words[k] /\ Holds(words, word)
  BY DEF Holds
<1>5. front \in Seq(Text)
  BY <1>2, <1>3, ConcatIs
<1>6. Holds(front, word) \/ Holds(c, word)
  BY <1>2, <1>3, <1>4, <1>5, HoldsConcat
<1>7. Holds(front, word) => Holds(s, word) \/ Holds(w, word)
  BY <1>2, <1>3, HoldsConcat
<1>8. CASE Holds(s, word)
  BY <1>1, <1>4, <1>8, RequestIs
<1>9. CASE Holds(w, word)
  <2>1. PICK i \in 1..Len(MailRow) : Holds(WordsOf(MailRow[i]), word)
    BY <1>1, <1>9, MailRowIs, WordInRow
  <2> QED BY <1>4, <2>1, MailRowIs, MailEntryWords
<1>10. CASE Holds(c, word)
  <2>1. word = <<"Code">> \/ word = <<CodeToken>>
    <3>1. PICK a, b : a = <<"Code">> /\ b = <<CodeToken>>
      OBVIOUS
    <3>2. c = <<a, b>> \/ c = <<>>
      BY <1>1, <3>1 DEF CodeWords
    <3>3. PICK j \in 1..Len(c) : c[j] = word
      BY <1>10, Zenon DEF Holds
    <3>4. word = a \/ word = b
      BY <3>2, <3>3
    <3> QED BY <3>1, <3>4
  <2> QED BY <1>4, <2>1, CodeIs
<1> QED BY <1>6, <1>7, <1>8, <1>9, <1>10

\* The condition under which the mail has what the request asks for.
LEMMA UnbracedPlain ==
    ASSUME RequestWritten, Unbraced
    PROVE  Plain
<1> DEFINE T == request.template
<1>1. Len(request.params) \in Nat /\ MatcherCount \in Nat
  BY RequestIs, MatcherNumbers
<1>2. \A n \in 1..(Len(request.params) - 1) : ~Holds(request.params[n], Open)
  BY Zenon DEF Unbraced, Open
<1>3. ASSUME NEW i \in 1..Len(T), IsMatcher(T[i]), ParamIndex(T, i) < Len(request.params)
      PROVE  ~Holds(request.params[ParamIndex(T, i)], Open)
  <2>1. ParamIndex(T, i) \in 1..MatcherCount
    BY <1>3, MatcherNumbers
  <2>2. ParamIndex(T, i) \in 1..(Len(request.params) - 1)
    BY <1>1, <1>3, <2>1
  <2> QED BY <1>2, <2>2
<1> QED BY <1>3 DEF Plain, NoBraces

\* An entry of the mail is what the request asks for there.
LEMMA AskedEntry ==
    ASSUME RequestWritten, NEW i \in 1..Len(request.template)
    PROVE  /\ IsMatcher(request.template[i]) => MailRow[i] = Asked(ParamIndex(request.template, i))
           /\ ~IsMatcher(request.template[i]) => MailRow[i] = request.template[i].text
<1> DEFINE T == request.template
<1>1. CASE IsMatcher(T[i])
  <2>1. PICK n : n = ParamIndex(T, i)
    OBVIOUS
  <2>2. AskedKind(n) = T[i].kind
    BY <1>1, <2>1, MatcherNumbers
  <2>3. Asked(n) = IF n <= Len(request.params) THEN request.params[n] ELSE Placeholder(AskedKind(n))
    BY Zenon DEF Asked, Placeholder, Open, Close
  <2>4. n \in 1..Len(request.params) => n <= Len(request.params)
    BY RequestIs
  <2> QED BY <1>1, <2>1, <2>2, <2>3, <2>4, MailEntry
<1>2. CASE ~IsMatcher(T[i])
  BY <1>2, MailEntry
<1> QED BY <1>1, <1>2

\* Whatever the template and however many parameters a request has: each is put at its own
\* matcher's place, and a matcher without one keeps its placeholder, unless a parameter
\* that another one follows brings a brace.
THEOREM ParametersPlaced == Spec => []CommandHasItsParameters
<1>1. RequestWritten => CommandHasItsParameters
  <2> DEFINE T == request.template
    row == [i \in 1..Len(T) |-> IF IsMatcher(T[i]) THEN Asked(ParamIndex(T, i)) ELSE T[i].text]
  <2> SUFFICES ASSUME RequestWritten, Unbraced PROVE Parsed = Joined(row)
    BY Zenon DEF CommandHasItsParameters
  <2>1. MailRow = [i \in 1..Len(T) |-> MailRow[i]]
    <3>1. MailRow \in Seq(Text) /\ Len(MailRow) = Len(T)
      BY MailRowIs
    <3> QED BY <3>1
  <2>2. \A i \in 1..Len(T) : MailRow[i] = IF IsMatcher(T[i]) THEN Asked(ParamIndex(T, i)) ELSE T[i].text
    BY AskedEntry
  <2>3. [i \in 1..Len(T) |-> MailRow[i]] = row
    BY <2>2
  <2>4. Parsed = Joined(MailRow)
    BY UnbracedPlain, ReplyWords
  <2> HIDE DEF T, row
  <2> QED BY <2>1, <2>3, <2>4, Zenon
<1> QED BY <1>1, RequestInvariant, PTL

\* Whatever the request, and whatever the reply says besides the command.
THEOREM AuthorizedAsked == Spec => []AuthorizedAsAsked
<1>1. RequestWritten => AuthorizedAsAsked
  <2> SUFFICES ASSUME RequestWritten, Unbraced,
                      NEW values \in Values, Authentic(values), NEW n \in 1..MatcherCount
               PROVE  values[n] = Encoded(AskedKind(n), Without(Asked(n), Addresses))
    BY Zenon DEF AuthorizedAsAsked
  <2> DEFINE T == request.template
  <2>1. Len(T) \in Nat /\ Len(request.params) \in Nat /\ MatcherCount \in Nat
    BY RequestIs, MatcherNumbers
  <2>2. Plain
    BY UnbracedPlain
  <2>3. PICK words : words = WordsOf(CleanedEmail(ReplyText))
    OBVIOUS
  <2>4. PICK p \in MatchingPlaces(words, T) : values = EncodedAt(words, T, p)
    BY <2>3, Zenon DEF Values, get_encoded_command_params
  <2>5. p \in 1..(Len(words) - Len(T) + 1) /\ Len(words) \in Nat
    <3>1. words \in Seq(Text)
      <4>1. PICK s, w, c, front : s = WordsOf(request.subject) /\ w = WordsOf(Joined(MailRow)) /\ c = CodeWords /\ front = s \o w
        OBVIOUS
      <4>2. s \in Seq(Text) /\ c \in Seq(Text) /\ w \in Seq(Text)
        <5>1. w \in Seq(Text)
          BY <2>2, <4>1, ReplyWords, WordsIn
        <5> QED BY <4>1, <5>1, RequestWordsIn
      <4>3. IsConcat(words, front, c) /\ IsConcat(front, s, w)
        BY <2>2, <2>3, <4>1, ReplyWords DEF IsConcat
      <4> QED BY <4>2, <4>3, ConcatIs
    <3>2. Len(words) \in Nat
      BY <3>1
    <3>3. p \in 1..(Len(words) - Len(T) + 1)
      BY Zenon DEF MatchingPlaces
    <3> QED BY <3>2, <3>3
  <2>6. ASSUME NEW i \in 1..Len(T)
        PROVE  /\ words[p + i - 1] \in MailWords
               /\ IsMatcher(T[i]) => IsValue(T[i].kind, words[p + i - 1])
    <3>1. p + i - 1 \in 1..Len(words)
      BY <2>1, <2>5
    <3>2. IsMatcher(T[i]) => IsValue(T[i].kind, words[p + i - 1])
      BY Zenon DEF MatchingPlaces
    <3> QED BY <2>2, <2>3, <3>1, <3>2, ReplyWordsKnown
  <2>7. ASSUME NEW i \in 1..Len(T), IsMatcher(T[i])
        PROVE  /\ values[ParamIndex(T, i)] = Encoded(T[i].kind, words[p + i - 1])
               /\ T[i].kind \in AskedMatchers
    <3>1. ParamIndex(T, i) \in 1..MatcherCount /\ MatcherEntry(T, ParamIndex(T, i)) = i
      BY <2>7, MatcherNumbers
    <3>2. values = [m \in 1..MatcherCount |->
                       Encoded(T[MatcherEntry(T, m)].kind, words[p + MatcherEntry(T, m) - 1])]
      BY <2>4, Zenon DEF EncodedAt, MatcherCount
    <3>3. T[i].kind \in AskedMatchers
      BY <2>7, MailEntry
    <3> QED BY <3>1, <3>2, <3>3
  <2>8. PICK stringCase \in StringCases :
            computeExpectedCommand(values, T, stringCase) = removePrefix(MaskedCommand(Parsed), 0)
    BY Zenon DEF Authentic, Authenticates, IsExpectedCommand
  <2>9. ASSUME NEW i \in 1..Len(T)
        PROVE  /\ EntryText(values, T, i, stringCase) \in Text
               /\ EntryText(values, T, i, stringCase) # <<>>
               /\ ~HasBlank(EntryText(values, T, i, stringCase))
    <3>1. CASE IsMatcher(T[i])
      <4>1. PICK word : word = words[p + i - 1]
        OBVIOUS
      <4>2. /\ word \in MailWords /\ IsValue(T[i].kind, word) /\ T[i].kind \in AskedMatchers
            /\ values[ParamIndex(T, i)] = Encoded(T[i].kind, word)
        BY <2>6, <2>7, <3>1, <4>1
      <4>3. PICK printed : printed = Shown(T[i].kind, Encoded(T[i].kind, word), stringCase)
        OBVIOUS
      <4>4. printed \in Text \ {<<>>} /\ ~HasBlank(printed)
        BY <4>2, <4>3, EncodingAssumption
      <4>5. EntryText(values, T, i, stringCase) = printed
        BY <3>1, <4>2, <4>3 DEF EntryText
      <4> QED BY <4>4, <4>5
    <3>2. CASE ~IsMatcher(T[i])
      <4>1. EntryText(values, T, i, stringCase) = MailRow[i] /\ MailRow[i] \in Words
        BY <3>2, MailEntry DEF EntryText
      <4> QED BY <4>1, RequestWords
    <3> QED BY <3>1, <3>2
  <2>10. PICK texts : texts = [i \in 1..Len(T) |-> EntryText(values, T, i, stringCase)]
    OBVIOUS
  <2>11. /\ texts \in Seq(Text) /\ Len(texts) = Len(T)
         /\ \A i \in 1..Len(T) : texts[i] = EntryText(values, T, i, stringCase)
    BY <2>1, <2>9, <2>10
  <2>12. texts = MaskedRow
    <3>1. Joined(texts) = Joined(MaskedRow)
      BY <2>2, <2>8, <2>10, MaskedIs DEF computeExpectedCommand
    <3>2. NoBlanks(texts)
      BY <2>9, <2>11 DEF NoBlanks
    <3>3. MaskedRow \in Seq(Text) /\ Len(MaskedRow) = Len(T)
      BY <2>2, MaskedIs
    <3> QED BY <2>11, <3>1, <3>2, <3>3, WordsTell
  <2>13. PICK i : i = MatcherEntry(T, n)
    OBVIOUS
  <2>14. i \in 1..Len(T) /\ IsMatcher(T[i]) /\ ParamIndex(T, i) = n /\ AskedKind(n) = T[i].kind
    BY <2>13, MatcherNumbers
  <2>15. PICK kind, word, printed :
             /\ kind = T[i].kind /\ word = words[p + i - 1]
             /\ printed = Shown(kind, Encoded(kind, word), stringCase)
    OBVIOUS
  <2>16. /\ values[n] = Encoded(kind, word) /\ kind \in AskedMatchers
         /\ word \in MailWords /\ IsValue(kind, word)
    BY <2>6, <2>7, <2>14, <2>15
  <2>17. texts[i] = printed
    BY <2>11, <2>14, <2>15, <2>16 DEF EntryText
  <2>18. texts[i] \in Text /\ texts[i] # <<>> /\ ~HasBlank(texts[i]) /\ texts[i] = Without(MailRow[i], Addresses)
    <3>1. texts[i] = Without(MailRow[i], Addresses)
      BY <2>12, <2>14 DEF MaskedRow
    <3> QED BY <2>9, <2>11, <2>14, <3>1
  <2>19. printed = Without(MailRow[i], Addresses) /\ printed \in MaskedWords
    <3>1. printed \in Text /\ printed # <<>> /\ ~HasBlank(printed) /\ printed = Without(MailRow[i], Addresses)
      BY <2>17, <2>18
    <3> QED BY <2>14, <3>1, MaskedWord
  <2>20. Encoded(kind, printed) = Encoded(kind, word)
    <3>1. Shown(kind, Encoded(kind, word), stringCase) \in MaskedWords =>
              Encoded(kind, Shown(kind, Encoded(kind, word), stringCase)) = Encoded(kind, word)
      BY <2>16, EncodingAssumption, Zenon
    <3> QED BY <2>15, <2>19, <3>1
  <2>21. Asked(n) = MailRow[i]
    BY <2>14, AskedEntry
  <2> QED BY <2>14, <2>15, <2>16, <2>19, <2>20, <2>21
<1> QED BY <1>1, RequestInvariant, PTL

-------------------------------------------------------------------------------
\* Numerals

\* The digits of a positive number, as Strings.toString prints it.
IsPositive(number) == number \in Seq(Digits) /\ number # <<>> /\ number[1] # "0"

-------------------------------------------------------------------------------
\* The numeral with all its decimals: the byte at place i of the integer part, from the
\* left, and at place j of the fraction.
Whole(number, places, i) == IF Len(number) > places THEN number[i] ELSE "0"

Decimal(number, places, j) ==
    IF Len(number) + j > places THEN number[Len(number) - places + j] ELSE "0"

\* A non-zero decimal stands at place j or behind it.
Significant(number, places, j) == \E k \in j..places : Decimal(number, places, k) # "0"

\* The lengths of integer part and fraction make up the number's own.
LEMMA PointPlace ==
    ASSUME NEW number, IsPositive(number), NEW places \in Nat
    PROVE  /\ Len(number) \in Nat \ {0}
           /\ pointIndex(number, places) =
                  IF Len(number) > places THEN Len(number) - places ELSE 1
           /\ resultLength(number, places) = pointIndex(number, places) + 1 + places
<1>1. Len(number) \in Nat /\ Len(number) # 0
  BY DEF IsPositive
<1> QED BY <1>1 DEF pointIndex, resultLength

LEMMA DigitsOfNumeral ==
    ASSUME NEW number, IsPositive(number), NEW places \in Nat
    PROVE  /\ \A i \in 1..pointIndex(number, places) : Whole(number, places, i) \in Digits
           /\ \A j \in 1..places : Decimal(number, places, j) \in Digits
<1>1. Len(number) \in Nat \ {0} /\ number \in Seq(Digits) /\ "0" \in Digits
  BY PointPlace DEF IsPositive, Digits
<1>2. ASSUME NEW i \in 1..pointIndex(number, places) PROVE Whole(number, places, i) \in Digits
  <2>1. CASE Len(number) > places
    <3>1. i \in 1..Len(number)
      BY <1>1, <2>1, PointPlace
    <3> QED BY <1>1, <2>1, <3>1 DEF Whole
  <2>2. CASE ~ (Len(number) > places)
    BY <1>1, <2>2 DEF Whole
  <2> QED BY <2>1, <2>2
<1>3. ASSUME NEW j \in 1..places PROVE Decimal(number, places, j) \in Digits
  <2>1. CASE Len(number) + j > places
    <3>1. Len(number) - places + j \in 1..Len(number)
      BY <1>1, <2>1
    <3> QED BY <1>1, <2>1, <3>1 DEF Decimal
  <2>2. CASE ~ (Len(number) + j > places)
    BY <1>1, <2>2 DEF Decimal
  <2> QED BY <2>1, <2>2
<1> QED BY <1>2, <1>3

\* What the code finds at an index: a byte of the integer part ...
LEMMA DecimalAt ==
    ASSUME NEW number, IsPositive(number), NEW places \in Nat, NEW j \in 1..places
    PROVE  LET i == pointIndex(number, places) + j IN
           Decimal(number, places, j) =
               IF LeftOfDigits(number, places, i) THEN "0" ELSE DigitAt(number, places, i)
<1> DEFINE i == pointIndex(number, places) + j
<1>1. Len(number) \in Nat \ {0}
  BY PointPlace
<1>2. CASE Len(number) > places
  <2>0. pointIndex(number, places) = Len(number) - places
    BY <1>2, PointPlace
  <2>1. i = Len(number) - places + j /\ ~ (i < pointIndex(number, places))
    BY <1>1, <2>0
  <2>2. ~ LeftOfDigits(number, places, i)
    BY <1>1, <1>2 DEF LeftOfDigits
  <2>3. DigitAt(number, places, i) = number[i - 1 + 1]
    BY <1>2, <2>1 DEF DigitAt
  <2>4. i - 1 + 1 = i
    BY <1>1, <1>2, <2>1
  <2>5. Decimal(number, places, j) = number[Len(number) - places + j]
    BY <1>1, <1>2 DEF Decimal
  <2> SUFFICES Decimal(number, places, j) = DigitAt(number, places, i)
    BY <2>2
  <2> HIDE DEF i
  <2> QED BY <2>1, <2>3, <2>4, <2>5
<1>3. CASE ~ (Len(number) > places)
  <2>1. i = 1 + j /\ ~ (i < pointIndex(number, places))
    BY <1>1, <1>3, PointPlace
  <2>2. resultLength(number, places) = places + 2
    BY <1>1, <1>3 DEF resultLength
  <2>3. LeftOfDigits(number, places, i) <=> ~ (Len(number) + j > places)
    BY <1>1, <1>3, <2>1, <2>2 DEF LeftOfDigits
  <2>4. DigitAt(number, places, i) = number[i - (resultLength(number, places) - Len(number)) + 1]
    BY <1>3, <2>1 DEF DigitAt
  <2>5. i - (resultLength(number, places) - Len(number)) + 1 = Len(number) - places + j
    BY <1>1, <2>1, <2>2
  <2>6. Decimal(number, places, j) =
            IF Len(number) + j > places THEN number[Len(number) - places + j] ELSE "0"
    BY DEF Decimal
  <2> SUFFICES Decimal(number, places, j) =
                   IF LeftOfDigits(number, places, i) THEN "0" ELSE DigitAt(number, places, i)
    OBVIOUS
  <2> HIDE DEF i
  <2> QED BY <2>3, <2>4, <2>5, <2>6
<1> QED BY <1>2, <1>3

\* ... and to the right of any index behind the point, a non-zero decimal or none.
LEMMA FoundIsSignificant ==
    ASSUME NEW number, IsPositive(number), NEW places \in Nat, NEW j \in 0..places
    PROVE  foundNonZeroDecimal(number, places, pointIndex(number, places) + j)
               <=> Significant(number, places, j + 1)
<1> DEFINE p == pointIndex(number, places)
<1>1. p \in Nat \ {0} /\ resultLength(number, places) = p + 1 + places
  BY PointPlace
<1>2. ASSUME NEW k \in (j + 1)..places
      PROVE  /\ p + k \in (p + j + 1)..(resultLength(number, places) - 1)
             /\ p + k > p
             /\ Decimal(number, places, k) # "0"
                    <=> ~LeftOfDigits(number, places, p + k) /\ DigitAt(number, places, p + k) # "0"
  <2>1. k \in 1..places
    OBVIOUS
  <2>2. Decimal(number, places, k) =
            IF LeftOfDigits(number, places, p + k) THEN "0" ELSE DigitAt(number, places, p + k)
    BY <2>1, DecimalAt
  <2>3. p + k \in (p + j + 1)..(resultLength(number, places) - 1) /\ p + k > p
    BY <1>1
  <2> HIDE DEF p
  <2> QED BY <2>2, <2>3
<1>3. ASSUME Significant(number, places, j + 1) PROVE foundNonZeroDecimal(number, places, p + j)
  <2>1. PICK k \in (j + 1)..places : Decimal(number, places, k) # "0"
    BY <1>3 DEF Significant
  <2> HIDE DEF p
  <2> QED BY <1>2, <2>1 DEF foundNonZeroDecimal, p
<1>4. ASSUME foundNonZeroDecimal(number, places, p + j) PROVE Significant(number, places, j + 1)
  <2>1. PICK i \in (p + j + 1)..(resultLength(number, places) - 1) :
            ~LeftOfDigits(number, places, i) /\ DigitAt(number, places, i) # "0"
    BY <1>4 DEF foundNonZeroDecimal
  <2>2. i - p \in (j + 1)..places /\ p + (i - p) = i
    BY <1>1
  <2>3. Decimal(number, places, i - p) # "0"
    <3> HIDE DEF p
    <3> QED BY <1>2, <2>1, <2>2
  <2> QED BY <2>2, <2>3 DEF Significant
<1> QED BY <1>3, <1>4

\* What the loop leaves: the integer part, and the point and the fraction as far as
\* something other than a zero follows.
LEMMA Written ==
    ASSUME NEW number, IsPositive(number), NEW places \in Nat
    PROVE  LET p == pointIndex(number, places) IN
           /\ \A i \in 1..p : ByteAt(number, places, i - 1) = Whole(number, places, i)
           /\ ByteAt(number, places, p) = IF Significant(number, places, 1) THEN "." ELSE NUL
           /\ \A j \in 1..places :
                  ByteAt(number, places, p + j) =
                      IF Significant(number, places, j) THEN Decimal(number, places, j) ELSE NUL
<1> DEFINE p == pointIndex(number, places)
<1>1. Len(number) \in Nat \ {0} /\ p \in Nat \ {0}
  BY PointPlace
<1>2. ASSUME NEW i \in 1..p PROVE ByteAt(number, places, i - 1) = Whole(number, places, i)
  <2>1. i - 1 # p /\ i - 1 < p
    BY <1>1
  <2>2. CASE Len(number) > places
    <3>1. ~ LeftOfDigits(number, places, i - 1)
      BY <1>1, <2>2 DEF LeftOfDigits
    <3>2. DigitAt(number, places, i - 1) = number[i]
      <4>1. DigitAt(number, places, i - 1) = number[i - 1 - 0 + 1]
        BY <2>1 DEF DigitAt
      <4>2. i - 1 - 0 + 1 = i
        BY <1>1
      <4> QED BY <4>1, <4>2
    <3> HIDE DEF p
    <3> QED BY <2>1, <2>2, <3>1, <3>2 DEF ByteAt, Whole, p
  <2>3. CASE ~ (Len(number) > places)
    <3>1. i = 1
      BY <1>1, <2>3, PointPlace
    <3>2. LeftOfDigits(number, places, i - 1)
      BY <1>1, <2>3, <3>1 DEF LeftOfDigits, resultLength
    <3> HIDE DEF p
    <3> QED BY <2>1, <2>3, <3>2 DEF ByteAt, Whole, p
  <2> QED BY <2>2, <2>3
<1>3. ByteAt(number, places, p) = IF Significant(number, places, 1) THEN "." ELSE NUL
  <2>1. foundNonZeroDecimal(number, places, p + 0) <=> Significant(number, places, 0 + 1)
    BY FoundIsSignificant
  <2>2. p + 0 = p /\ 0 + 1 = 1
    BY <1>1
  <2> HIDE DEF p
  <2> QED BY <2>1, <2>2 DEF ByteAt, p
<1>4. ASSUME NEW j \in 1..places
      PROVE  ByteAt(number, places, p + j) =
                 IF Significant(number, places, j) THEN Decimal(number, places, j) ELSE NUL
  <2>1. foundNonZeroDecimal(number, places, p + j) <=> Significant(number, places, j + 1)
    BY FoundIsSignificant
  <2>2. Significant(number, places, j)
            <=> Significant(number, places, j + 1) \/ Decimal(number, places, j) # "0"
    BY DEF Significant
  <2>3. Decimal(number, places, j) =
            IF LeftOfDigits(number, places, p + j) THEN "0" ELSE DigitAt(number, places, p + j)
    BY DecimalAt
  <2>4. p + j # p /\ ~ (p + j < p)
    BY <1>1
  <2>5. LeftOfDigits(number, places, p + j) => Significant(number, places, j)
    <3> SUFFICES ASSUME LeftOfDigits(number, places, p + j) PROVE Significant(number, places, j)
      OBVIOUS
    <3>1. Len(number) <= places /\ p = 1 /\ Len(number) + j <= places
      BY <1>1, PointPlace DEF LeftOfDigits, resultLength
    <3> DEFINE k == places - Len(number) + 1
    <3>2. k \in j..places /\ Len(number) + k > places /\ Len(number) - places + k = 1
      BY <1>1, <3>1
    <3>3. Decimal(number, places, k) = number[1]
      BY <3>2 DEF Decimal
    <3> HIDE DEF k
    <3> QED BY <3>2, <3>3 DEF Significant, IsPositive
  <2> HIDE DEF p
  <2> QED BY <2>1, <2>2, <2>3, <2>4, <2>5 DEF ByteAt, p
<1> QED BY <1>2, <1>3, <1>4

-------------------------------------------------------------------------------
\* The numeral with k decimals.
Numeral(number, places, k) ==
    LET p == pointIndex(number, places) IN
    [i \in 1..(IF k = 0 THEN p ELSE p + 1 + k) |->
        IF i <= p THEN Whole(number, places, i)
        ELSE IF i = p + 1 THEN "." ELSE Decimal(number, places, i - p - 1)]

\* k counts the decimals without the zeros at their end.
IsLastDecimal(number, places, k) ==
    /\ k \in 0..places
    /\ k # 0 => Decimal(number, places, k) # "0"
    /\ \A j \in (k + 1)..places : Decimal(number, places, j) = "0"

\* uintToDecimalString counts the bytes it has written, and as there is no gap between
\* them, these are the bytes it returns.
LEMMA PrintedIsNumeral ==
    ASSUME NEW number, IsPositive(number), NEW places \in Nat
    PROVE  \E k : /\ IsLastDecimal(number, places, k)
                  /\ uintToDecimalString(number, places) = Numeral(number, places, k)
<1> DEFINE p == pointIndex(number, places)
  S == {j \in 1..places : Decimal(number, places, j) # "0"}
<1>1. p \in Nat \ {0} /\ resultLength(number, places) = p + 1 + places
  BY PointPlace
<1>2. PICK k : IsLastDecimal(number, places, k)
  <2>1. CASE S = {}
    <3>1. IsLastDecimal(number, places, 0)
      BY <2>1 DEF IsLastDecimal
    <3> QED BY <3>1
  <2>2. CASE S # {}
    <3>1. S \in SUBSET (0..places)
      OBVIOUS
    <3>2. PICK m \in S : \A j \in S : j <= m
      <4> HIDE DEF S
      <4> QED BY <2>2, <3>1, GreatestElement
    <3>3. IsLastDecimal(number, places, m)
      BY <3>2 DEF IsLastDecimal
    <3> QED BY <3>3
  <2> QED BY <2>1, <2>2
<1>3. k \in 0..places
  BY <1>2 DEF IsLastDecimal
<1>4. ASSUME NEW j \in 1..places PROVE Significant(number, places, j) <=> j <= k
  BY <1>2 DEF IsLastDecimal, Significant
<1>5. Significant(number, places, 1) <=> k # 0
  <2>1. CASE places = 0
    BY <1>3, <2>1 DEF Significant
  <2>2. CASE places # 0
    <3>1. 1 \in 1..places
      BY <2>2
    <3> QED BY <1>3, <1>4, <3>1
  <2> QED BY <2>1, <2>2
<1> DEFINE n == IF k = 0 THEN p ELSE p + 1 + k
  byte(i) == ByteAt(number, places, i)
<1>6. \A d \in Digits : d # NUL
  BY DEF Digits, NUL
<1>7. ASSUME NEW i \in 1..p PROVE byte(i - 1) = Whole(number, places, i) /\ byte(i - 1) # NUL
  BY <1>6, Written, DigitsOfNumeral
<1>8. byte(p) = (IF k # 0 THEN "." ELSE NUL)
  BY <1>5, Written
<1>9. ASSUME NEW j \in 1..places
      PROVE  /\ j <= k => byte(p + j) = Decimal(number, places, j) /\ byte(p + j) # NUL
             /\ j > k => byte(p + j) = NUL
  <2>1. byte(p + j) = IF Significant(number, places, j) THEN Decimal(number, places, j) ELSE NUL
    BY Written
  <2>2. Decimal(number, places, j) # NUL
    BY <1>6, DigitsOfNumeral
  <2> HIDE DEF byte, p
  <2> QED BY <1>3, <1>4, <2>1, <2>2
<1>10. ASSUME NEW i \in 0..(p + places)
       PROVE  /\ byte(i) # NUL <=> i < n
              /\ i < n => byte(i) = Numeral(number, places, k)[i + 1]
  <2> DEFINE t == Numeral(number, places, k)
  <2>1. ASSUME i < n
        PROVE  t[i + 1] = IF i + 1 <= p THEN Whole(number, places, i + 1)
                          ELSE IF i + 1 = p + 1 THEN "."
                          ELSE Decimal(number, places, i + 1 - p - 1)
    <3>1. i + 1 \in 1..n
      BY <1>1, <1>3, <2>1
    <3>2. ASSUME NEW l \in 1..n
          PROVE  t[l] = IF l <= p THEN Whole(number, places, l)
                        ELSE IF l = p + 1 THEN "." ELSE Decimal(number, places, l - p - 1)
      BY Zenon DEF Numeral
    <3> HIDE DEF t, n, p
    <3> QED BY <1>1, <1>3, <3>1, <3>2
  <2> HIDE DEF byte, p
  <2>2. CASE i < p
    <3>1. i + 1 \in 1..p /\ i + 1 - 1 = i /\ i < n
      BY <1>1, <1>3, <2>2
    <3>2. byte(i) = Whole(number, places, i + 1) /\ byte(i) # NUL
      BY <1>7, <3>1
    <3>3. t[i + 1] = Whole(number, places, i + 1)
      BY <2>1, <3>1
    <3> QED BY <3>1, <3>2, <3>3
  <2>3. CASE i = p
    <3>1. i < n <=> k # 0
      BY <1>1, <1>3, <2>3
    <3>2. i + 1 = p + 1 /\ ~ (i + 1 <= p) /\ "." # NUL
      BY <1>1, <2>3 DEF NUL
    <3>3. i < n => t[i + 1] = "."
      BY <2>1, <3>2
    <3>4. byte(i) = (IF k # 0 THEN "." ELSE NUL)
      BY <1>8, <2>3
    <3> HIDE DEF n
    <3> QED BY <3>1, <3>2, <3>3, <3>4
  <2>4. CASE i > p
    <3> DEFINE j == i - p
    <3>1. j \in 1..places /\ p + j = i /\ i + 1 - p - 1 = j /\ ~ (i + 1 <= p) /\ i + 1 # p + 1
      BY <1>1, <2>4
    <3>2. i < n <=> j <= k
      BY <1>1, <1>3, <2>4
    <3>3. /\ j <= k => byte(i) = Decimal(number, places, j) /\ byte(i) # NUL
          /\ j > k => byte(i) = NUL
      BY <1>9, <3>1
    <3>4. j <= k \/ j > k
      BY <1>3, <3>1
    <3>5. i < n => t[i + 1] = Decimal(number, places, j)
      BY <2>1, <3>1
    <3> HIDE DEF j, n
    <3> QED BY <3>2, <3>3, <3>4, <3>5
  <2> QED BY <1>1, <2>2, <2>3, <2>4
<1>11. n \in 1..(p + 1 + places)
  BY <1>1, <1>3
<1>12. {i \in 0..(resultLength(number, places) - 1) : byte(i) # NUL} = 0..(n - 1)
  <2>1. resultLength(number, places) - 1 = p + places
    BY <1>1
  <2> HIDE DEF n, byte, p
  <2> QED BY <1>1, <1>10, <1>11, <2>1
<1>13. Cardinality(0..(n - 1)) = n
  <2> HIDE DEF n, p
  <2> QED BY <1>1, <1>11, FS_Interval
<1>14. uintToDecimalString(number, places) = [i \in 1..n |-> byte(i - 1)]
  <2> HIDE DEF n
  <2> QED BY <1>12, <1>13, Zenon DEF uintToDecimalString
<1>15. ASSUME NEW i \in 1..n PROVE byte(i - 1) = Numeral(number, places, k)[i]
  <2>1. i - 1 \in 0..(p + places) /\ i - 1 < n /\ i - 1 + 1 = i
    BY <1>1, <1>11
  <2> HIDE DEF n, byte, p
  <2> QED BY <1>10, <2>1
<1>16. Numeral(number, places, k) = [i \in 1..n |-> Numeral(number, places, k)[i]]
  BY DEF Numeral
<1>17. uintToDecimalString(number, places) = Numeral(number, places, k)
  <2> HIDE DEF n, byte
  <2> QED BY <1>14, <1>15, <1>16
<1> QED BY <1>2, <1>17

-------------------------------------------------------------------------------
\* Reading the numeral

\* The point of a numeral, or its end, is behind the integer part.
LEMMA PointOfNumeral ==
    ASSUME NEW number, IsPositive(number), NEW places \in Nat,
           NEW k, IsLastDecimal(number, places, k)
    PROVE  PointOf(Numeral(number, places, k)) = pointIndex(number, places) + 1
<1> DEFINE p == pointIndex(number, places)
  t == Numeral(number, places, k)
  IsPoint(i) == (i <= Len(t) /\ t[i] = ".") \/ (i = Len(t) + 1 /\ "." \notin {t[j] : j \in 1..Len(t)})
<1>1. p \in Nat \ {0} /\ k \in 0..places
  BY PointPlace DEF IsLastDecimal
<1>2. Len(t) = IF k = 0 THEN p ELSE p + 1 + k
  BY <1>1 DEF Numeral
<1>3. ASSUME NEW i \in 1..Len(t)
      PROVE  t[i] = IF i <= p THEN Whole(number, places, i)
                    ELSE IF i = p + 1 THEN "." ELSE Decimal(number, places, i - p - 1)
  BY <1>1, <1>2 DEF Numeral
<1>4. \A d \in Digits : d # "."
  BY DEF Digits
<1>5. ASSUME NEW i \in 1..Len(t) PROVE t[i] = "." <=> i = p + 1
  <2>1. CASE i <= p
    <3>1. Whole(number, places, i) \in Digits
      BY <1>1, <1>2, <2>1, DigitsOfNumeral
    <3>2. t[i] = Whole(number, places, i) /\ i # p + 1
      BY <1>1, <1>3, <2>1
    <3> QED BY <1>4, <3>1, <3>2
  <2>2. CASE i = p + 1
    <3> HIDE DEF t, p
    <3> QED BY <1>1, <1>3, <2>2
  <2>3. CASE i > p + 1
    <3>1. i - p - 1 \in 1..places
      BY <1>1, <1>2, <2>3
    <3>2. Decimal(number, places, i - p - 1) \in Digits
      BY <3>1, DigitsOfNumeral
    <3>3. ~ (i <= p) /\ i # p + 1
      BY <1>1, <2>3
    <3>4. t[i] = Decimal(number, places, i - p - 1)
      <4> HIDE DEF t, p
      <4> QED BY <1>3, <3>3
    <3> QED BY <1>4, <3>2, <3>3, <3>4
  <2> HIDE DEF t, p
  <2> QED BY <1>1, <1>2, <2>1, <2>2, <2>3
<1>6. p + 1 \in 1..(Len(t) + 1) /\ Len(t) \in Nat
  BY <1>1, <1>2
<1>7. ASSUME NEW i \in 1..(Len(t) + 1) PROVE IsPoint(i) <=> i = p + 1
  <2> HIDE DEF t, p
  <2>1. CASE k = 0
    <3>1. Len(t) = p
      BY <1>2, <2>1
    <3>2. \A j \in 1..Len(t) : t[j] # "."
      BY <1>1, <1>5, <3>1
    <3>3. "." \notin {t[j] : j \in 1..Len(t)}
      BY <3>2
    <3>4. i = Len(t) + 1 \/ i \in 1..Len(t)
      BY <1>6
    <3> QED BY <1>1, <3>1, <3>2, <3>3, <3>4
  <2>2. CASE k # 0
    <3>1. p + 1 \in 1..Len(t)
      BY <1>1, <1>2, <2>2
    <3>2. t[p + 1] = "."
      BY <1>5, <3>1
    <3>3. "." \in {t[j] : j \in 1..Len(t)}
      BY <3>1, <3>2
    <3>4. i <= Len(t) => i \in 1..Len(t)
      BY <1>6
    <3> QED BY <1>5, <1>6, <3>1, <3>2, <3>3, <3>4
  <2> QED BY <2>1, <2>2
<1>8. PointOf(t) = CHOOSE i \in 1..(Len(t) + 1) : IsPoint(i)
  BY DEF PointOf
<1> HIDE DEF IsPoint, t, p
<1>9. PointOf(t) = p + 1
  BY <1>6, <1>7, <1>8
<1> QED BY <1>9 DEF t, p

\* So its parts are the integer part and the decimals.
LEMMA PartsOfNumeral ==
    ASSUME NEW number, IsPositive(number), NEW places \in Nat,
           NEW k, IsLastDecimal(number, places, k)
    PROVE  LET p == pointIndex(number, places)
               t == Numeral(number, places, k)
           IN  /\ IntegerPart(t) \in Seq(Digits) /\ Len(IntegerPart(t)) = p
               /\ \A i \in 1..p : IntegerPart(t)[i] = Whole(number, places, i)
               /\ Fraction(t) \in Seq(Digits) /\ Len(Fraction(t)) = k
               /\ \A j \in 1..k : Fraction(t)[j] = Decimal(number, places, j)
<1> DEFINE p == pointIndex(number, places)
  t == Numeral(number, places, k)
<1>1. p \in Nat \ {0} /\ k \in 0..places
  BY PointPlace DEF IsLastDecimal
<1>2. Len(t) = IF k = 0 THEN p ELSE p + 1 + k
  BY <1>1 DEF Numeral
<1>3. ASSUME NEW i \in 1..Len(t)
      PROVE  t[i] = IF i <= p THEN Whole(number, places, i)
                    ELSE IF i = p + 1 THEN "." ELSE Decimal(number, places, i - p - 1)
  BY <1>1, <1>2 DEF Numeral
<1>4. IntegerPart(t) = SubSeq(t, 1, p) /\ Fraction(t) = SubSeq(t, p + 2, Len(t))
  <2>1. PointOf(t) = p + 1
    BY PointOfNumeral
  <2>2. PointOf(t) - 1 = p /\ PointOf(t) + 1 = p + 2
    <3> HIDE DEF p, t
    <3> QED BY <1>1, <2>1
  <2>3. /\ IntegerPart(t) = SubSeq(t, 1, PointOf(t) - 1)
        /\ Fraction(t) = SubSeq(t, PointOf(t) + 1, Len(t))
    BY Zenon DEF IntegerPart, Fraction
  <2> HIDE DEF p, t
  <2> QED BY <2>2, <2>3, Zenon
<1>5. ASSUME NEW i \in 1..p
      PROVE  t[i] = Whole(number, places, i) /\ Whole(number, places, i) \in Digits
  <2>1. i \in 1..Len(t) /\ i <= p
    BY <1>1, <1>2
  <2>2. Whole(number, places, i) \in Digits
    BY DigitsOfNumeral
  <2> HIDE DEF p, t
  <2> QED BY <1>3, <2>1, <2>2
<1>6. ASSUME NEW i \in (p + 2)..Len(t)
      PROVE  /\ i - p - 1 \in 1..k
             /\ t[i] = Decimal(number, places, i - p - 1)
             /\ Decimal(number, places, i - p - 1) \in Digits
  <2>1. i \in 1..Len(t) /\ ~ (i <= p) /\ i # p + 1 /\ i - p - 1 \in 1..k /\ i - p - 1 \in 1..places
    BY <1>1, <1>2
  <2>2. Decimal(number, places, i - p - 1) \in Digits
    BY <2>1, DigitsOfNumeral
  <2> HIDE DEF p, t
  <2> QED BY <1>3, <2>1, <2>2
<1> HIDE DEF p, t
<1>7. /\ SubSeq(t, 1, p) \in Seq(Digits)
      /\ Len(SubSeq(t, 1, p)) = p
      /\ \A i \in 1..p : SubSeq(t, 1, p)[i] = t[i]
  <2>1. 1 \in Int /\ p \in Int /\ 1 <= p /\ p - 1 + 1 = p /\ \A i \in 1..p : 1 + i - 1 = i
    BY <1>1
  <2>2. \A i \in 1..p : t[i] \in Digits
    BY <1>5
  <2> QED BY <2>1, <2>2, SubSeqProperties
<1>8. /\ SubSeq(t, p + 2, Len(t)) \in Seq(Digits)
      /\ Len(SubSeq(t, p + 2, Len(t))) = k
      /\ \A j \in 1..k : SubSeq(t, p + 2, Len(t))[j] = t[p + 1 + j]
  <2>1. /\ p + 2 \in Int /\ Len(t) \in Int
        /\ k = IF p + 2 <= Len(t) THEN Len(t) - (p + 2) + 1 ELSE 0
        /\ \A j \in 1..k : j \in 1..(Len(t) - (p + 2) + 1) /\ p + 2 + j - 1 = p + 1 + j
    BY <1>1, <1>2
  <2>2. \A i \in (p + 2)..Len(t) : t[i] \in Digits
    BY <1>6
  <2> QED BY <2>1, <2>2, SubSeqProperties
<1>9. ASSUME NEW j \in 1..k PROVE t[p + 1 + j] = Decimal(number, places, j)
  <2> DEFINE i == p + 1 + j
  <2>1. i \in (p + 2)..Len(t) /\ i - p - 1 = j
    BY <1>1, <1>2
  <2>2. t[i] = Decimal(number, places, i - p - 1)
    <3> HIDE DEF i
    <3> QED BY <1>6, <2>1
  <2> HIDE DEF i
  <2>3. t[i] = Decimal(number, places, j)
    BY <2>1, <2>2
  <2> QED BY <2>3 DEF i
<1> QED BY <1>4, <1>5, <1>7, <1>8, <1>9 DEF p, t

\* The canonical numeral: no needless zero in front, no zero at the end of the fraction.
LEMMA NumeralIsCanonical ==
    ASSUME NEW number, IsPositive(number), NEW places \in Nat,
           NEW k, IsLastDecimal(number, places, k)
    PROVE  IsCanonical(Numeral(number, places, k))
<1> DEFINE p == pointIndex(number, places)
  t == Numeral(number, places, k)
  whole == IntegerPart(t)
  fraction == Fraction(t)
<1>1. p \in Nat \ {0} /\ k \in 0..places
  BY PointPlace DEF IsLastDecimal
<1>2. /\ whole \in Seq(Digits) /\ Len(whole) = p
      /\ \A i \in 1..p : whole[i] = Whole(number, places, i)
      /\ fraction \in Seq(Digits) /\ Len(fraction) = k
      /\ \A j \in 1..k : fraction[j] = Decimal(number, places, j)
  BY PartsOfNumeral
<1>3. Len(t) = IF k = 0 THEN p ELSE p + 1 + k
  BY <1>1 DEF Numeral
<1>4. whole[1] = "0" => p = 1
  <2>1. whole[1] = Whole(number, places, 1)
    BY <1>1, <1>2
  <2>2. CASE Len(number) > places
    <3>1. whole[1] = number[1]
      BY <2>1, <2>2 DEF Whole
    <3> QED BY <3>1 DEF IsPositive
  <2>3. CASE ~ (Len(number) > places)
    BY <2>3, PointPlace
  <2> QED BY <2>2, <2>3
<1>5. k # 0 => fraction[k] # "0"
  <2> SUFFICES ASSUME k # 0 PROVE fraction[k] # "0"
    OBVIOUS
  <2>1. k \in 1..k
    BY <1>1
  <2> HIDE DEF fraction
  <2> QED BY <1>2, <2>1 DEF IsLastDecimal
<1> HIDE DEF whole, fraction, t, p
<1>6. IsNumeral(whole) /\ (k # 0 => IsNumeral(fraction))
  BY <1>1, <1>2 DEF IsNumeral
<1>7. fraction = <<>> <=> k = 0
  BY <1>1, <1>2
<1>8. /\ IsNumeral(whole) /\ (whole[1] = "0" => Len(whole) = 1)
      /\ IF fraction = <<>> THEN Len(t) = Len(whole)
         ELSE IsNumeral(fraction) /\ fraction[Len(fraction)] # "0"
  BY <1>2, <1>3, <1>4, <1>5, <1>6, <1>7
<1> QED BY <1>8 DEF IsCanonical, whole, fraction, t

\* Zeros in front of a positive number are all that StripLeadingZeros takes away.
LEMMA StripGivesNumber ==
    ASSUME NEW number, IsPositive(number), NEW s \in Seq(Digits), NEW z \in Nat,
           Len(s) = z + Len(number),
           \A i \in 1..z : s[i] = "0",
           \A i \in 1..Len(number) : s[z + i] = number[i]
    PROVE  StripLeadingZeros(s) = number
<1> DEFINE nonZero == {i \in 1..Len(s) : s[i] # "0"}
  first == CHOOSE i \in nonZero : \A j \in nonZero : i <= j
<1>1. Len(number) \in Nat \ {0} /\ number \in Seq(Digits) /\ number[1] # "0"
  BY DEF IsPositive
<1>2. z + 1 \in nonZero
  BY <1>1
<1>3. \A j \in nonZero : z + 1 <= j
  BY <1>1
<1>4. first = z + 1
  <2>1. \A i \in nonZero : (\A j \in nonZero : i <= j) => i = z + 1
    BY <1>1, <1>2, <1>3
  <2> HIDE DEF nonZero
  <2> QED BY <1>2, <1>3, <2>1
<1>5. StripLeadingZeros(s) = SubSeq(s, z + 1, Len(s))
  <2>1. StripLeadingZeros(s) = IF nonZero = {} THEN <<"0">> ELSE SubSeq(s, first, Len(s))
    BY Zenon DEF StripLeadingZeros
  <2> HIDE DEF nonZero, first
  <2> QED BY <1>2, <1>4, <2>1
<1>6. /\ SubSeq(s, z + 1, Len(s)) \in Seq(Digits)
      /\ Len(SubSeq(s, z + 1, Len(s))) = Len(number)
      /\ \A i \in 1..Len(number) : SubSeq(s, z + 1, Len(s))[i] = s[z + i]
  <2>1. /\ z + 1 \in Int /\ Len(s) \in Int /\ z + 1 <= Len(s) /\ Len(s) - (z + 1) + 1 = Len(number)
        /\ \A i \in 1..Len(number) : z + 1 + i - 1 = z + i
    BY <1>1
  <2>2. \A i \in (z + 1)..Len(s) : s[i] \in Digits
    <3>1. \A i \in (z + 1)..Len(s) : i \in 1..Len(s)
      OBVIOUS
    <3> QED BY <3>1
  <2> QED BY <2>1, <2>2, SubSeqProperties
<1>7. SubSeq(s, z + 1, Len(s)) = number
  BY <1>1, <1>6, SeqEqual
<1> QED BY <1>5, <1>7

\* Zeros behind the numeral and the point taken out, what is left is the number.
LEMMA NumeralReadsBack ==
    ASSUME NEW number, IsPositive(number), NEW places \in Nat,
           NEW k, IsLastDecimal(number, places, k)
    PROVE  ReadsAs(Numeral(number, places, k), number, places)
<1> DEFINE p == pointIndex(number, places)
  whole == IntegerPart(Numeral(number, places, k))
  fraction == Fraction(Numeral(number, places, k))
  zeros == Zeros(places - k)
  s == whole \o fraction \o zeros
  z == IF Len(number) > places THEN 0 ELSE 1 + places - Len(number)
<1>1. /\ p \in Nat \ {0} /\ Len(number) \in Nat \ {0} /\ k \in 0..places
      /\ p = IF Len(number) > places THEN Len(number) - places ELSE 1
  <2>1. /\ Len(number) \in Nat \ {0}
        /\ p = IF Len(number) > places THEN Len(number) - places ELSE 1
    BY PointPlace
  <2>2. k \in 0..places
    BY DEF IsLastDecimal
  <2> HIDE DEF p
  <2> QED BY <2>1, <2>2
<1>2. /\ whole \in Seq(Digits) /\ Len(whole) = p
      /\ \A i \in 1..p : whole[i] = Whole(number, places, i)
      /\ fraction \in Seq(Digits) /\ Len(fraction) = k
      /\ \A j \in 1..k : fraction[j] = Decimal(number, places, j)
  BY PartsOfNumeral
<1>3. /\ zeros \in Seq(Digits) /\ Len(zeros) = places - k
      /\ \A i \in 1..(places - k) : zeros[i] = "0"
  <2>1. places - k \in Nat /\ "0" \in Digits
    BY <1>1 DEF Digits
  <2> QED BY <2>1 DEF Zeros
<1> HIDE DEF p, whole, fraction, zeros
<1>4. /\ whole \o fraction \in Seq(Digits) /\ Len(whole \o fraction) = p + k
      /\ \A i \in 1..(p + k) :
             (whole \o fraction)[i] = IF i <= p THEN whole[i] ELSE fraction[i - p]
  BY <1>2, ConcatProperties
<1>5. /\ s \in Seq(Digits) /\ Len(s) = p + places
      /\ \A i \in 1..(p + places) :
             s[i] = IF i <= p + k THEN (whole \o fraction)[i] ELSE zeros[i - (p + k)]
  <2>1. p + k + (places - k) = p + places
    BY <1>1
  <2> DEFINE front == whole \o fraction
  <2>2. front \in Seq(Digits) /\ Len(front) = p + k
    BY <1>4
  <2>3. s = front \o zeros
    OBVIOUS
  <2> HIDE DEF front, s
  <2>4. /\ s \in Seq(Digits) /\ Len(s) = Len(front) + Len(zeros)
        /\ \A i \in 1..(Len(front) + Len(zeros)) :
               s[i] = IF i <= Len(front) THEN front[i] ELSE zeros[i - Len(front)]
    BY <1>3, <2>2, <2>3, ConcatProperties
  <2>5. Len(front) + Len(zeros) = p + places
    BY <1>3, <2>1, <2>2
  <2> QED BY <2>2, <2>4, <2>5 DEF front
<1> HIDE DEF s
<1>6. ASSUME NEW i \in 1..p PROVE s[i] = Whole(number, places, i)
  <2>1. i \in 1..(p + places) /\ i \in 1..(p + k) /\ i <= p + k /\ i <= p
    BY <1>1
  <2> QED BY <1>2, <1>4, <1>5, <2>1
<1>7. ASSUME NEW j \in 1..places PROVE s[p + j] = Decimal(number, places, j)
  <2> DEFINE i == p + j
  <2>1. i \in 1..(p + places) /\ i - p = j /\ ~ (i <= p)
    BY <1>1
  <2>2. CASE j <= k
    <3>1. i \in 1..(p + k) /\ i <= p + k /\ j \in 1..k
      BY <1>1, <2>2
    <3> HIDE DEF i
    <3>2. s[i] = (whole \o fraction)[i]
      BY <1>5, <2>1, <3>1
    <3>3. s[i] = fraction[i - p]
      BY <1>4, <2>1, <3>1, <3>2
    <3>4. s[i] = Decimal(number, places, j)
      BY <1>2, <2>1, <3>1, <3>3
    <3> QED BY <3>4 DEF i
  <2>3. CASE ~ (j <= k)
    <3>1. ~ (i <= p + k) /\ i - (p + k) \in 1..(places - k) /\ j \in (k + 1)..places
      BY <1>1, <2>3
    <3>2. Decimal(number, places, j) = "0"
      BY <3>1 DEF IsLastDecimal
    <3> HIDE DEF i
    <3>3. s[i] = "0"
      BY <1>3, <1>5, <2>1, <3>1
    <3> QED BY <3>2, <3>3 DEF i
  <2> QED BY <2>2, <2>3
<1>8. z \in Nat /\ Len(s) = z + Len(number)
  BY <1>1, <1>5
<1>9. ASSUME NEW i \in 1..z PROVE s[i] = "0"
  <2>1. Len(number) <= places /\ p = 1 /\ i - 1 \in 0..places /\ Len(number) + (i - 1) <= places
    BY <1>1
  <2>2. CASE i = 1
    <3>1. 1 \in 1..p /\ ~ (Len(number) > places)
      BY <1>1, <2>1
    <3> QED BY <1>6, <2>2, <3>1 DEF Whole
  <2>3. CASE i # 1
    <3> DEFINE j == i - 1
    <3>1. j \in 1..places /\ p + j = i /\ ~ (Len(number) + j > places)
      BY <1>1, <2>1, <2>3
    <3>2. Decimal(number, places, j) = "0"
      <4> HIDE DEF j
      <4> QED BY <3>1 DEF Decimal
    <3> HIDE DEF j
    <3> QED BY <1>7, <3>1, <3>2
  <2> QED BY <2>2, <2>3
<1>10. ASSUME NEW i \in 1..Len(number) PROVE s[z + i] = number[i]
  <2>1. CASE Len(number) > places /\ i <= p
    <3>1. z + i = i /\ i \in 1..p
      BY <1>1, <2>1
    <3>2. s[i] = number[i]
      BY <1>6, <2>1, <3>1 DEF Whole
    <3> HIDE DEF z
    <3> QED BY <3>1, <3>2
  <2>2. CASE ~ (Len(number) > places /\ i <= p)
    <3> DEFINE j == z + i - p
    <3>1. /\ j \in 1..places /\ p + j = z + i
          /\ Len(number) + j > places /\ Len(number) - places + j = i
      BY <1>1, <2>2
    <3> HIDE DEF j, z
    <3>2. s[p + j] = Decimal(number, places, j)
      BY <1>7, <3>1
    <3>3. Decimal(number, places, j) = number[i]
      BY <3>1 DEF Decimal
    <3> QED BY <3>1, <3>2, <3>3
  <2> QED BY <2>1, <2>2
<1>11. StripLeadingZeros(s) = number
  <2> HIDE DEF z
  <2> QED BY <1>5, <1>8, <1>9, <1>10, StripGivesNumber
<1>12. Len(fraction) = k /\ k <= places
  BY <1>1, <1>2
<1> QED BY <1>11, <1>12 DEF ReadsAs, s, whole, fraction, zeros

\* Whatever the number, as long as it is positive, and whatever its decimals: what
\* uintToDecimalString prints (DecimalUtils.sol:14) is the canonical numeral of it, and a
\* reader takes it for the number.
THEOREM PrintedCorrect ==
    ASSUME NEW number, IsPositive(number), NEW places \in Nat
    PROVE  /\ ReadsAs(uintToDecimalString(number, places), number, places)
           /\ IsCanonical(uintToDecimalString(number, places))
<1>1. PICK k : /\ IsLastDecimal(number, places, k)
               /\ uintToDecimalString(number, places) = Numeral(number, places, k)
  BY PrintedIsNumeral
<1> QED BY <1>1, NumeralReadsBack, NumeralIsCanonical

-------------------------------------------------------------------------------
\* The number that a behaviour writes is one that Strings.toString prints.
NumberWritten ==
    /\ digits \in Seq(Digits)
    /\ digits \notin {<<>>, <<"0">>} => digits[1] # "0"
    /\ decimal \in 0..MaxDecimal

LEMMA NumberInvariant == Spec => []NumberWritten
<1>1. Init => NumberWritten
  BY DEF Init, NumberWritten, Digits
<1>2. NumberWritten /\ [Next]_vars => NumberWritten'
  <2> SUFFICES ASSUME NumberWritten, [Next]_vars PROVE NumberWritten'
    OBVIOUS
  <2>1. ASSUME NEW digit \in {"0", "1", "9"}, AppendDigit(digit) PROVE NumberWritten'
    <3>1. digits \in Seq(Digits) /\ digit \in Digits /\ digits # <<"0">>
      BY <2>1 DEF NumberWritten, AppendDigit, Digits
    <3>2. /\ digits' \in Seq(Digits) /\ Len(digits') = Len(digits) + 1
          /\ \A i \in 1..(Len(digits) + 1) :
                 digits'[i] = IF i <= Len(digits) THEN digits[i] ELSE digit
      BY <2>1, <3>1 DEF AppendDigit
    <3>3. decimal' \in 0..MaxDecimal
      BY <2>1 DEF NumberWritten, AppendDigit
    <3>4. CASE digits = <<>>
      <4>1. digits' = <<digit>>
        BY <2>1, <3>4 DEF AppendDigit
      <4> QED BY <3>2, <3>3, <4>1 DEF NumberWritten
    <3>5. CASE digits # <<>>
      <4>1. Len(digits) \in Nat \ {0} /\ digits[1] # "0"
        BY <3>1, <3>5 DEF NumberWritten
      <4>2. digits'[1] = digits[1]
        BY <3>2, <4>1
      <4> QED BY <3>2, <3>3, <4>1, <4>2 DEF NumberWritten
    <3> QED BY <3>4, <3>5
  <2>2. ASSUME UNCHANGED <<digits, decimal>> PROVE NumberWritten'
    BY <2>2 DEF NumberWritten
  <2> QED BY <2>1, <2>2 DEF Next, AppendEntry, BeginRequest, AskEntry, AskParam, vars
<1> QED BY <1>1, <1>2, PTL DEF Spec

\* Every number written is printed as a numeral that reads back as it.
THEOREM ReadsBack == Spec => []DecimalReadsBack
<1>1. NumberWritten => DecimalReadsBack
  <2> SUFFICES ASSUME NumberWritten, digits \notin {<<>>, <<"0">>}
               PROVE  ReadsAs(Printed, digits, decimal)
    BY DEF DecimalReadsBack
  <2>1. IsPositive(digits) /\ decimal \in Nat
    BY BoundsAssumption DEF NumberWritten, IsPositive
  <2> QED BY <2>1, PrintedCorrect DEF Printed
<1> QED BY <1>1, NumberInvariant, PTL

\* Every number written is printed as its canonical numeral.
THEOREM Canonical == Spec => []DecimalIsCanonical
<1>1. NumberWritten => DecimalIsCanonical
  <2> SUFFICES ASSUME NumberWritten, digits \notin {<<>>, <<"0">>}
               PROVE  IsCanonical(Printed)
    BY DEF DecimalIsCanonical
  <2>1. IsPositive(digits) /\ decimal \in Nat
    BY BoundsAssumption DEF NumberWritten, IsPositive
  <2> QED BY <2>1, PrintedCorrect DEF Printed
<1> QED BY <1>1, NumberInvariant, PTL
===============================================================================
