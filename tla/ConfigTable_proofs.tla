------------------------ MODULE ConfigTable_proofs ------------------------
(***************************************************************************)
(* The table of configuration parameters for any names, indices, values,   *)
(* files and limits.                                                       *)
(***************************************************************************)
EXTENDS ConfigTable, SequenceTheorems, FiniteSetTheorems, WellFoundedInduction, TLAPS

(***************************************************************************)
(* Min is a member, and no member is smaller.                              *)
(***************************************************************************)
LEMMA MinOf ==
  ASSUME NEW S \in SUBSET Nat, S # {}
  PROVE  Min(S) \in S /\ \A y \in S : Min(S) <= y
<1>1. IsWellFoundedOn({p \in Nat \X Nat : p[1] < p[2]}, Nat)
  BY NatLessThanWellFounded DEF OpToRel
<1>2. \E x \in S : \A y \in S : <<y, x>> \notin {p \in Nat \X Nat : p[1] < p[2]}
  BY <1>1, WFMin, Zenon
<1>3. PICK x \in S : \A y \in S : <<y, x>> \notin {p \in Nat \X Nat : p[1] < p[2]}
  BY <1>2
<1>4. ASSUME NEW y \in S PROVE x <= y
  <2>1. x \in Nat /\ y \in Nat
    OBVIOUS
  <2>2. <<y, x>> \notin {p \in Nat \X Nat : p[1] < p[2]}
    BY <1>3
  <2>3. ~ (y < x)
    BY <2>1, <2>2
  <2> QED BY <2>1, <2>3
<1> QED BY <1>4 DEF Min

(***************************************************************************)
(* A set of numbers that has 0, and with a number the next one.            *)
(***************************************************************************)
LEMMA UpTo ==
  ASSUME NEW n \in Nat, NEW S, 0 \in S, \A k \in 1 .. n : k - 1 \in S => k \in S
  PROVE  \A k \in 0 .. n : k \in S
<1> DEFINE T == {k \in 0 .. n : k \notin S}
<1> SUFFICES ASSUME T # {} PROVE FALSE
  OBVIOUS
<1> DEFINE x == Min(T)
<1>1. x \in T /\ \A y \in T : x <= y
  <2>1. T \in SUBSET Nat
    OBVIOUS
  <2> HIDE DEF T
  <2> QED BY <2>1, MinOf
<1> HIDE DEF x
<1>2. x \in 1 .. n /\ x - 1 \in 0 .. n /\ ~ (x <= x - 1)
  BY <1>1
<1>3. x - 1 \notin T
  BY <1>1, <1>2
<1> QED BY <1>1, <1>2, <1>3

(***************************************************************************)
(* A loop that starts with b and does Step[k] in round k has a trace.      *)
(***************************************************************************)
IsLoop(z, n, b, Step) == z[0] = b /\ \A k \in 1 .. n : z[k] = Step[k][z[k - 1]]

LEMMA LoopExists ==
  ASSUME NEW A, NEW b \in A, NEW n \in Nat, NEW Step \in [1 .. n -> [A -> A]]
  PROVE  \E z \in [0 .. n -> A] : IsLoop(z, n, b, Step)
<1> DEFINE S == {k \in 0 .. n : \E z \in [0 .. k -> A] : IsLoop(z, k, b, Step)}
<1>1. 0 \in S
  <2>1. [k \in 0 .. 0 |-> b] \in [0 .. 0 -> A] /\ IsLoop([k \in 0 .. 0 |-> b], 0, b, Step)
    BY DEF IsLoop
  <2>2. 0 \in 0 .. n
    OBVIOUS
  <2> QED BY <2>1, <2>2
<1>2. ASSUME NEW k \in 1 .. n, k - 1 \in S PROVE k \in S
  <2>1. PICK z \in [0 .. k - 1 -> A] : IsLoop(z, k - 1, b, Step)
    BY <1>2
  <2> DEFINE w == [j \in 0 .. k |-> IF j = k THEN Step[k][z[k - 1]] ELSE z[j]]
  <2>2. Step[k] \in [A -> A] /\ z[k - 1] \in A
    BY <1>2
  <2>3. w \in [0 .. k -> A]
    <3>1. ASSUME NEW j \in 0 .. k PROVE (IF j = k THEN Step[k][z[k - 1]] ELSE z[j]) \in A
      <4>1. CASE j = k
        BY <2>2, <4>1
      <4>2. CASE j # k
        <5>1. j \in 0 .. k - 1
          BY <4>2
        <5> QED BY <4>2, <5>1
      <4> QED BY <4>1, <4>2
    <3> QED BY <3>1
  <2>4. w[0] = b
    <3>1. 0 # k /\ 0 \in 0 .. k
      OBVIOUS
    <3>2. z[0] = b
      BY <2>1 DEF IsLoop
    <3> QED BY <3>1, <3>2
  <2>5. ASSUME NEW j \in 1 .. k PROVE w[j] = Step[j][w[j - 1]]
    <3>1. j \in 0 .. k /\ j - 1 \in 0 .. k /\ j - 1 # k
      OBVIOUS
    <3>2. w[j - 1] = z[j - 1]
      BY <3>1
    <3>3. CASE j = k
      BY <3>1, <3>2, <3>3
    <3>4. CASE j # k
      <4>1. j \in 1 .. k - 1
        BY <3>4
      <4>2. z[j] = Step[j][z[j - 1]]
        BY <2>1, <4>1 DEF IsLoop
      <4> QED BY <3>1, <3>2, <3>4, <4>2
    <3> QED BY <3>3, <3>4
  <2>6. IsLoop(w, k, b, Step)
    BY <2>4, <2>5 DEF IsLoop
  <2>7. k \in 0 .. n
    OBVIOUS
  <2> QED BY <2>3, <2>6, <2>7
<1>3. n \in S
  <2> HIDE DEF S
  <2>1. \A k \in 0 .. n : k \in S
    BY <1>1, <1>2, UpTo
  <2> QED BY <2>1
<1> QED BY <1>3
-----------------------------------------------------------------------------
(***************************************************************************)
(* Names and indices.                                                      *)
(***************************************************************************)
Digit == (48 .. 57) \cup (65 .. 70)

LEMMA DigitOf ==
  ASSUME NEW d \in 0 .. 15
  PROVE  HexDigit(d) \in Digit
BY DEF HexDigit, Digit

LEMMA DigitInjective ==
  ASSUME NEW d \in 0 .. 15, NEW e \in 0 .. 15, HexDigit(d) = HexDigit(e)
  PROVE  d = e
BY DEF HexDigit

LEMMA LastDigit ==
  ASSUME NEW i \in Nat
  PROVE  /\ i \div 16 \in Nat /\ i % 16 \in 0 .. 15
         /\ i = 16 * (i \div 16) + (i % 16)
OBVIOUS

LEMMA Smaller ==
  ASSUME NEW i \in Nat, NEW q \in Nat, NEW a \in Nat, NEW n \in Nat,
         i = 16 * q + a, i < 16 * n
  PROVE  q < n
BY SMT

Spelled(i, q, r, s, a, b, c) ==
  /\ i < 16 => Hex(i) = <<HexDigit(i)>>
  /\ i >= 16 /\ q < 16 => Hex(i) = <<HexDigit(q), HexDigit(a)>>
  /\ q >= 16 /\ r < 16 => Hex(i) = <<HexDigit(r), HexDigit(b), HexDigit(a)>>
  /\ r >= 16 => Hex(i) = <<HexDigit(s), HexDigit(c), HexDigit(b), HexDigit(a)>>

\* An index below MaxIndex has at most four digits.
LEMMA Digits ==
  ASSUME NEW i \in 1 .. MaxIndex - 1
  PROVE  \E q \in Nat, r \in Nat, s \in 0 .. 15, a \in 0 .. 15, b \in 0 .. 15, c \in 0 .. 15 :
           /\ i = 16 * q + a /\ q = 16 * r + b /\ r = 16 * s + c
           /\ Spelled(i, q, r, s, a, b, c)
<1> DEFINE q == i \div 16
           r == q \div 16
           s == r \div 16
           a == i % 16
           b == q % 16
           c == r % 16
<1>1. i \in Nat /\ i < 16 * (16 * (16 * 16))
  BY DEF MaxIndex
<1>2. q \in Nat /\ a \in 0 .. 15 /\ i = 16 * q + a
  BY <1>1, LastDigit
<1>3. Hex(i) = CASE i < 16           -> <<HexDigit(i)>>
                 [] i >= 16 /\ q < 16 -> <<HexDigit(q), HexDigit(a)>>
                 [] q >= 16 /\ r < 16 -> <<HexDigit(r), HexDigit(b), HexDigit(a)>>
                 [] r >= 16           -> <<HexDigit(s), HexDigit(c), HexDigit(b), HexDigit(a)>>
  BY SMT DEF Hex
<1> HIDE DEF q, a
<1>4. r \in Nat /\ b \in 0 .. 15 /\ q = 16 * r + b
  BY <1>2, LastDigit
<1> HIDE DEF r, b
<1>5. s \in Nat /\ c \in 0 .. 15 /\ r = 16 * s + c
  BY <1>4, LastDigit
<1> HIDE DEF s, c
<1>6. q < 16 * (16 * 16)
  BY <1>1, <1>2, Smaller
<1>7. r < 16 * 16
  BY <1>2, <1>4, <1>6, Smaller
<1>8. s < 16
  BY <1>4, <1>5, <1>7, Smaller
<1>9. (i < 16 => q < 16) /\ (q < 16 => r < 16)
  BY <1>1, <1>2, <1>4
<1>10. Spelled(i, q, r, s, a, b, c)
  BY <1>1, <1>2, <1>3, <1>4, <1>9 DEF Spelled
<1>11. i = 16 * q + a /\ q = 16 * r + b /\ r = 16 * s + c /\ Spelled(i, q, r, s, a, b, c)
  BY <1>2, <1>4, <1>5, <1>10
<1>12. q \in Nat /\ r \in Nat /\ s \in 0 .. 15 /\ a \in 0 .. 15 /\ b \in 0 .. 15 /\ c \in 0 .. 15
  BY <1>2, <1>4, <1>5, <1>8
<1> QED BY <1>11, <1>12, Zenon

LEMMA MaxIndexIsNat == MaxIndex \in Nat
BY DEF MaxIndex

LEMMA IndexIsNat ==
  ASSUME NEW i \in 1 .. MaxIndex - 1
  PROVE  i \in Nat
BY MaxIndexIsNat

LEMMA HexIsText ==
  ASSUME NEW i \in 1 .. MaxIndex - 1
  PROVE  Hex(i) \in Seq(Digit)
<1>1. PICK q \in Nat, r \in Nat, s \in 0 .. 15, a \in 0 .. 15, b \in 0 .. 15, c \in 0 .. 15 :
        /\ i = 16 * q + a /\ q = 16 * r + b /\ r = 16 * s + c
        /\ Spelled(i, q, r, s, a, b, c)
  BY Digits, Zenon
<1>2. i \in Nat /\ Spelled(i, q, r, s, a, b, c)
  BY <1>1, IndexIsNat, Zenon
<1>3. CASE i < 16
  <2>1. Hex(i) = <<HexDigit(i)>> /\ HexDigit(i) \in Digit
    BY <1>2, <1>3, DigitOf DEF Spelled
  <2> QED BY <2>1
<1>4. CASE i >= 16 /\ q < 16
  <2>1. Hex(i) = <<HexDigit(q), HexDigit(a)>> /\ HexDigit(q) \in Digit /\ HexDigit(a) \in Digit
    BY <1>2, <1>4, DigitOf DEF Spelled
  <2> QED BY <2>1
<1>5. CASE q >= 16 /\ r < 16
  <2>1. /\ Hex(i) = <<HexDigit(r), HexDigit(b), HexDigit(a)>>
        /\ HexDigit(r) \in Digit /\ HexDigit(b) \in Digit /\ HexDigit(a) \in Digit
    BY <1>2, <1>5, DigitOf DEF Spelled
  <2> QED BY <2>1
<1>6. CASE r >= 16
  <2>1. /\ Hex(i) = <<HexDigit(s), HexDigit(c), HexDigit(b), HexDigit(a)>>
        /\ HexDigit(s) \in Digit /\ HexDigit(c) \in Digit
        /\ HexDigit(b) \in Digit /\ HexDigit(a) \in Digit
    BY <1>2, <1>6, DigitOf DEF Spelled
  <2> QED BY <2>1
<1> QED BY <1>2, <1>3, <1>4, <1>5, <1>6

LEMMA Equal1 ==
  ASSUME NEW x1, NEW y1, <<x1>> = <<y1>>
  PROVE  x1 = y1
OBVIOUS

LEMMA Equal2 ==
  ASSUME NEW x1, NEW x2, NEW y1, NEW y2, <<x1, x2>> = <<y1, y2>>
  PROVE  x1 = y1 /\ x2 = y2
OBVIOUS

LEMMA Equal3 ==
  ASSUME NEW x1, NEW x2, NEW x3, NEW y1, NEW y2, NEW y3, <<x1, x2, x3>> = <<y1, y2, y3>>
  PROVE  x1 = y1 /\ x2 = y2 /\ x3 = y3
OBVIOUS

LEMMA Equal4 ==
  ASSUME NEW x1, NEW x2, NEW x3, NEW x4, NEW y1, NEW y2, NEW y3, NEW y4,
         <<x1, x2, x3, x4>> = <<y1, y2, y3, y4>>
  PROVE  x1 = y1 /\ x2 = y2 /\ x3 = y3 /\ x4 = y4
OBVIOUS

\* Different indices have different digits.
LEMMA HexInjective ==
  ASSUME NEW i \in 1 .. MaxIndex - 1, NEW j \in 1 .. MaxIndex - 1, Hex(i) = Hex(j)
  PROVE  i = j
<1>1. PICK q \in Nat, r \in Nat, s \in 0 .. 15, a \in 0 .. 15, b \in 0 .. 15, c \in 0 .. 15 :
        /\ i = 16 * q + a /\ q = 16 * r + b /\ r = 16 * s + c
        /\ Spelled(i, q, r, s, a, b, c)
  BY Digits, Zenon
<1>2. PICK u \in Nat, v \in Nat, w \in 0 .. 15, d \in 0 .. 15, e \in 0 .. 15, f \in 0 .. 15 :
        /\ j = 16 * u + d /\ u = 16 * v + e /\ v = 16 * w + f
        /\ Spelled(j, u, v, w, d, e, f)
  BY Digits, Zenon
<1>3. i \in Nat /\ j \in Nat
  BY IndexIsNat, Zenon
<1>4. Spelled(i, q, r, s, a, b, c) /\ Spelled(j, u, v, w, d, e, f)
  BY <1>1, <1>2
<1>5. CASE i < 16
  <2>1. Hex(i) = <<HexDigit(i)>>
    BY <1>5, <1>4 DEF Spelled
  <2>2. ~ (r >= 16) /\ ~ (v >= 16) /\ ~ (u >= 16) /\ ~ (j >= 16)
    BY <1>3, <1>4, <2>1 DEF Spelled
  <2>3. j < 16 /\ Hex(j) = <<HexDigit(j)>>
    BY <1>3, <1>4, <2>2 DEF Spelled
  <2>4. <<HexDigit(i)>> = <<HexDigit(j)>>
    BY <2>1, <2>3
  <2>5. HexDigit(i) = HexDigit(j)
    BY <2>4, Equal1, Zenon
  <2> QED BY <1>3, <1>5, <2>3, <2>5, DigitInjective
<1>6. CASE i >= 16 /\ q < 16
  <2>1. Hex(i) = <<HexDigit(q), HexDigit(a)>>
    BY <1>6, <1>4 DEF Spelled
  <2>2. j >= 16 /\ u < 16 /\ Hex(j) = <<HexDigit(u), HexDigit(d)>>
    BY <1>3, <1>4, <2>1 DEF Spelled
  <2>3. <<HexDigit(q), HexDigit(a)>> = <<HexDigit(u), HexDigit(d)>>
    BY <2>1, <2>2
  <2>4. HexDigit(q) = HexDigit(u) /\ HexDigit(a) = HexDigit(d)
    BY <2>3, Equal2, Zenon
  <2>5. q = u /\ a = d
    BY <1>6, <2>2, <2>4, DigitInjective
  <2> QED BY <1>1, <1>2, <2>5
<1>7. CASE q >= 16 /\ r < 16
  <2>1. Hex(i) = <<HexDigit(r), HexDigit(b), HexDigit(a)>>
    BY <1>7, <1>4 DEF Spelled
  <2>2. u >= 16 /\ v < 16 /\ Hex(j) = <<HexDigit(v), HexDigit(e), HexDigit(d)>>
    BY <1>3, <1>4, <2>1 DEF Spelled
  <2>3. <<HexDigit(r), HexDigit(b), HexDigit(a)>> = <<HexDigit(v), HexDigit(e), HexDigit(d)>>
    BY <2>1, <2>2
  <2>4. HexDigit(r) = HexDigit(v) /\ HexDigit(b) = HexDigit(e) /\ HexDigit(a) = HexDigit(d)
    BY <2>3, Equal3, Zenon
  <2>5. r = v /\ b = e /\ a = d
    BY <1>7, <2>2, <2>4, DigitInjective
  <2> QED BY <1>1, <1>2, <2>5
<1>8. CASE r >= 16
  <2>1. Hex(i) = <<HexDigit(s), HexDigit(c), HexDigit(b), HexDigit(a)>>
    BY <1>8, <1>4 DEF Spelled
  <2>2. Hex(j) = <<HexDigit(w), HexDigit(f), HexDigit(e), HexDigit(d)>>
    BY <1>3, <1>4, <2>1 DEF Spelled
  <2>3. <<HexDigit(s), HexDigit(c), HexDigit(b), HexDigit(a)>>
          = <<HexDigit(w), HexDigit(f), HexDigit(e), HexDigit(d)>>
    BY <2>1, <2>2
  <2>4. /\ HexDigit(s) = HexDigit(w) /\ HexDigit(c) = HexDigit(f)
        /\ HexDigit(b) = HexDigit(e) /\ HexDigit(a) = HexDigit(d)
    BY <2>3, Equal4, Zenon
  <2>5. s = w /\ c = f /\ b = e /\ a = d
    BY <2>4, DigitInjective
  <2> QED BY <1>1, <1>2, <2>5
<1> QED BY <1>3, <1>5, <1>6, <1>7, <1>8

\* The two letters that no name and no number has.
LEMMA Letters ==
  /\ Hash \notin NameChar /\ Hash \notin Digit
  /\ NameChar \subseteq Char /\ Digit \subseteq Char /\ Hash \in Char
  /\ NameChar \subseteq TypeChar /\ Digit \subseteq TypeChar /\ Hash \in TypeChar
BY DEF Hash, NameChar, Digit, Char, TypeChar, Space, SEP

\* At most four digits.
LEMMA HexIsShort ==
  ASSUME NEW i \in 1 .. MaxIndex - 1
  PROVE  Len(Hex(i)) <= 4
<1>1. PICK q \in Nat, r \in Nat, s \in 0 .. 15, a \in 0 .. 15, b \in 0 .. 15, c \in 0 .. 15 :
        /\ i = 16 * q + a /\ q = 16 * r + b /\ r = 16 * s + c
        /\ Spelled(i, q, r, s, a, b, c)
  BY Digits, Zenon
<1>2. i \in Nat /\ Spelled(i, q, r, s, a, b, c)
  BY <1>1, IndexIsNat, Zenon
<1>3. CASE i < 16
  <2>1. Hex(i) = <<HexDigit(i)>>
    BY <1>2, <1>3 DEF Spelled
  <2> QED BY <2>1
<1>4. CASE i >= 16 /\ q < 16
  <2>1. Hex(i) = <<HexDigit(q), HexDigit(a)>>
    BY <1>2, <1>4 DEF Spelled
  <2> QED BY <2>1
<1>5. CASE q >= 16 /\ r < 16
  <2>1. Hex(i) = <<HexDigit(r), HexDigit(b), HexDigit(a)>>
    BY <1>2, <1>5 DEF Spelled
  <2> QED BY <2>1
<1>6. CASE r >= 16
  <2>1. Hex(i) = <<HexDigit(s), HexDigit(c), HexDigit(b), HexDigit(a)>>
    BY <1>2, <1>6 DEF Spelled
  <2> QED BY <2>1
<1> QED BY <1>2, <1>3, <1>4, <1>5, <1>6

\* What GetFullName makes of a name and an index.
LEMMA FullName ==
  ASSUME NEW n \in Names, NEW i \in Indices
  PROVE  /\ GetFullName(n, i) \in Seq(Char)
         /\ n \in Seq(NameChar) /\ n \in Seq(Char) /\ i \in Nat
         /\ i \in 1 .. MaxIndex - 1 =>
              /\ Hex(i) \in Seq(Digit) /\ Hex(i) \in Seq(Char)
              /\ GetFullName(n, i) = n \o <<Hash>> \o Hex(i)
         /\ i = 0 => GetFullName(n, i) = n
         /\ GetFullName(n, i) \in Seq(TypeChar) /\ Len(GetFullName(n, i)) <= Len(n) + 5
<1>0. n \in Seq(TypeChar) /\ Len(n) \in Nat
  BY NamesAssumption, Letters, SeqMonotonic, LenProperties
<1>1. n \in Seq(NameChar) /\ n \in Seq(Char) /\ i \in Nat
  BY NamesAssumption, IndicesAssumption, Letters, SeqMonotonic
<1>2. CASE ~ (0 < i /\ i < MaxIndex)
  <2>1. GetFullName(n, i) = n /\ i \notin 1 .. MaxIndex - 1
    BY <1>1, <1>2, MaxIndexIsNat DEF GetFullName
  <2> QED BY <1>0, <1>1, <2>1
<1>3. CASE 0 < i /\ i < MaxIndex
  <2>1. i \in 1 .. MaxIndex - 1 /\ i # 0
    BY <1>1, <1>3, MaxIndexIsNat
  <2>2. Hex(i) \in Seq(Digit)
    BY <2>1, HexIsText, Zenon
  <2>3. Hex(i) \in Seq(Digit) /\ Hex(i) \in Seq(Char)
    BY <2>2, Letters, SeqMonotonic
  <2>4. GetFullName(n, i) = n \o <<Hash>> \o Hex(i)
    BY <1>3 DEF GetFullName
  <2>5. <<Hash>> \in Seq(Char)
    BY Letters
  <2>6. n \o <<Hash>> \o Hex(i) \in Seq(Char)
    BY <1>1, <2>3, <2>5, ConcatProperties
  <2>7. Hex(i) \in Seq(TypeChar) /\ <<Hash>> \in Seq(TypeChar) /\ Len(<<Hash>>) = 1
    BY <2>2, Letters, SeqMonotonic
  <2>8. Len(Hex(i)) \in Nat /\ Len(Hex(i)) <= 4
    BY <2>1, <2>7, HexIsShort, LenProperties
  <2> DEFINE h == Hex(i)
             m == <<Hash>>
  <2>9. h \in Seq(TypeChar) /\ m \in Seq(TypeChar) /\ Len(m) = 1 /\ Len(h) \in Nat /\ Len(h) <= 4
    BY <2>7, <2>8
  <2> HIDE DEF h, m
  <2>10. n \o m \o h \in Seq(TypeChar) /\ Len(n \o m \o h) = Len(n) + 1 + Len(h)
    <3>1. n \o m \in Seq(TypeChar) /\ Len(n \o m) = Len(n) + Len(m)
      BY <1>0, <2>9, ConcatProperties
    <3> DEFINE nm == n \o m
    <3>2. nm \in Seq(TypeChar) /\ Len(nm) = Len(n) + 1
      BY <2>9, <3>1
    <3> HIDE DEF nm
    <3>3. nm \o h \in Seq(TypeChar) /\ Len(nm \o h) = Len(nm) + Len(h)
      BY <2>9, <3>2, ConcatProperties
    <3> QED BY <3>2, <3>3 DEF nm
  <2>11. Len(n \o m \o h) <= Len(n) + 5
    BY <1>0, <2>9, <2>10
  <2> QED BY <1>1, <2>1, <2>3, <2>4, <2>6, <2>10, <2>11 DEF h, m
<1> QED BY <1>2, <1>3

\* The characters of a name with a number behind it.
LEMMA Numbered ==
  ASSUME NEW n \in Seq(Char), NEW h \in Seq(Char)
  PROVE  /\ Len(n \o <<Hash>> \o h) = Len(n) + 1 + Len(h)
         /\ \A k \in 1 .. Len(n) : (n \o <<Hash>> \o h)[k] = n[k]
         /\ (n \o <<Hash>> \o h)[Len(n) + 1] = Hash
         /\ \A k \in 1 .. Len(h) : (n \o <<Hash>> \o h)[Len(n) + 1 + k] = h[k]
<1>1. <<Hash>> \in Seq(Char) /\ Len(<<Hash>>) = 1 /\ <<Hash>>[1] = Hash
  BY Letters
<1>2. Len(n) \in Nat /\ Len(h) \in Nat
  BY LenProperties
<1> DEFINE m == n \o <<Hash>>
<1>3. /\ m \in Seq(Char) /\ Len(m) = Len(n) + 1
      /\ \A k \in 1 .. Len(n) + 1 : m[k] = IF k <= Len(n) THEN n[k] ELSE <<Hash>>[k - Len(n)]
  BY <1>1, ConcatProperties
<1> HIDE DEF m
<1>4. m \in Seq(Char)
  BY <1>3
<1>5. /\ Len(m \o h) = Len(m) + Len(h)
      /\ \A k \in 1 .. Len(m) + Len(h) : (m \o h)[k] = IF k <= Len(m) THEN m[k] ELSE h[k - Len(m)]
  BY <1>4, ConcatProperties, Zenon
<1> DEFINE f == m \o h
<1>6. Len(f) = Len(n) + 1 + Len(h)
  BY <1>2, <1>3, <1>5
<1>7. ASSUME NEW k \in 1 .. Len(n) PROVE f[k] = n[k]
  BY <1>2, <1>3, <1>5
<1>8. f[Len(n) + 1] = Hash
  <2>1. m[Len(n) + 1] = Hash
    BY <1>1, <1>2, <1>3
  <2> QED BY <1>2, <1>3, <1>5, <2>1
<1>9. ASSUME NEW k \in 1 .. Len(h) PROVE f[Len(n) + 1 + k] = h[k]
  <2>1. Len(n) + 1 + k \in 1 .. Len(m) + Len(h) /\ ~ (Len(n) + 1 + k <= Len(m))
    BY <1>2, <1>3
  <2>2. f[Len(n) + 1 + k] = h[Len(n) + 1 + k - Len(m)]
    BY <1>5, <2>1
  <2> QED BY <1>2, <1>3, <2>2
<1> QED BY <1>6, <1>7, <1>8, <1>9 DEF m

\* Different names, or indices below MaxIndex, make different full names.
LEMMA FullNameInjective ==
  ASSUME NEW n1 \in Names, NEW n2 \in Names, NEW i1 \in Indices, NEW i2 \in Indices,
         i1 < MaxIndex, i2 < MaxIndex, GetFullName(n1, i1) = GetFullName(n2, i2)
  PROVE  n1 = n2 /\ i1 = i2
<1>1. /\ n1 \in Seq(NameChar) /\ n1 \in Seq(Char) /\ i1 \in Nat
      /\ n2 \in Seq(NameChar) /\ n2 \in Seq(Char) /\ i2 \in Nat
  BY FullName
<1>2. /\ Len(n1) \in Nat /\ Len(n2) \in Nat
      /\ \A k \in 1 .. Len(n1) : n1[k] # Hash
      /\ \A k \in 1 .. Len(n2) : n2[k] # Hash
  BY <1>1, LenProperties, ElementOfSeq, Letters
<1>3. CASE i1 = 0 /\ i2 = 0
  BY <1>3, FullName
<1>4. ASSUME NEW n \in Seq(Char), NEW m \in Seq(Char), NEW h \in Seq(Char),
             \A k \in 1 .. Len(n) : n[k] # Hash, n = m \o <<Hash>> \o h
      PROVE  FALSE
  <2>1. Len(m) \in Nat /\ Len(h) \in Nat
    BY LenProperties
  <2>2. Len(m) + 1 \in 1 .. Len(n) /\ n[Len(m) + 1] = Hash
    BY <1>4, <2>1, Numbered
  <2> QED BY <1>4, <2>2
<1>5. CASE i1 = 0 /\ i2 # 0
  <2>1. i2 \in 1 .. MaxIndex - 1
    BY <1>1, <1>5, MaxIndexIsNat
  <2>2. n1 = n2 \o <<Hash>> \o Hex(i2) /\ Hex(i2) \in Seq(Char)
    BY <1>5, <2>1, FullName
  <2> QED BY <1>1, <1>2, <1>4, <2>2
<1>6. CASE i1 # 0 /\ i2 = 0
  <2>1. i1 \in 1 .. MaxIndex - 1
    BY <1>1, <1>6, MaxIndexIsNat
  <2>2. n2 = n1 \o <<Hash>> \o Hex(i1) /\ Hex(i1) \in Seq(Char)
    BY <1>6, <2>1, FullName
  <2> QED BY <1>1, <1>2, <1>4, <2>2
<1>7. CASE i1 # 0 /\ i2 # 0
  <2>1. i1 \in 1 .. MaxIndex - 1 /\ i2 \in 1 .. MaxIndex - 1
    BY <1>1, <1>7, MaxIndexIsNat
  <2> DEFINE h1 == Hex(i1)
             h2 == Hex(i2)
             f1 == n1 \o <<Hash>> \o h1
             f2 == n2 \o <<Hash>> \o h2
  <2>2. GetFullName(n1, i1) = f1 /\ GetFullName(n2, i2) = f2
    BY <2>1, FullName, Zenon
  <2>3. h1 \in Seq(Char) /\ h2 \in Seq(Char) /\ f1 = f2
    BY <2>2, <2>1, FullName, Zenon
  <2>4. Len(h1) \in Nat /\ Len(h2) \in Nat
    BY <2>3, LenProperties
  <2>5. /\ Len(f1) = Len(n1) + 1 + Len(h1)
        /\ \A k \in 1 .. Len(n1) : f1[k] = n1[k]
        /\ f1[Len(n1) + 1] = Hash
        /\ \A k \in 1 .. Len(h1) : f1[Len(n1) + 1 + k] = h1[k]
    BY <1>1, <2>3, Numbered, Zenon
  <2>6. /\ Len(f2) = Len(n2) + 1 + Len(h2)
        /\ \A k \in 1 .. Len(n2) : f2[k] = n2[k]
        /\ f2[Len(n2) + 1] = Hash
        /\ \A k \in 1 .. Len(h2) : f2[Len(n2) + 1 + k] = h2[k]
    BY <1>1, <2>3, Numbered, Zenon
  <2> HIDE DEF h1, h2, f1, f2
  <2>7. Len(n1) = Len(n2)
    <3>1. ~ (Len(n1) < Len(n2))
      <4>1. SUFFICES ASSUME Len(n1) < Len(n2) PROVE FALSE
        OBVIOUS
      <4>2. Len(n1) + 1 \in 1 .. Len(n2)
        BY <1>2, <4>1
      <4> QED BY <1>2, <2>3, <2>5, <2>6, <4>2
    <3>2. ~ (Len(n2) < Len(n1))
      <4>1. SUFFICES ASSUME Len(n2) < Len(n1) PROVE FALSE
        OBVIOUS
      <4>2. Len(n2) + 1 \in 1 .. Len(n1)
        BY <1>2, <4>1
      <4> QED BY <1>2, <2>3, <2>5, <2>6, <4>2
    <3> QED BY <1>2, <3>1, <3>2
  <2>8. n1 = n2
    <3>1. \A k \in 1 .. Len(n1) : n1[k] = n2[k]
      BY <2>3, <2>5, <2>6, <2>7
    <3> QED BY <1>1, <2>7, <3>1, SeqEqual
  <2>9. h1 = h2
    <3>1. Len(h1) = Len(h2)
      BY <1>2, <2>3, <2>4, <2>5, <2>6, <2>7
    <3>2. \A k \in 1 .. Len(h1) : h1[k] = h2[k]
      BY <2>3, <2>5, <2>6, <2>7, <3>1
    <3> QED BY <2>3, <3>1, <3>2, SeqEqual
  <2>10. Hex(i1) = Hex(i2)
    BY <2>9 DEF h1, h2
  <2>11. i1 = i2
    BY <2>1, <2>10, HexInjective, Zenon
  <2> QED BY <2>8, <2>11
<1> QED BY <1>3, <1>5, <1>6, <1>7
-----------------------------------------------------------------------------
(***************************************************************************)
(* The table.                                                              *)
(***************************************************************************)
LEMMA TableIsSeq ==
  ASSUME NEW ctx \in Seq(Parameter)
  PROVE  Len(ctx) \in Nat /\ DOMAIN ctx = 1 .. Len(ctx) /\ \A k \in 1 .. Len(ctx) : ctx[k] \in Parameter
BY LenProperties, ElementOfSeq

\* GetIndex finds an entry that matches, if there is one.
LEMMA IndexOf ==
  ASSUME NEW ctx \in Seq(Parameter), NEW n \in Names, NEW i \in Indices
  PROVE  LET look == GetFullName(n, i)
         IN  IF Matches(ctx, look) = {} THEN GetIndex(ctx, n, i) = 0
             ELSE GetIndex(ctx, n, i) = Min(Matches(ctx, look))
                  /\ GetIndex(ctx, n, i) \in Matches(ctx, look) /\ GetIndex(ctx, n, i) \in 1 .. Len(ctx)
<1> DEFINE look == GetFullName(n, i)
           matches == Matches(ctx, look)
<1>1. matches \subseteq 1 .. Len(ctx) /\ Len(ctx) \in Nat
  BY TableIsSeq DEF Matches
<1>2. GetIndex(ctx, n, i) = IF matches = {} THEN 0 ELSE Min(matches)
  BY DEF GetIndex
<1> HIDE DEF matches
<1>3. matches # {} => Min(matches) \in matches
  BY <1>1, MinOf
<1>4. IF matches = {} THEN GetIndex(ctx, n, i) = 0
      ELSE /\ GetIndex(ctx, n, i) = Min(matches)
           /\ GetIndex(ctx, n, i) \in matches /\ GetIndex(ctx, n, i) \in 1 .. Len(ctx)
  BY <1>1, <1>2, <1>3
<1> QED BY <1>4 DEF matches

LEMMA EntryType ==
  ASSUME NEW type \in Seq(TypeChar), NEW value \in Seq(ValueChar)
  PROVE  Entry(type, value) \in Parameter
BY DEF Entry, Parameter

\* The table stays one when a parameter is set.
LEMMA StoredType ==
  ASSUME NEW ctx \in Seq(Parameter), NEW n \in Names, NEW i \in Indices, NEW text \in Seq(ValueChar)
  PROVE  /\ Stored(ctx, n, i, text) \in Seq(Parameter)
         /\ Found(ctx, n, i) =>
              /\ GetIndex(ctx, n, i) \in 1 .. Len(ctx)
              /\ Same(ctx[GetIndex(ctx, n, i)].type, GetFullName(n, i))
              /\ Len(Stored(ctx, n, i, text)) = Len(ctx)
              /\ \A k \in 1 .. Len(ctx) :
                   Stored(ctx, n, i, text)[k] =
                     IF k = GetIndex(ctx, n, i) THEN Entry(ctx[k].type, text) ELSE ctx[k]
         /\ ~ Found(ctx, n, i) =>
              /\ Len(Stored(ctx, n, i, text)) = Len(ctx) + 1
              /\ \A k \in 1 .. Len(ctx) : Stored(ctx, n, i, text)[k] = ctx[k]
              /\ Stored(ctx, n, i, text)[Len(ctx) + 1] = Entry(GetFullName(n, i), text)
<1>1. CASE Found(ctx, n, i)
  <2> DEFINE at == GetIndex(ctx, n, i)
             e == Entry(ctx[at].type, text)
  <2>1. at \in 1 .. Len(ctx) /\ at \in Matches(ctx, GetFullName(n, i))
    BY <1>1, IndexOf DEF Found
  <2>2. Same(ctx[at].type, GetFullName(n, i))
    BY <2>1 DEF Matches
  <2>3. ctx[at].type \in Seq(TypeChar)
    BY <2>1, TableIsSeq DEF Parameter
  <2>4. e \in Parameter
    BY <2>3, EntryType
  <2>5. Stored(ctx, n, i, text) = [ctx EXCEPT ![at] = e]
    BY <1>1 DEF Stored
  <2> HIDE DEF at, e
  <2>6. /\ [ctx EXCEPT ![at] = e] \in Seq(Parameter)
        /\ Len([ctx EXCEPT ![at] = e]) = Len(ctx)
        /\ \A k \in 1 .. Len(ctx) : [ctx EXCEPT ![at] = e][k] = IF k = at THEN e ELSE ctx[k]
    BY <2>1, <2>4, ExceptSeq
  <2>7. \A k \in 1 .. Len(ctx) :
          Stored(ctx, n, i, text)[k] = IF k = at THEN Entry(ctx[k].type, text) ELSE ctx[k]
    BY <2>5, <2>6 DEF e
  <2> QED BY <1>1, <2>1, <2>2, <2>5, <2>6, <2>7 DEF at
<1>2. CASE ~ Found(ctx, n, i)
  <2> DEFINE e == Entry(GetFullName(n, i), text)
  <2>1. e \in Parameter
    BY FullName, EntryType
  <2>2. Stored(ctx, n, i, text) = Append(ctx, e)
    BY <1>2 DEF Stored
  <2> HIDE DEF e
  <2>3. /\ Append(ctx, e) \in Seq(Parameter) /\ Len(Append(ctx, e)) = Len(ctx) + 1
        /\ \A k \in 1 .. Len(ctx) : Append(ctx, e)[k] = ctx[k]
        /\ Append(ctx, e)[Len(ctx) + 1] = e
    BY <2>1
  <2> QED BY <1>2, <2>2, <2>3 DEF e
<1> QED BY <1>1, <1>2

\* Of full names that are not too long, only equal ones match.
LEMMA SameName ==
  ASSUME NEW a, NEW b, Len(a) <= MaxNamLen, Len(b) <= MaxNamLen, Same(a, b)
  PROVE  a = b
BY DEF Same, Upto

\* What is read depends on the entries that match, and on their values.
LEMMA SameMatches ==
  ASSUME NEW ctx \in Seq(Parameter), NEW new \in Seq(Parameter), NEW n \in Names, NEW i \in Indices,
         Matches(new, GetFullName(n, i)) = Matches(ctx, GetFullName(n, i)),
         \A k \in Matches(ctx, GetFullName(n, i)) : new[k].value = ctx[k].value
  PROVE  GetStringParam(new, n, i) = GetStringParam(ctx, n, i)
<1>1. GetIndex(new, n, i) = GetIndex(ctx, n, i)
  BY DEF GetIndex
<1>2. CASE Matches(ctx, GetFullName(n, i)) = {}
  <2>1. GetIndex(ctx, n, i) = 0
    BY <1>2, IndexOf
  <2> QED BY <1>1, <2>1 DEF GetStringParam
<1>3. CASE Matches(ctx, GetFullName(n, i)) # {}
  <2>1. GetIndex(ctx, n, i) \in Matches(ctx, GetFullName(n, i))
    BY <1>3, IndexOf
  <2> QED BY <1>1, <2>1 DEF GetStringParam
<1> QED BY <1>2, <1>3

\* Setting a parameter leaves every other one as it was.
LEMMA OthersKeep ==
  ASSUME NEW ctx \in Seq(Parameter), NEW n1 \in Names, NEW n2 \in Names,
         NEW i1 \in Indices, NEW i2 \in Indices, NEW text \in Seq(ValueChar),
         Distinct(n1, i1), Distinct(n2, i2), <<n1, i1>> # <<n2, i2>>
  PROVE  GetStringParam(Stored(ctx, n1, i1, text), n2, i2) = GetStringParam(ctx, n2, i2)
<1> DEFINE new == Stored(ctx, n1, i1, text)
           look1 == GetFullName(n1, i1)
           look2 == GetFullName(n2, i2)
<1>1. look1 # look2
  BY FullNameInjective DEF Distinct
<1>2. ~ Same(look1, look2)
  BY <1>1, SameName DEF Distinct
<1>3. new \in Seq(Parameter)
  BY StoredType
<1>4. Len(ctx) \in Nat /\ DOMAIN ctx = 1 .. Len(ctx) /\ DOMAIN new = 1 .. Len(new)
  BY <1>3, TableIsSeq
<1>5. CASE Found(ctx, n1, i1)
  <2> DEFINE at == GetIndex(ctx, n1, i1)
  <2>1. /\ at \in 1 .. Len(ctx) /\ Same(ctx[at].type, look1) /\ Len(new) = Len(ctx)
        /\ \A k \in 1 .. Len(ctx) : new[k] = IF k = at THEN Entry(ctx[k].type, text) ELSE ctx[k]
    BY <1>5, StoredType, Zenon
  <2> HIDE DEF new, look1, look2, at
  <2>2. ASSUME NEW k \in 1 .. Len(ctx) PROVE new[k].type = ctx[k].type
    <3>1. CASE k = at
      <4>1. new[k] = Entry(ctx[k].type, text)
        BY <2>1, <3>1
      <4> QED BY <4>1 DEF Entry
    <3>2. CASE k # at
      BY <2>1, <3>2
    <3> QED BY <3>1, <3>2
  <2>3. Matches(new, look2) = Matches(ctx, look2)
    BY <1>4, <2>1, <2>2 DEF Matches
  <2>4. at \notin Matches(ctx, look2)
    BY <1>2, <2>1 DEF Matches, Same
  <2>5. \A k \in Matches(ctx, look2) : new[k].value = ctx[k].value
    BY <1>4, <2>1, <2>4 DEF Matches
  <2> QED BY <1>3, <2>3, <2>5, SameMatches DEF new, look2
<1>6. CASE ~ Found(ctx, n1, i1)
  <2>1. /\ Len(new) = Len(ctx) + 1
        /\ \A k \in 1 .. Len(ctx) : new[k] = ctx[k]
        /\ new[Len(ctx) + 1] = Entry(look1, text)
    BY <1>6, StoredType, Zenon
  <2> HIDE DEF new, look1, look2
  <2>2. new[Len(ctx) + 1].type = look1
    BY <2>1 DEF Entry
  <2>3. Len(ctx) + 1 \notin Matches(new, look2)
    BY <1>2, <2>2 DEF Matches
  <2>4. Matches(new, look2) = Matches(ctx, look2)
    BY <1>4, <2>1, <2>3 DEF Matches
  <2>5. \A k \in Matches(ctx, look2) : new[k].value = ctx[k].value
    BY <1>4, <2>1 DEF Matches
  <2> QED BY <1>3, <2>4, <2>5, SameMatches DEF new, look2
<1> QED BY <1>5, <1>6

\* What is set is found again where it was set.
LEMMA SetIsRead ==
  ASSUME NEW ctx \in Seq(Parameter), NEW n \in Names, NEW i \in Indices, NEW text \in Seq(ValueChar)
  PROVE  GetStringParam(Stored(ctx, n, i, text), n, i) = {text}
<1> DEFINE new  == Stored(ctx, n, i, text)
           look == GetFullName(n, i)
           at   == GetIndex(new, n, i)
<1>1. new \in Seq(Parameter)
  BY StoredType
<1>2. /\ Len(ctx) \in Nat /\ DOMAIN ctx = 1 .. Len(ctx)
      /\ Len(new) \in Nat /\ DOMAIN new = 1 .. Len(new)
  BY <1>1, TableIsSeq
<1>3. at # 0 /\ new[at].value = text
  <2>1. CASE Found(ctx, n, i)
    <3> DEFINE was == GetIndex(ctx, n, i)
    <3>1. /\ was \in 1 .. Len(ctx) /\ Len(new) = Len(ctx)
          /\ \A k \in 1 .. Len(ctx) : new[k] = IF k = was THEN Entry(ctx[k].type, text) ELSE ctx[k]
      BY <2>1, StoredType, Zenon
    <3>2. was \in Matches(ctx, look)
      BY <2>1, IndexOf DEF Found
    <3> HIDE DEF new, look, was
    <3>3. ASSUME NEW k \in 1 .. Len(ctx) PROVE new[k].type = ctx[k].type
      <4>1. CASE k = was
        <5>1. new[k] = Entry(ctx[k].type, text)
          BY <3>1, <4>1
        <5> QED BY <5>1 DEF Entry
      <4>2. CASE k # was
        BY <3>1, <4>2
      <4> QED BY <4>1, <4>2
    <3>4. Matches(new, look) = Matches(ctx, look)
      BY <1>2, <3>1, <3>3 DEF Matches
    <3>5. GetIndex(new, n, i) = GetIndex(ctx, n, i)
      BY <3>4, Zenon DEF GetIndex, look
    <3>6. at = was /\ was # 0
      BY <1>2, <3>1, <3>5 DEF was
    <3>7. new[was] = Entry(ctx[was].type, text)
      BY <3>1
    <3> QED BY <3>6, <3>7 DEF Entry
  <2>2. CASE ~ Found(ctx, n, i)
    <3>1. /\ Len(new) = Len(ctx) + 1
          /\ \A k \in 1 .. Len(ctx) : new[k] = ctx[k]
          /\ new[Len(ctx) + 1] = Entry(look, text)
      BY <2>2, StoredType, Zenon
    <3>2. Matches(ctx, look) = {}
      BY <1>2, <2>2, IndexOf DEF Found
    <3> HIDE DEF new, look, at
    <3>3. new[Len(ctx) + 1].type = look /\ new[Len(ctx) + 1].value = text
      BY <3>1 DEF Entry
    <3>4. Matches(new, look) = {Len(ctx) + 1}
      <4>1. Len(ctx) + 1 \in Matches(new, look)
        BY <1>2, <3>1, <3>3 DEF Matches, Same
      <4>2. ASSUME NEW k \in Matches(new, look) PROVE k = Len(ctx) + 1
        <5>1. k \in 1 .. Len(ctx) + 1 /\ Same(new[k].type, look)
          BY <1>2, <3>1 DEF Matches
        <5>2. CASE k # Len(ctx) + 1
          <6>1. k \in 1 .. Len(ctx)
            BY <1>2, <5>1, <5>2
          <6>2. k \in Matches(ctx, look)
            BY <1>2, <3>1, <5>1, <6>1 DEF Matches
          <6> QED BY <3>2, <6>2
        <5> QED BY <5>2
      <4> QED BY <4>1, <4>2
    <3>5. at \in Matches(new, look) /\ at \in 1 .. Len(new)
      BY <1>1, <3>4, IndexOf DEF look, at
    <3> QED BY <1>2, <3>3, <3>4, <3>5
  <2> QED BY <2>1, <2>2
<1> HIDE DEF new
<1>4. GetStringParam(new, n, i) = {new[at].value}
  BY <1>3 DEF GetStringParam
<1> QED BY <1>3, <1>4 DEF new
-----------------------------------------------------------------------------
(***************************************************************************)
(* Every value that is stored is text.                                     *)
(***************************************************************************)
LEMMA PowerOf ==
  ASSUME NEW k \in 1 .. 10
  PROVE  Powers[k] \in Nat \ {0}
BY DEF Powers, Thousand

LEMMA DecimalIsText ==
  ASSUME NEW n \in Nat
  PROVE  Decimal(n) \in Seq(ValueChar)
<1> DEFINE W == {w \in 1 .. 10 : w = 10 \/ n < Powers[w + 1]}
<1>1. W \in SUBSET Nat /\ 10 \in W /\ W \subseteq 1 .. 10
  OBVIOUS
<1>2. Min(W) \in 1 .. 10
  <2> HIDE DEF W
  <2> QED BY <1>1, MinOf
<1>3. Width(n) \in 1 .. 10
  BY <1>2 DEF Width
<1>4. ASSUME NEW k \in 1 .. Width(n)
      PROVE  48 + ((n \div Powers[Width(n) - k + 1]) % 10) \in ValueChar
  <2>1. Width(n) - k + 1 \in 1 .. 10
    BY <1>3
  <2>2. Powers[Width(n) - k + 1] \in Nat \ {0}
    BY <2>1, PowerOf, Zenon
  <2> DEFINE p == Powers[Width(n) - k + 1]
  <2> HIDE DEF p
  <2>3. n \div p \in Nat
    BY <2>2 DEF p
  <2> DEFINE d == n \div p
  <2> HIDE DEF d
  <2>4. d % 10 \in 0 .. 9
    BY <2>3 DEF d
  <2>5. 48 + (d % 10) \in ValueChar
    BY <2>4 DEF Char, ValueChar, Newline
  <2> QED BY <2>5 DEF d, p
<1> HIDE DEF W
<1> QED BY <1>3, <1>4 DEF Decimal

\* atoi goes from digit to digit.
AtoiRound(z, s) == z[0] = 0 /\ \A k \in 1 .. Len(s) : z[k] = 10 * z[k - 1] + (s[k] - 48)

LEMMA NumeralLoop ==
  ASSUME NEW s \in Seq(Int)
  PROVE  \E z \in [0 .. Len(s) -> Int] : AtoiRound(z, s) /\ Numeral(s) = z[Len(s)]
<1> DEFINE n == Len(s)
           Body(z) == [k \in 0 .. n |-> IF k = 0 THEN 0 ELSE 10 * z[k - 1] + (s[k] - 48)]
           Step == [k \in 1 .. n |-> [a \in Int |-> 10 * a + (s[k] - 48)]]
<1>1. Numeral(s) = (CHOOSE z : z = Body(z))[n]
  BY Zenon DEF Numeral
<1>2. n \in Nat /\ \A k \in 1 .. n : s[k] \in Int
  BY LenProperties, ElementOfSeq
<1> HIDE DEF n
<1>3. Step \in [1 .. n -> [Int -> Int]] /\ 0 \in Int
  BY <1>2
<1>4. PICK y \in [0 .. n -> Int] : IsLoop(y, n, 0, Step)
  <2> HIDE DEF Step
  <2> QED BY <1>2, <1>3, LoopExists
<1>5. y = Body(y)
  <2>1. ASSUME NEW k \in 0 .. n
        PROVE  y[k] = IF k = 0 THEN 0 ELSE 10 * y[k - 1] + (s[k] - 48)
    <3>1. CASE k = 0
      BY <1>4, <3>1 DEF IsLoop
    <3>2. CASE k # 0
      <4>1. k \in 1 .. n /\ k - 1 \in 0 .. n
        BY <1>2, <3>2
      <4>2. y[k - 1] \in Int /\ y[k] = Step[k][y[k - 1]]
        BY <1>4, <4>1 DEF IsLoop
      <4> QED BY <3>2, <4>1, <4>2
    <3> QED BY <3>1, <3>2
  <2> QED BY <2>1
<1> DEFINE z == CHOOSE z : z = Body(z)
<1>6. z = Body(z)
  BY <1>5
<1> HIDE DEF z
<1>7. z[0] = 0 /\ \A k \in 1 .. n : z[k] = 10 * z[k - 1] + (s[k] - 48)
  BY <1>2, <1>6
<1>8. z \in [0 .. n -> Int]
  <2> DEFINE S == {k \in 0 .. n : z[k] \in Int}
  <2>1. 0 \in S
    BY <1>2, <1>7
  <2>2. ASSUME NEW k \in 1 .. n, k - 1 \in S PROVE k \in S
    <3>1. k \in 0 .. n /\ z[k - 1] \in Int /\ s[k] \in Int
      BY <1>2, <2>2
    <3>2. z[k] = 10 * z[k - 1] + (s[k] - 48)
      BY <1>7
    <3> QED BY <3>1, <3>2
  <2> HIDE DEF S
  <2>3. \A k \in 0 .. n : k \in S
    BY <1>2, <2>1, <2>2, UpTo
  <2>4. DOMAIN z = 0 .. n /\ z = [k \in 0 .. n |-> z[k]]
    BY <1>6
  <2> QED BY <2>3, <2>4 DEF S
<1> QED BY <1>1, <1>7, <1>8 DEF AtoiRound, n, z

\* One more digit.
LEMMA NextDigit ==
  ASSUME NEW n \in Nat, NEW P \in Nat \ {0}
  PROVE  n \div P = 10 * (n \div (10 * P)) + ((n \div P) % 10)
<1> DEFINE d == n \div P
           e == d \div 10
           r == d % 10
           m == n % P
<1>1. d \in Nat /\ m \in Nat /\ m < P /\ n = P * d + m
  OBVIOUS
<1> HIDE DEF d, m
<1>2. e \in Nat /\ r \in 0 .. 9 /\ d = 10 * e + r
  BY <1>1
<1> HIDE DEF e, r
<1>3. n = (10 * P) * e + (P * r + m)
  BY <1>1, <1>2
<1>4. P * r + m < 10 * P /\ P * r + m \in Nat
  <2>1. P * r <= P * 9
    BY <1>2
  <2> QED BY <1>1, <1>2, <2>1
<1>5. n \div (10 * P) = e
  <2> DEFINE T == 10 * P
             u == P * r + m
  <2>1. T \in Nat \ {0} /\ u \in Nat /\ u < T /\ n = T * e + u
    BY <1>3, <1>4
  <2> HIDE DEF T, u
  <2>2. (T * e + u) \div T = e
    BY <1>2, <2>1
  <2> QED BY <2>1, <2>2 DEF T
<1>6. (n \div P) \div 10 = n \div (10 * P) /\ (n \div P) % 10 = r
  BY <1>5 DEF d, e, r
<1>7. n \div P = 10 * e + r
  BY <1>2 DEF d
<1> QED BY <1>5, <1>6, <1>7

LEMMA MaxIntIs == MaxInt \in Int /\ MaxInt <= 2147483647
BY SMT DEF MaxInt

\* An int has at most ten digits.
LEMMA TenDigits ==
  ASSUME NEW n \in 0 .. MaxInt
  PROVE  n \in Nat /\ n < 10 * Powers[10]
<1>1. Powers[10] = Thousand * Thousand * Thousand
  BY DEF Powers
<1>2. Thousand * Thousand * Thousand > 999999999 /\ Thousand * Thousand * Thousand \in Int
  BY SMT DEF Thousand
<1>3. MaxInt \in Int /\ MaxInt <= 2147483647
  BY SMT, MaxIntIs
<1>4. n \in Nat /\ n <= MaxInt
  BY SMT, <1>3
<1> QED BY SMT, <1>1, <1>2, <1>3, <1>4

LEMMA TenTimes == \A k \in 1 .. 9 : Powers[k + 1] = 10 * Powers[k]
BY DEF Powers, Thousand

\* "%d" writes the digits that atoi reads.
LEMMA DecimalIsRead ==
  ASSUME NEW n \in 0 .. MaxInt
  PROVE  IsNumeral(Decimal(n)) /\ Numeral(Decimal(n)) = n
<1> DEFINE w == Width(n)
           s == Decimal(n)
           W == {v \in 1 .. 10 : v = 10 \/ n < Powers[v + 1]}
<1>1. w \in 1 .. 10 /\ (w # 10 => n < Powers[w + 1])
  <2>1. W \in SUBSET Nat /\ 10 \in W
    OBVIOUS
  <2>2. Width(n) = Min(W)
    BY DEF Width
  <2> HIDE DEF W
  <2>3. w \in W
    BY <2>1, <2>2, MinOf
  <2> QED BY <2>3 DEF W
<1>2. s = [k \in 1 .. w |-> 48 + ((n \div Powers[w - k + 1]) % 10)]
  BY DEF Decimal
<1>3. \A k \in 1 .. 10 : Powers[k] \in Nat \ {0}
  BY PowerOf
<1>4. n \in Nat /\ n < 10 * Powers[10]
  BY TenDigits
<1> HIDE DEF w, s
<1>5. ASSUME NEW k \in 1 .. w
      PROVE  /\ w - k + 1 \in 1 .. 10
             /\ (n \div Powers[w - k + 1]) % 10 \in 0 .. 9
             /\ s[k] = 48 + ((n \div Powers[w - k + 1]) % 10)
  <2>1. w - k + 1 \in 1 .. 10
    BY <1>1
  <2> DEFINE P == Powers[w - k + 1]
  <2>2. P \in Nat \ {0}
    BY <1>3, <2>1
  <2>3. s[k] = 48 + ((n \div P) % 10)
    BY <1>2
  <2> HIDE DEF P
  <2>4. n \div P \in Nat
    BY <1>4, <2>2
  <2>5. (n \div P) % 10 \in 0 .. 9
    <3> DEFINE d == n \div P
    <3>1. d \in Nat
      BY <2>4
    <3> HIDE DEF d
    <3>2. d % 10 \in 0 .. 9
      BY <3>1
    <3> QED BY <3>2 DEF d
  <2> QED BY <2>1, <2>3, <2>5 DEF P
<1>6. \A k \in 1 .. w : s[k] \in 48 .. 57
  BY <1>5
<1>7. s \in Seq(48 .. 57) /\ Len(s) = w
  <2>1. DOMAIN s = 1 .. w /\ s = [k \in 1 .. w |-> s[k]]
    BY <1>2
  <2>2. s \in [1 .. w -> 48 .. 57]
    BY <1>6, <2>1
  <2> QED BY <1>1, <2>2
<1>8. IsNumeral(s)
  BY <1>1, <1>6, <1>7 DEF IsNumeral
<1>9. PICK z \in [0 .. w -> Int] : AtoiRound(z, s) /\ Numeral(s) = z[w]
  <2>1. s \in Seq(Int)
    BY <1>7, SeqMonotonic
  <2> QED BY <1>7, <2>1, NumeralLoop
<1> DEFINE S == {k \in 0 .. w : k = 0 \/ z[k] = n \div Powers[w - k + 1]}
<1>10. 0 \in S
  BY <1>1
<1>11. ASSUME NEW k \in 1 .. w, k - 1 \in S PROVE k \in S
  <2> DEFINE P == Powers[w - k + 1]
             d == (n \div P) % 10
  <2>1. z[k] = 10 * z[k - 1] + (s[k] - 48)
    BY <1>7, <1>9 DEF AtoiRound
  <2>2. P \in Nat \ {0} /\ w - k + 1 \in 1 .. 10 /\ d \in 0 .. 9 /\ s[k] = 48 + d
    BY <1>3, <1>5
  <2>3. s[k] - 48 = d
    <3> HIDE DEF d
    <3> QED BY <2>2
  <2>4. z[k] = n \div P
    <3>1. CASE k = 1
      <4>1. z[0] = 0
        BY <1>9 DEF AtoiRound
      <4>2. z[k] = d
        <5> HIDE DEF d
        <5>1. 10 * z[k - 1] = 0
          BY <3>1, <4>1
        <5> QED BY <2>1, <2>2, <2>3, <5>1
      <4>3. n < 10 * P
        <5>1. P = Powers[w]
          BY <1>1, <3>1
        <5>2. CASE w = 10
          BY <1>4, <5>1, <5>2
        <5>3. CASE w # 10
          <6>1. Powers[w + 1] = 10 * Powers[w]
            <7>1. w \in 1 .. 9
              BY <1>1, <5>3
            <7> QED BY <7>1, TenTimes, Zenon
          <6>2. n < Powers[w + 1]
            BY <1>1, <5>3
          <6> HIDE DEF P
          <6> QED BY <5>1, <6>1, <6>2
        <5> QED BY <5>2, <5>3
      <4>4. d = n \div P
        <5> HIDE DEF P
        <5> DEFINE h == n \div P
                   m == n % P
        <5>1. h \in Nat /\ m \in Nat /\ n = P * h + m
          BY <1>4, <2>2
        <5> HIDE DEF h, m
        <5>2. h < 10
          <6> SUFFICES ASSUME h >= 10 PROVE FALSE
            BY <5>1
          <6>1. P * h >= P * 10
            BY <2>2, <5>1
          <6> QED BY <1>4, <2>2, <4>3, <5>1, <6>1
        <5>3. h % 10 = h
          BY <5>1, <5>2
        <5> QED BY <5>3 DEF h
      <4> QED BY <4>2, <4>4
    <3>2. CASE k # 1
      <4>1. k - 1 \in 1 .. w /\ w - (k - 1) + 1 = (w - k + 1) + 1 /\ w - k + 1 \in 1 .. 9
        BY <1>1, <3>2
      <4>2. z[k - 1] = n \div Powers[w - (k - 1) + 1]
        BY <1>11, <4>1
      <4>3. Powers[w - (k - 1) + 1] = 10 * P
        BY <4>1, TenTimes
      <4>4. n \div P = 10 * (n \div (10 * P)) + d
        BY <1>4, <2>2, NextDigit
      <4>5. z[k - 1] = n \div (10 * P)
        BY <4>2, <4>3
      <4> HIDE DEF P, d
      <4> QED BY <2>1, <2>3, <4>4, <4>5
    <3> QED BY <3>1, <3>2
  <2> QED BY <2>4 DEF P
<1>12. w \in S
  <2> HIDE DEF S
  <2>1. w \in Nat /\ w \in 0 .. w
    BY <1>1
  <2>2. \A k \in 0 .. w : k \in S
    BY <1>10, <1>11, <2>1, UpTo
  <2> QED BY <2>1, <2>2
<1>13. z[w] = n \div Powers[1] /\ Powers[1] = 1
  <2>1. w # 0 /\ w - w + 1 = 1
    BY <1>1
  <2>2. z[w] = n \div Powers[w - w + 1]
    BY <1>12, <2>1
  <2>3. Powers[1] = 1
    BY DEF Powers
  <2> QED BY <2>1, <2>2, <2>3
<1>14. n \div 1 = n
  BY <1>4
<1> QED BY <1>8, <1>9, <1>13, <1>14 DEF s

LEMMA IntTextIsText ==
  ASSUME NEW n \in Int
  PROVE  IntText(n) \in Seq(ValueChar)
<1>1. <<Minus>> \in Seq(ValueChar)
  BY DEF Minus, Char, ValueChar, Newline
<1>2. CASE n < 0
  BY <1>1, <1>2, DecimalIsText, ConcatProperties DEF IntText
<1>3. CASE ~ (n < 0)
  BY <1>3, DecimalIsText DEF IntText
<1> QED BY <1>2, <1>3

LEMMA NumbersAreInt == Numbers \subseteq Int
<1>1. MaxInt \in Int
  BY MaxIntIs
<1> QED BY <1>1, NumbersAssumption

LEMMA ListsAreText ==
  ASSUME NEW items \in Lists
  PROVE  items \in Seq(Seq(ValueChar))
BY ListsAssumption DEF ValueChar

LEMMA BoolTextIsText ==
  ASSUME NEW b \in BOOLEAN
  PROVE  BoolText(b) \in Seq(ValueChar)
<1>1. <<84, 114, 117, 101>> \in Seq(ValueChar)
  BY DEF Char, ValueChar, Newline
<1>2. 70 \in ValueChar /\ 97 \in ValueChar /\ 108 \in ValueChar /\ 115 \in ValueChar /\ 101 \in ValueChar
  BY DEF Char, ValueChar, Newline
<1>3. <<70, 97, 108, 115, 101>> \in Seq(ValueChar)
  BY <1>2
<1> QED BY <1>1, <1>3 DEF BoolText

\* A number that is not negative is read as it was set, another is not read.
LEMMA IntIsRead ==
  ASSUME NEW ctx \in Seq(Parameter), NEW n \in Names, NEW i \in Indices, NEW v \in Numbers
  PROVE  GetIntParam(Stored(ctx, n, i, IntText(v)), n, i) = {v} \cap Nat
<1> DEFINE t == IntText(v)
<1>1. v \in Int /\ v <= MaxInt /\ MaxInt \in Int
  BY MaxIntIs, NumbersAssumption
<1>2. GetStringParam(Stored(ctx, n, i, t), n, i) = {t}
  BY <1>1, IntTextIsText, SetIsRead
<1>3. CASE v < 0
  <2>1. t = <<Minus>> \o Decimal(- v)
    BY <1>3 DEF IntText
  <2>2. - v \in Nat /\ Decimal(- v) \in Seq(ValueChar)
    BY <1>1, <1>3, DecimalIsText
  <2>3. <<Minus>> \in Seq(ValueChar) /\ Len(<<Minus>>) = 1 /\ <<Minus>>[1] = 45
    BY DEF Minus, Char, ValueChar, Newline
  <2>4. 1 \in DOMAIN t /\ t[1] = 45
    <3> DEFINE d == Decimal(- v)
               m == <<Minus>>
    <3>1. m \in Seq(ValueChar) /\ d \in Seq(ValueChar) /\ Len(m) = 1 /\ m[1] = 45 /\ t = m \o d
      BY <2>1, <2>2, <2>3
    <3> HIDE DEF t, d, m
    <3>2. /\ m \o d \in Seq(ValueChar) /\ Len(m \o d) = Len(m) + Len(d) /\ Len(d) \in Nat
          /\ (m \o d)[1] = m[1]
      BY <3>1, ConcatProperties
    <3> QED BY <3>1, <3>2
  <2>5. ~ IsNumeral(t)
    BY <2>4 DEF IsNumeral
  <2> HIDE DEF t
  <2>6. GetIntParam(Stored(ctx, n, i, t), n, i) = {}
    BY <1>2, <2>5 DEF GetIntParam
  <2> QED BY <1>1, <1>3, <2>6 DEF t
<1>4. CASE ~ (v < 0)
  <2>1. t = Decimal(v) /\ v \in 0 .. MaxInt
    BY <1>1, <1>4 DEF IntText
  <2>2. IsNumeral(t) /\ Numeral(t) = v
    BY <2>1, DecimalIsRead
  <2> HIDE DEF t
  <2>3. GetIntParam(Stored(ctx, n, i, t), n, i) = {v}
    BY <1>2, <2>2 DEF GetIntParam
  <2> QED BY <1>1, <1>4, <2>3 DEF t
<1> QED BY <1>3, <1>4

LEMMA BoolIsRead ==
  ASSUME NEW ctx \in Seq(Parameter), NEW n \in Names, NEW i \in Indices, NEW b \in BOOLEAN
  PROVE  GetBoolParam(Stored(ctx, n, i, BoolText(b)), n, i) = {b}
<1> DEFINE t == BoolText(b)
<1>1. GetStringParam(Stored(ctx, n, i, t), n, i) = {t}
  BY BoolTextIsText, SetIsRead
<1>2. t # <<>> /\ t[1] = IF b THEN 84 ELSE 70
  BY DEF BoolText
<1> HIDE DEF t
<1>3. (t # <<>> /\ t[1] \in {49, 84, 116, 89, 121}) = b
  <2>1. CASE b
    BY <1>2, <2>1
  <2>2. CASE ~ b
    BY <1>2, <2>2
  <2> QED BY <2>1, <2>2
<1>4. GetBoolParam(Stored(ctx, n, i, t), n, i) = {t # <<>> /\ t[1] \in {49, 84, 116, 89, 121}}
  BY <1>1 DEF GetBoolParam
<1> QED BY <1>3, <1>4 DEF t
-----------------------------------------------------------------------------
(***************************************************************************)
(* The text of a list, and what strtok finds in it.                        *)
(***************************************************************************)
\* SetListParam goes from item to item.
ListRound(str, items) ==
  str[0] = <<>> /\ \A k \in 1 .. Len(items) : str[k] = str[k - 1] \o Append(items[k], Semicolon)

LEMMA ItemText ==
  ASSUME NEW x \in Seq(ValueChar)
  PROVE  /\ Append(x, Semicolon) \in Seq(ValueChar) /\ Len(Append(x, Semicolon)) = Len(x) + 1
         /\ Len(x) \in Nat /\ DOMAIN x = 1 .. Len(x)
         /\ \A j \in 1 .. Len(x) : Append(x, Semicolon)[j] = x[j]
         /\ Append(x, Semicolon)[Len(x) + 1] = Semicolon
<1>1. Semicolon \in ValueChar
  BY DEF Semicolon, Char, ValueChar, Newline
<1> QED BY <1>1, LenProperties

LEMMA ListLoop ==
  ASSUME NEW items \in Seq(Seq(ValueChar))
  PROVE  \E str \in [0 .. Len(items) -> Seq(ValueChar)] :
           ListRound(str, items) /\ ListText(items) = Front(str[Len(items)])
<1> DEFINE n == Len(items)
           Body(z) == [k \in 0 .. n |-> IF k = 0 THEN <<>> ELSE z[k - 1] \o Append(items[k], Semicolon)]
           Step == [k \in 1 .. n |-> [a \in Seq(ValueChar) |-> a \o Append(items[k], Semicolon)]]
<1>1. ListText(items) = Front((CHOOSE z : z = Body(z))[n])
  BY Zenon DEF ListText
<1>2. n \in Nat /\ \A k \in 1 .. n : items[k] \in Seq(ValueChar)
  BY LenProperties, ElementOfSeq
<1> HIDE DEF n
<1>3. ASSUME NEW k \in 1 .. n, NEW a \in Seq(ValueChar)
      PROVE  a \o Append(items[k], Semicolon) \in Seq(ValueChar)
  <2>1. Append(items[k], Semicolon) \in Seq(ValueChar)
    BY <1>2, ItemText
  <2> QED BY <2>1, ConcatProperties
<1>4. Step \in [1 .. n -> [Seq(ValueChar) -> Seq(ValueChar)]] /\ <<>> \in Seq(ValueChar)
  BY <1>3
<1>5. PICK y \in [0 .. n -> Seq(ValueChar)] : IsLoop(y, n, <<>>, Step)
  <2> HIDE DEF Step
  <2> QED BY <1>2, <1>4, LoopExists
<1>6. y = Body(y)
  <2>1. ASSUME NEW k \in 0 .. n
        PROVE  y[k] = IF k = 0 THEN <<>> ELSE y[k - 1] \o Append(items[k], Semicolon)
    <3>1. CASE k = 0
      BY <1>5, <3>1 DEF IsLoop
    <3>2. CASE k # 0
      <4>1. k \in 1 .. n /\ k - 1 \in 0 .. n
        BY <1>2, <3>2
      <4>2. y[k - 1] \in Seq(ValueChar) /\ y[k] = Step[k][y[k - 1]]
        BY <1>5, <4>1 DEF IsLoop
      <4> QED BY <3>2, <4>1, <4>2
    <3> QED BY <3>1, <3>2
  <2> QED BY <2>1
<1> DEFINE z == CHOOSE z : z = Body(z)
<1>7. z = Body(z)
  BY <1>6
<1> HIDE DEF z
<1>8. z[0] = <<>> /\ \A k \in 1 .. n : z[k] = z[k - 1] \o Append(items[k], Semicolon)
  <2>1. 0 \in 0 .. n
    BY <1>2
  <2>2. z[0] = <<>>
    BY <1>7, <2>1
  <2>3. ASSUME NEW k \in 1 .. n PROVE z[k] = z[k - 1] \o Append(items[k], Semicolon)
    <3>1. k \in 0 .. n /\ k # 0
      BY <1>2
    <3> QED BY <1>7, <3>1
  <2> QED BY <2>2, <2>3
<1>9. z \in [0 .. n -> Seq(ValueChar)]
  <2> DEFINE S == {k \in 0 .. n : z[k] \in Seq(ValueChar)}
  <2>1. 0 \in S
    <3>1. 0 \in 0 .. n
      BY <1>2
    <3>2. z[0] \in Seq(ValueChar)
      BY <1>4, <1>8
    <3> QED BY <3>1, <3>2
  <2>2. ASSUME NEW k \in 1 .. n, k - 1 \in S PROVE k \in S
    <3>1. k \in 0 .. n /\ z[k - 1] \in Seq(ValueChar)
      BY <1>2, <2>2
    <3>2. z[k] = z[k - 1] \o Append(items[k], Semicolon)
      BY <1>8
    <3> QED BY <1>3, <3>1, <3>2
  <2> HIDE DEF S
  <2>3. \A k \in 0 .. n : k \in S
    BY <1>2, <2>1, <2>2, UpTo
  <2>4. DOMAIN z = 0 .. n /\ z = [k \in 0 .. n |-> z[k]]
    BY <1>7
  <2> QED BY <2>3, <2>4 DEF S
<1> QED BY <1>1, <1>8, <1>9 DEF ListRound, n, z

\* Where the items and the semicolons are.
Laid(t, k, L, items) ==
  /\ \A h \in 1 .. k : \A j \in 1 .. Len(items[h]) : t[L[h - 1] + j] = items[h][j]
  /\ \A h \in 1 .. k : t[L[h]] = Semicolon

Places(L, items) ==
  /\ L[0] = 0 /\ \A k \in 1 .. Len(items) : L[k] = L[k - 1] + Len(items[k]) + 1
  /\ \A k \in 0 .. Len(items) : \A h \in 0 .. k : L[h] <= L[k]

LEMMA Inside ==
  ASSUME NEW a \in Nat, NEW b \in Nat, NEW c, NEW m \in Nat, NEW j \in 1 .. b,
         c = a + b + 1, c <= m
  PROVE  a + j \in 1 .. m
OBVIOUS

LEMMA ListLayout ==
  ASSUME NEW items \in Seq(Seq(ValueChar))
  PROVE  \E t \in Seq(ValueChar) : \E L \in [0 .. Len(items) -> Nat] :
           /\ ListText(items) = Front(t) /\ Len(t) = L[Len(items)]
           /\ Places(L, items) /\ Laid(t, Len(items), L, items)
<1> DEFINE n == Len(items)
<1>1. n \in Nat /\ \A k \in 1 .. n : items[k] \in Seq(ValueChar) /\ Len(items[k]) \in Nat
  BY LenProperties, ElementOfSeq
<1>2. PICK str \in [0 .. n -> Seq(ValueChar)] : ListRound(str, items) /\ ListText(items) = Front(str[n])
  BY ListLoop
<1> DEFINE L == [k \in 0 .. n |-> Len(str[k])]
<1>3. \A k \in 0 .. n : str[k] \in Seq(ValueChar) /\ Len(str[k]) \in Nat
  BY <1>2, LenProperties
<1>4. L \in [0 .. n -> Nat] /\ \A k \in 0 .. n : Len(str[k]) = L[k]
  BY <1>3
<1>5. L[0] = 0
  BY <1>1, <1>2, <1>4 DEF ListRound
<1> HIDE DEF n, L
<1>6. ASSUME NEW k \in 1 .. n
      PROVE  /\ L[k] = L[k - 1] + Len(items[k]) + 1 /\ k - 1 \in 0 .. n /\ k \in 0 .. n
             /\ \A j \in 1 .. L[k - 1] : str[k][j] = str[k - 1][j]
             /\ \A j \in 1 .. Len(items[k]) : str[k][L[k - 1] + j] = items[k][j]
             /\ str[k][L[k]] = Semicolon
  <2> DEFINE a == str[k - 1]
             x == items[k]
             b == Append(x, Semicolon)
  <2>1. k - 1 \in 0 .. n /\ k \in 0 .. n
    BY <1>1
  <2>2. a \in Seq(ValueChar) /\ x \in Seq(ValueChar) /\ Len(a) = L[k - 1] /\ Len(str[k]) = L[k]
    BY <1>1, <1>3, <1>4, <2>1
  <2>3. str[k] = a \o b
    BY <1>2 DEF ListRound, n
  <2>4. /\ b \in Seq(ValueChar) /\ Len(b) = Len(x) + 1 /\ Len(x) \in Nat
        /\ \A j \in 1 .. Len(x) : b[j] = x[j]
        /\ b[Len(x) + 1] = Semicolon
    BY <2>2, ItemText
  <2> HIDE DEF a, b, x
  <2>5. /\ Len(a) \in Nat /\ Len(a \o b) = Len(a) + Len(b)
        /\ \A j \in 1 .. Len(a) + Len(b) : (a \o b)[j] = IF j <= Len(a) THEN a[j] ELSE b[j - Len(a)]
    BY <2>2, <2>4, ConcatProperties, LenProperties
  <2>6. L[k] = L[k - 1] + Len(x) + 1
    <3>1. Len(str[k]) = Len(a) + (Len(x) + 1) /\ Len(a) \in Nat /\ Len(x) \in Nat
      BY <2>3, <2>4, <2>5
    <3>2. Len(str[k]) = Len(a) + Len(x) + 1
      BY <3>1
    <3> QED BY <2>2, <3>2
  <2>7. ASSUME NEW j \in 1 .. L[k - 1] PROVE str[k][j] = a[j]
    <3>1. j \in 1 .. Len(a) + Len(b) /\ j <= Len(a)
      BY <2>2, <2>4, <2>5
    <3> QED BY <2>3, <2>5, <3>1
  <2>8. ASSUME NEW j \in 1 .. Len(x) + 1 PROVE str[k][L[k - 1] + j] = b[j]
    <3>1. Len(a) + j \in 1 .. Len(a) + Len(b) /\ ~ (Len(a) + j <= Len(a)) /\ (Len(a) + j) - Len(a) = j
      BY <2>4, <2>5
    <3>2. (a \o b)[Len(a) + j] = b[j]
      BY <2>5, <3>1
    <3> QED BY <2>2, <2>3, <3>2
  <2>9. ASSUME NEW j \in 1 .. Len(x) PROVE str[k][L[k - 1] + j] = x[j]
    <3>1. j \in 1 .. Len(x) + 1
      BY <2>4
    <3> QED BY <2>4, <2>8, <3>1
  <2>10. str[k][L[k]] = Semicolon
    <3>1. Len(x) + 1 \in 1 .. Len(x) + 1 /\ L[k] = L[k - 1] + (Len(x) + 1)
      <4>1. L[k - 1] \in Nat /\ Len(x) \in Nat
        BY <2>2, <2>4, <2>5
      <4> QED BY <2>6, <4>1
    <3>2. str[k][L[k - 1] + (Len(x) + 1)] = b[Len(x) + 1]
      BY <2>8, <3>1
    <3> QED BY <2>4, <3>1, <3>2
  <2> QED BY <2>1, <2>6, <2>7, <2>9, <2>10 DEF a, x
<1> DEFINE S == {k \in 0 .. n : Laid(str[k], k, L, items) /\ \A h \in 0 .. k : L[h] <= L[k]}
<1>7. 0 \in S
  BY <1>1, <1>4 DEF Laid
<1>8. ASSUME NEW k \in 1 .. n, k - 1 \in S PROVE k \in S
  <2>1. /\ L[k] \in Nat /\ L[k - 1] \in Nat /\ Len(items[k]) \in Nat /\ L[k] > L[k - 1]
        /\ k - 1 \in 0 .. n /\ k \in 0 .. n
    BY <1>1, <1>4, <1>6
  <2>2. Laid(str[k - 1], k - 1, L, items) /\ \A h \in 0 .. k - 1 : L[h] <= L[k - 1]
    BY <1>8
  <2>3. ASSUME NEW h \in 0 .. k PROVE L[h] <= L[k]
    <3>1. CASE h = k
      BY <2>1, <3>1
    <3>2. CASE h # k
      <4>1. h \in 0 .. k - 1 /\ h \in 0 .. n
        BY <1>1, <2>1, <2>3, <3>2
      <4>2. L[h] <= L[k - 1] /\ L[h] \in Nat
        BY <1>4, <2>2, <4>1
      <4> QED BY <2>1, <4>2
    <3> QED BY <3>1, <3>2
  <2>4. ASSUME NEW h \in 1 .. k, h # k
        PROVE  /\ h \in 1 .. k - 1 /\ h \in 1 .. n /\ L[h] \in 1 .. L[k - 1]
               /\ L[h - 1] \in Nat /\ L[h] = L[h - 1] + Len(items[h]) + 1
    <3>1. h \in 1 .. k - 1 /\ h \in 1 .. n /\ h \in 0 .. k - 1 /\ h \in 0 .. n /\ h - 1 \in 0 .. n
      BY <1>1, <2>1, <2>4
    <3>2. L[h] <= L[k - 1] /\ L[h] \in Nat /\ L[h - 1] \in Nat /\ Len(items[h]) \in Nat
      BY <1>1, <1>4, <2>2, <3>1
    <3>3. L[h] = L[h - 1] + Len(items[h]) + 1
      BY <1>6, <3>1
    <3> QED BY <2>1, <3>1, <3>2, <3>3
  <2>5. ASSUME NEW h \in 1 .. k, NEW j \in 1 .. Len(items[h])
        PROVE  str[k][L[h - 1] + j] = items[h][j]
    <3>1. CASE h = k
      BY <1>6, <3>1
    <3>2. CASE h # k
      <4>1. /\ h \in 1 .. k - 1 /\ h \in 1 .. n /\ L[h] \in 1 .. L[k - 1]
            /\ L[h - 1] \in Nat /\ L[h] = L[h - 1] + Len(items[h]) + 1
        BY <2>4, <3>2
      <4>2. str[k - 1][L[h - 1] + j] = items[h][j]
        BY <2>2, <4>1 DEF Laid
      <4>3. L[h - 1] + j \in 1 .. L[k - 1]
        <5>1. Len(items[h]) \in Nat
          BY <1>1, <4>1
        <5>2. L[h] <= L[k - 1]
          BY <4>1
        <5> QED BY <2>1, <4>1, <5>1, <5>2, Inside
      <4> QED BY <1>6, <4>2, <4>3
    <3> QED BY <3>1, <3>2
  <2>6. ASSUME NEW h \in 1 .. k PROVE str[k][L[h]] = Semicolon
    <3>1. CASE h = k
      BY <1>6, <3>1
    <3>2. CASE h # k
      <4>1. h \in 1 .. k - 1 /\ L[h] \in 1 .. L[k - 1]
        BY <2>4, <3>2
      <4>2. str[k - 1][L[h]] = Semicolon
        BY <2>2, <4>1 DEF Laid
      <4> QED BY <1>6, <4>1, <4>2
    <3> QED BY <3>1, <3>2
  <2> QED BY <2>1, <2>3, <2>5, <2>6 DEF Laid
<1>9. \A k \in 0 .. n : k \in S
  <2> HIDE DEF S
  <2> QED BY <1>1, <1>7, <1>8, UpTo
<1>10. n \in 0 .. n
  BY <1>1
<1>11. Places(L, items)
  BY <1>5, <1>6, <1>9 DEF Places, n
<1>12. Laid(str[n], n, L, items)
  BY <1>9, <1>10
<1> QED BY <1>2, <1>3, <1>4, <1>10, <1>11, <1>12 DEF n

LEMMA OneLess ==
  ASSUME NEW l, NEW m \in Nat, 1 <= m, l = IF 1 <= m - 1 THEN m - 1 - 1 + 1 ELSE 0
  PROVE  l + 1 = m
OBVIOUS

\* The text between the semicolons.
LEMMA ListTextLaid ==
  ASSUME NEW items \in Seq(Seq(ValueChar)), items # <<>>
  PROVE  \E L \in [0 .. Len(items) -> Nat] :
           /\ ListText(items) \in Seq(ValueChar) /\ Len(ListText(items)) + 1 = L[Len(items)]
           /\ Places(L, items)
           /\ \A h \in 1 .. Len(items) : \A j \in 1 .. Len(items[h]) :
                ListText(items)[L[h - 1] + j] = items[h][j]
           /\ \A h \in 1 .. Len(items) - 1 : ListText(items)[L[h]] = Semicolon
<1> DEFINE n == Len(items)
           s == ListText(items)
<1>1. n \in Nat /\ \A k \in 1 .. n : items[k] \in Seq(ValueChar) /\ Len(items[k]) \in Nat
  BY LenProperties, ElementOfSeq
<1>2. n # 0
  <2>1. SUFFICES ASSUME n = 0 PROVE FALSE
    OBVIOUS
  <2> QED BY <2>1, EmptySeq
<1>3. PICK t \in Seq(ValueChar) : \E L \in [0 .. n -> Nat] :
           /\ s = Front(t) /\ Len(t) = L[n] /\ Places(L, items) /\ Laid(t, n, L, items)
  BY ListLayout
<1>4. PICK L \in [0 .. n -> Nat] :
           /\ s = Front(t) /\ Len(t) = L[n] /\ Places(L, items) /\ Laid(t, n, L, items)
  BY <1>3
<1>5. \A k \in 0 .. n : L[k] \in Nat
  BY <1>4
<1>6. \A k \in 1 .. n : k - 1 \in 0 .. n /\ k \in 0 .. n
  BY <1>1
<1>7. n \in 1 .. n /\ n \in 0 .. n /\ n - 1 \in 0 .. n
  BY <1>1, <1>2
<1>8. \A k \in 1 .. n : L[k] = L[k - 1] + Len(items[k]) + 1 /\ L[k] <= L[n]
  BY <1>4, <1>6, <1>7 DEF Places
<1>9. Len(t) \in Nat /\ 1 <= Len(t) /\ s = SubSeq(t, 1, Len(t) - 1) /\ \A j \in 1 .. Len(t) : t[j] \in ValueChar
  <2>1. L[n] = L[n - 1] + Len(items[n]) + 1 /\ L[n - 1] \in Nat /\ Len(items[n]) \in Nat
    BY <1>1, <1>5, <1>7, <1>8
  <2>2. s = SubSeq(t, 1, Len(t) - 1)
    BY <1>4 DEF Front
  <2>3. Len(t) \in Nat /\ \A j \in 1 .. Len(t) : t[j] \in ValueChar
    BY LenProperties, ElementOfSeq
  <2>4. 1 <= L[n]
    BY <2>1
  <2> QED BY <1>4, <2>2, <2>3, <2>4
<1> HIDE DEF s, n
<1>10. s \in Seq(ValueChar) /\ Len(s) + 1 = Len(t) /\ \A j \in 1 .. Len(t) - 1 : s[j] = t[j]
  <2>1. \A j \in 1 .. Len(t) - 1 : t[j] \in ValueChar
    BY <1>9
  <2>2. /\ SubSeq(t, 1, Len(t) - 1) \in Seq(ValueChar)
        /\ Len(SubSeq(t, 1, Len(t) - 1)) = IF 1 <= Len(t) - 1 THEN Len(t) - 1 - 1 + 1 ELSE 0
        /\ \A j \in 1 .. Len(t) - 1 - 1 + 1 : SubSeq(t, 1, Len(t) - 1)[j] = t[1 + j - 1]
    BY <1>9, <2>1, SubSeqProperties
  <2>3. \A j \in 1 .. Len(t) - 1 : j \in 1 .. Len(t) - 1 - 1 + 1 /\ 1 + j - 1 = j
    BY <1>9
  <2>4. s \in Seq(ValueChar)
    BY <1>9, <2>2
  <2>5. Len(s) + 1 = Len(t)
    <3>1. Len(s) = IF 1 <= Len(t) - 1 THEN Len(t) - 1 - 1 + 1 ELSE 0
      BY <1>9, <2>2
    <3>2. Len(t) \in Nat /\ 1 <= Len(t)
      BY <1>9
    <3> QED BY <3>1, <3>2, OneLess
  <2>6. ASSUME NEW j \in 1 .. Len(t) - 1 PROVE s[j] = t[j]
    <3>1. SubSeq(t, 1, Len(t) - 1)[j] = t[1 + j - 1]
      BY <2>2, <2>3
    <3> QED BY <1>9, <2>3, <3>1
  <2> QED BY <2>4, <2>5, <2>6
<1>11. ASSUME NEW h \in 1 .. n, NEW j \in 1 .. Len(items[h])
       PROVE  s[L[h - 1] + j] = items[h][j]
  <2>1. t[L[h - 1] + j] = items[h][j]
    BY <1>4 DEF Laid
  <2>2. L[h - 1] + j \in 1 .. Len(t) - 1
    <3>1. L[h - 1] \in Nat /\ Len(items[h]) \in Nat /\ L[h - 1] + Len(items[h]) + 1 <= Len(t)
      BY <1>1, <1>4, <1>5, <1>6, <1>8
    <3> QED BY <1>9, <3>1
  <2> QED BY <1>10, <2>1, <2>2
<1>12. ASSUME NEW h \in 1 .. n - 1 PROVE s[L[h]] = Semicolon
  <2>1. h \in 1 .. n /\ h + 1 \in 1 .. n /\ (h + 1) - 1 = h
    BY <1>1
  <2>2. t[L[h]] = Semicolon
    BY <1>4, <2>1 DEF Laid
  <2>3. /\ L[h + 1] = L[h] + Len(items[h + 1]) + 1 /\ L[h + 1] <= Len(t)
        /\ L[h] = L[h - 1] + Len(items[h]) + 1
        /\ L[h] \in Nat /\ L[h - 1] \in Nat /\ Len(items[h]) \in Nat /\ Len(items[h + 1]) \in Nat
    BY <1>1, <1>4, <1>5, <1>6, <1>8, <2>1
  <2>4. L[h] \in 1 .. Len(t) - 1
    <3> DEFINE a == L[h - 1]
               b == L[h]
               c == L[h + 1]
               l == Len(items[h])
               m == Len(items[h + 1])
    <3>1. a \in Nat /\ b \in Nat /\ l \in Nat /\ m \in Nat /\ c = b + m + 1 /\ c <= Len(t) /\ b = a + l + 1
      BY <2>3
    <3> HIDE DEF a, b, c, l, m
    <3>2. b \in 1 .. Len(t) - 1
      BY <1>9, <3>1
    <3> QED BY <3>2 DEF b
  <2> QED BY <1>10, <2>2, <2>4
<1> QED BY <1>4, <1>10, <1>11, <1>12 DEF s, n

(***************************************************************************)
(* A scan ends behind the last character, or at the first that ends it.    *)
(***************************************************************************)
LEMMA OverEnds ==
  ASSUME NEW S, NEW s \in Seq(S), NEW i \in Nat, NEW C
  PROVE  LET o == Over(s, i, C)
         IN  /\ o \in Nat /\ o <= Len(s) + 1
             /\ o = Len(s) + 1 \/ (o \in i .. Len(s) /\ s[o] \notin C)
             /\ \A j \in i .. Len(s) : j < o => s[j] \in C
<1> DEFINE P == {Len(s) + 1} \cup {j \in i .. Len(s) : s[j] \notin C}
<1>1. Len(s) \in Nat
  BY LenProperties
<1>2. P \in SUBSET Nat /\ Len(s) + 1 \in P
  BY <1>1
<1>3. Over(s, i, C) = Min(P)
  BY DEF Over
<1>4. \A j \in P : j = Len(s) + 1 \/ (j \in i .. Len(s) /\ s[j] \notin C)
  OBVIOUS
<1>5. \A j \in i .. Len(s) : s[j] \notin C => j \in P
  OBVIOUS
<1> HIDE DEF P
<1>6. Min(P) \in P /\ \A y \in P : Min(P) <= y
  BY <1>2, MinOf
<1>7. Min(P) \in Nat /\ Min(P) <= Len(s) + 1
  BY <1>2, <1>6
<1>8. ASSUME NEW j \in i .. Len(s), j < Min(P) PROVE s[j] \in C
  <2>1. j \notin P
    BY <1>1, <1>6, <1>7, <1>8
  <2> QED BY <1>5, <2>1
<1> QED BY <1>3, <1>4, <1>6, <1>7, <1>8

LEMMA UntilEnds ==
  ASSUME NEW S, NEW s \in Seq(S), NEW i \in Nat, NEW C
  PROVE  LET o == Until(s, i, C)
         IN  /\ o \in Nat /\ o <= Len(s) + 1
             /\ o = Len(s) + 1 \/ (o \in i .. Len(s) /\ s[o] \in C)
             /\ \A j \in i .. Len(s) : j < o => s[j] \notin C
<1> DEFINE P == {Len(s) + 1} \cup {j \in i .. Len(s) : s[j] \in C}
<1>1. Len(s) \in Nat
  BY LenProperties
<1>2. P \in SUBSET Nat /\ Len(s) + 1 \in P
  BY <1>1
<1>3. Until(s, i, C) = Min(P)
  BY DEF Until
<1>4. \A j \in P : j = Len(s) + 1 \/ (j \in i .. Len(s) /\ s[j] \in C)
  OBVIOUS
<1>5. \A j \in i .. Len(s) : s[j] \in C => j \in P
  OBVIOUS
<1> HIDE DEF P
<1>6. Min(P) \in P /\ \A y \in P : Min(P) <= y
  BY <1>2, MinOf
<1>7. Min(P) \in Nat /\ Min(P) <= Len(s) + 1
  BY <1>2, <1>6
<1>8. ASSUME NEW j \in i .. Len(s), j < Min(P) PROVE s[j] \notin C
  <2>1. j \notin P
    BY <1>1, <1>6, <1>7, <1>8
  <2> QED BY <1>5, <2>1
<1> QED BY <1>3, <1>4, <1>6, <1>7, <1>8

LEMMA OverAt ==
  ASSUME NEW S, NEW s \in Seq(S), NEW i \in Nat, NEW C, NEW e \in i .. Len(s) + 1,
         \A j \in i .. e - 1 : s[j] \in C,
         e = Len(s) + 1 \/ s[e] \notin C
  PROVE  Over(s, i, C) = e
<1> DEFINE o == Over(s, i, C)
<1>1. /\ o \in Nat /\ o <= Len(s) + 1
      /\ o = Len(s) + 1 \/ (o \in i .. Len(s) /\ s[o] \notin C)
      /\ \A j \in i .. Len(s) : j < o => s[j] \in C
  BY OverEnds
<1>2. Len(s) \in Nat /\ e \in Nat
  BY LenProperties
<1> HIDE DEF o
<1>3. ~ (o < e)
  <2>1. SUFFICES ASSUME o < e PROVE FALSE
    OBVIOUS
  <2>2. o \in i .. e - 1 /\ o # Len(s) + 1
    BY <1>1, <1>2, <2>1
  <2> QED BY <1>1, <2>2
<1>4. ~ (e < o)
  <2>1. SUFFICES ASSUME e < o PROVE FALSE
    OBVIOUS
  <2>2. e \in i .. Len(s) /\ e # Len(s) + 1
    BY <1>1, <1>2, <2>1
  <2> QED BY <1>1, <2>1, <2>2
<1> QED BY <1>1, <1>2, <1>3, <1>4 DEF o

LEMMA UntilAt ==
  ASSUME NEW S, NEW s \in Seq(S), NEW i \in Nat, NEW C, NEW e \in i .. Len(s) + 1,
         \A j \in i .. e - 1 : s[j] \notin C,
         e = Len(s) + 1 \/ s[e] \in C
  PROVE  Until(s, i, C) = e
<1> DEFINE o == Until(s, i, C)
<1>1. /\ o \in Nat /\ o <= Len(s) + 1
      /\ o = Len(s) + 1 \/ (o \in i .. Len(s) /\ s[o] \in C)
      /\ \A j \in i .. Len(s) : j < o => s[j] \notin C
  BY UntilEnds
<1>2. Len(s) \in Nat /\ e \in Nat
  BY LenProperties
<1> HIDE DEF o
<1>3. ~ (o < e)
  <2>1. SUFFICES ASSUME o < e PROVE FALSE
    OBVIOUS
  <2>2. o \in i .. e - 1 /\ o # Len(s) + 1
    BY <1>1, <1>2, <2>1
  <2> QED BY <1>1, <2>2
<1>4. ~ (e < o)
  <2>1. SUFFICES ASSUME e < o PROVE FALSE
    OBVIOUS
  <2>2. e \in i .. Len(s) /\ e # Len(s) + 1
    BY <1>1, <1>2, <2>1
  <2> QED BY <1>1, <2>1, <2>2
<1> QED BY <1>1, <1>2, <1>3, <1>4 DEF o

\* Where strtok begins and ends.
LEMMA BeginAt ==
  ASSUME NEW s \in Seq(ValueChar), NEW i \in 1 .. Len(s), s[i] \notin Separators
  PROVE  Begin(s, i) = i
<1>1. Len(s) \in Nat
  BY LenProperties
<1>2. i \in i .. Len(s) + 1 /\ i \in Nat /\ \A j \in i .. i - 1 : s[j] \in Separators
  BY <1>1
<1> QED BY <1>2, OverAt DEF Begin

LEMMA EndAt ==
  ASSUME NEW s \in Seq(ValueChar), NEW i \in Nat, NEW e \in i .. Len(s) + 1,
         \A j \in i .. e - 1 : s[j] \notin Separators,
         e = Len(s) + 1 \/ s[e] \in Separators
  PROVE  End(s, i) = e
BY UntilAt DEF End

LEMMA Behind ==
  ASSUME NEW s \in Seq(ValueChar), NEW i \in Nat, i > Len(s)
  PROVE  Begin(s, i) = Len(s) + 1
<1> DEFINE o == Over(s, i, Separators)
<1>1. o = Len(s) + 1 \/ o \in i .. Len(s)
  BY OverEnds
<1>2. Len(s) \in Nat
  BY LenProperties
<1> HIDE DEF o
<1>3. o = Len(s) + 1
  BY <1>1, <1>2
<1> QED BY <1>3 DEF o, Begin

LEMMA PlacesAreNat ==
  ASSUME NEW s \in Seq(ValueChar), NEW i \in Nat
  PROVE  Begin(s, i) \in Nat /\ End(s, i) \in Nat
BY OverEnds, UntilEnds DEF Begin, End

\* The calls of strtok, one after the other.
LEMMA EndsLoop ==
  ASSUME NEW s \in Seq(ValueChar)
  PROVE  /\ Ends(s)[0] = 0
         /\ \A k \in 1 .. Len(s) : /\ Ends(s)[k - 1] \in Nat
                                   /\ Ends(s)[k] = End(s, Begin(s, Ends(s)[k - 1] + 1))
<1> DEFINE n == Len(s)
           Body(z) == [k \in 0 .. n |-> IF k = 0 THEN 0 ELSE End(s, Begin(s, z[k - 1] + 1))]
           Step == [k \in 1 .. n |-> [a \in Nat |-> End(s, Begin(s, a + 1))]]
<1>1. Ends(s) = CHOOSE z : z = Body(z)
  BY Zenon DEF Ends
<1>2. n \in Nat
  BY LenProperties
<1> HIDE DEF n
<1>3. ASSUME NEW a \in Nat PROVE End(s, Begin(s, a + 1)) \in Nat
  <2>1. a + 1 \in Nat
    OBVIOUS
  <2>2. Begin(s, a + 1) \in Nat
    BY <2>1, PlacesAreNat
  <2> QED BY <2>2, PlacesAreNat
<1>4. Step \in [1 .. n -> [Nat -> Nat]]
  BY <1>3
<1>5. PICK y \in [0 .. n -> Nat] : IsLoop(y, n, 0, Step)
  <2> HIDE DEF Step
  <2> QED BY <1>2, <1>4, LoopExists
<1>6. y = Body(y)
  <2>1. ASSUME NEW k \in 0 .. n
        PROVE  y[k] = IF k = 0 THEN 0 ELSE End(s, Begin(s, y[k - 1] + 1))
    <3>1. CASE k = 0
      BY <1>5, <3>1 DEF IsLoop
    <3>2. CASE k # 0
      <4>1. k \in 1 .. n /\ k - 1 \in 0 .. n
        BY <1>2, <3>2
      <4>2. y[k - 1] \in Nat /\ y[k] = Step[k][y[k - 1]]
        BY <1>5, <4>1 DEF IsLoop
      <4> QED BY <3>2, <4>1, <4>2
    <3> QED BY <3>1, <3>2
  <2> QED BY <2>1
<1> DEFINE z == CHOOSE z : z = Body(z)
<1>7. z = Body(z)
  BY <1>6
<1> HIDE DEF z
<1>8. z[0] = 0
  <2>1. 0 \in 0 .. n
    BY <1>2
  <2> QED BY <1>7, <2>1
<1>9. ASSUME NEW k \in 1 .. n PROVE z[k] = End(s, Begin(s, z[k - 1] + 1))
  <2>1. k \in 0 .. n /\ k # 0
    BY <1>2
  <2> QED BY <1>7, <2>1
<1> DEFINE S == {k \in 0 .. n : z[k] \in Nat}
<1>10. 0 \in S
  <2>1. 0 \in 0 .. n
    BY <1>2
  <2> QED BY <1>8, <2>1
<1>11. ASSUME NEW k \in 1 .. n, k - 1 \in S PROVE k \in S
  <2>1. k \in 0 .. n /\ z[k - 1] \in Nat
    BY <1>2, <1>11
  <2> QED BY <1>3, <1>9, <2>1
<1> HIDE DEF S
<1>12. \A k \in 0 .. n : k \in S
  BY <1>2, <1>10, <1>11, UpTo
<1>13. ASSUME NEW k \in 1 .. n PROVE z[k - 1] \in Nat
  <2>1. k - 1 \in 0 .. n
    BY <1>2
  <2> QED BY <1>12, <2>1 DEF S
<1> QED BY <1>1, <1>8, <1>9, <1>13 DEF n, z

LEMMA Shift ==
  \A a \in Nat, l \in Nat : \A j \in (a + 1) .. (a + l) : j - a \in 1 .. l /\ a + (j - a) = j
OBVIOUS

\* strtok finds in the text of a list the items it was made of.
LEMMA TokensAreItems ==
  ASSUME NEW items \in Seq(Seq(ValueChar)), Plain(items)
  PROVE  Tokens(ListText(items)) = items
<1> DEFINE m == Len(items)
           s == ListText(items)
<1>1. PICK L \in [0 .. m -> Nat] :
           /\ s \in Seq(ValueChar) /\ Len(s) + 1 = L[m]
           /\ Places(L, items)
           /\ \A h \in 1 .. m : \A j \in 1 .. Len(items[h]) : s[L[h - 1] + j] = items[h][j]
           /\ \A h \in 1 .. m - 1 : s[L[h]] = Semicolon
  BY ListTextLaid DEF Plain
<1>2. m \in Nat /\ m >= 1 /\ DOMAIN items = 1 .. m
  BY EmptySeq, LenProperties DEF Plain
<1>3. ASSUME NEW k \in 1 .. m
      PROVE  /\ items[k] \in Seq(ValueChar) /\ Len(items[k]) \in Nat /\ Len(items[k]) >= 1
             /\ \A j \in 1 .. Len(items[k]) : items[k][j] \notin Separators
  <2>1. items[k] \in Seq(ValueChar) /\ items[k] # <<>> /\ Range(items[k]) \cap Separators = {}
    BY <1>2, ElementOfSeq DEF Plain
  <2>2. Len(items[k]) \in Nat /\ Len(items[k]) >= 1 /\ DOMAIN items[k] = 1 .. Len(items[k])
    BY <2>1, EmptySeq, LenProperties
  <2>3. \A j \in 1 .. Len(items[k]) : items[k][j] \in Range(items[k])
    BY <2>2 DEF Range
  <2> QED BY <2>1, <2>2, <2>3
<1>4. s \in Seq(ValueChar) /\ Len(s) \in Nat
  BY <1>1, LenProperties
<1> HIDE DEF s, m
<1>5. \A k \in 0 .. m : L[k] \in Nat
  BY <1>1
<1>6. ASSUME NEW k \in 1 .. m
      PROVE  /\ k - 1 \in 0 .. m /\ k \in 0 .. m /\ L[k - 1] \in Nat /\ L[k] \in Nat
             /\ L[k] = L[k - 1] + Len(items[k]) + 1 /\ L[k] <= Len(s) + 1
  <2>1. k - 1 \in 0 .. m /\ k \in 0 .. m /\ m \in 0 .. m
    BY <1>2
  <2>2. L[k] = L[k - 1] + Len(items[k]) + 1 /\ L[k] <= L[m]
    BY <1>1, <2>1 DEF Places, m
  <2> QED BY <1>1, <1>5, <2>1, <2>2
<1>7. ASSUME NEW k \in 1 .. m, NEW j \in L[k - 1] + 1 .. L[k] - 1
      PROVE  j \in 1 .. Len(s) /\ s[j] = items[k][j - L[k - 1]] /\ s[j] \notin Separators
  <2> DEFINE a == L[k - 1]
             l == Len(items[k])
             i == j - L[k - 1]
  <2>1. a \in Nat /\ l \in Nat /\ L[k] = a + l + 1 /\ L[k] \in Nat /\ L[k] <= Len(s) + 1
    BY <1>3, <1>6
  <2>2. j \in a + 1 .. L[k] - 1
    OBVIOUS
  <2> HIDE DEF a, l
  <2>3. j \in (a + 1) .. (a + l) /\ j \in 1 .. Len(s)
    BY <1>4, <2>1, <2>2
  <2>4. j - a \in 1 .. l /\ a + (j - a) = j
    BY <2>1, <2>3, Shift
  <2>5. i \in 1 .. Len(items[k]) /\ L[k - 1] + i = j
    BY <2>4 DEF a, l
  <2> HIDE DEF i
  <2>6. s[j] = items[k][i] /\ items[k][i] \notin Separators
    BY <1>1, <1>3, <2>5
  <2> QED BY <2>3, <2>6 DEF i
<1>8. ASSUME NEW k \in 1 .. m
      PROVE  /\ L[k - 1] + 1 \in 1 .. Len(s) /\ L[k - 1] + 1 \in L[k - 1] + 1 .. L[k] - 1
             /\ L[k] \in L[k - 1] + 1 .. Len(s) + 1
  <2> DEFINE a == L[k - 1]
             b == L[k]
             l == Len(items[k])
  <2>1. a \in Nat /\ b \in Nat /\ l \in Nat /\ b = a + l + 1 /\ l >= 1 /\ b <= Len(s) + 1
    BY <1>3, <1>6
  <2> HIDE DEF a, b, l
  <2>2. a + 1 \in 1 .. Len(s) /\ a + 1 \in a + 1 .. b - 1 /\ b \in a + 1 .. Len(s) + 1
    BY <1>4, <2>1
  <2> QED BY <2>2 DEF a, b
<1>9. ASSUME NEW k \in 1 .. m PROVE Begin(s, L[k - 1] + 1) = L[k - 1] + 1
  BY <1>4, <1>7, <1>8, BeginAt
<1>10. ASSUME NEW k \in 1 .. m PROVE End(s, L[k - 1] + 1) = L[k]
  <2>1. L[k] = Len(s) + 1 \/ s[L[k]] \in Separators
    <3>1. CASE k = m
      BY <1>1, <3>1
    <3>2. CASE k # m
      <4>1. k \in 1 .. m - 1
        BY <1>2, <3>2
      <4>2. s[L[k]] = Semicolon
        BY <1>1, <4>1
      <4> QED BY <4>2 DEF Semicolon, Separators
    <3> QED BY <3>1, <3>2
  <2>2. L[k - 1] + 1 \in Nat
    BY <1>6
  <2>3. \A j \in L[k - 1] + 1 .. L[k] - 1 : s[j] \notin Separators
    BY <1>7
  <2> QED BY <1>4, <1>8, <2>1, <2>2, <2>3, EndAt
<1>11. m <= Len(s)
  <2> DEFINE S == {k \in 0 .. m : L[k] >= 2 * k}
  <2>1. 0 \in S
    BY <1>1, <1>2 DEF Places
  <2>2. ASSUME NEW k \in 1 .. m, k - 1 \in S PROVE k \in S
    <3>1. L[k - 1] >= 2 * (k - 1) /\ L[k - 1] \in Nat /\ Len(items[k]) \in Nat /\ Len(items[k]) >= 1
      BY <1>3, <1>6, <2>2
    <3>2. L[k] = L[k - 1] + Len(items[k]) + 1 /\ k \in 0 .. m
      BY <1>6
    <3>3. L[k] >= 2 * k
      BY <3>1, <3>2
    <3> QED BY <3>2, <3>3
  <2> HIDE DEF S
  <2>3. \A k \in 0 .. m : k \in S
    BY <1>2, <2>1, <2>2, UpTo
  <2>4. m \in S
    BY <1>2, <2>3
  <2>5. L[m] >= 2 * m
    BY <2>4 DEF S
  <2> QED BY <1>1, <1>2, <1>4, <2>5
<1> DEFINE z == Ends(s)
           n == Len(s)
<1>12. z[0] = 0 /\ \A k \in 1 .. n : z[k] = End(s, Begin(s, z[k - 1] + 1))
  BY <1>4, EndsLoop
<1>13. n \in Nat /\ m <= n
  BY <1>4, <1>11
<1> HIDE DEF z
<1>14. ASSUME NEW k \in 0 .. m PROVE z[k] = L[k]
  <2> DEFINE S == {j \in 0 .. m : z[j] = L[j]}
  <2>1. 0 \in S
    <3>1. 0 \in 0 .. m /\ L[0] = 0
      BY <1>1, <1>2 DEF Places
    <3> QED BY <1>12, <3>1
  <2>2. ASSUME NEW j \in 1 .. m, j - 1 \in S PROVE j \in S
    <3>1. z[j - 1] = L[j - 1] /\ j \in 0 .. m /\ j \in 1 .. n
      BY <1>2, <1>13, <2>2
    <3>2. z[j] = End(s, Begin(s, L[j - 1] + 1))
      BY <1>12, <3>1
    <3> QED BY <1>9, <1>10, <3>1, <3>2
  <2> HIDE DEF S
  <2>3. \A j \in 0 .. m : j \in S
    BY <1>2, <2>1, <2>2, UpTo
  <2> QED BY <2>3 DEF S
<1>15. ASSUME NEW k \in 1 .. m PROVE Begin(s, z[k - 1] + 1) = L[k - 1] + 1
  BY <1>6, <1>9, <1>14
<1>16. ASSUME NEW k \in 0 .. n, k >= m PROVE z[k] = n + 1
  <2> DEFINE S == {j \in 0 .. n : j >= m => z[j] = n + 1}
  <2>1. 0 \in S
    BY <1>2, <1>13
  <2>2. ASSUME NEW j \in 1 .. n, j - 1 \in S PROVE j \in S
    <3>1. CASE j < m
      BY <1>2, <1>13, <3>1
    <3>2. CASE j = m
      <4>1. z[j] = L[m]
        BY <1>2, <1>14, <3>2
      <4> QED BY <1>1, <4>1
    <3>3. CASE j > m
      <4>1. j - 1 >= m
        BY <1>2, <1>13, <3>3
      <4>2. z[j - 1] = n + 1
        BY <2>2, <4>1
      <4>3. Begin(s, n + 1 + 1) = n + 1
        <5>1. n + 1 + 1 \in Nat /\ n + 1 + 1 > Len(s)
          BY <1>13
        <5> QED BY <1>4, <5>1, Behind
      <4>4. End(s, n + 1) = n + 1
        <5>1. n + 1 \in Nat /\ n + 1 \in n + 1 .. Len(s) + 1 /\ ~ \E i \in n + 1 .. n + 1 - 1 : TRUE
          BY <1>13
        <5> QED BY <1>4, <5>1, EndAt
      <4>5. z[j] = n + 1
        BY <1>12, <4>2, <4>3, <4>4
      <4> QED BY <4>5
    <3> QED BY <1>2, <1>13, <3>1, <3>2, <3>3
  <2> HIDE DEF S
  <2>3. \A j \in 0 .. n : j \in S
    BY <1>13, <2>1, <2>2, UpTo
  <2> QED BY <1>16, <2>3 DEF S
<1>17. ASSUME NEW k \in 1 .. n, k > m PROVE Begin(s, z[k - 1] + 1) = n + 1
  <2>1. k - 1 \in 0 .. n /\ k - 1 >= m
    BY <1>2, <1>13, <1>17
  <2>2. z[k - 1] = n + 1
    BY <1>16, <2>1
  <2>3. n + 1 + 1 \in Nat /\ n + 1 + 1 > Len(s)
    BY <1>13
  <2> QED BY <1>4, <2>2, <2>3, Behind
<1>18. \A k \in 1 .. n : Begins(s)[k] = Begin(s, z[k - 1] + 1)
  BY DEF Begins, z
<1>19. {k \in 1 .. n : Begins(s)[k] <= n} = 1 .. m
  <2>1. ASSUME NEW k \in 1 .. m PROVE k \in 1 .. n /\ Begins(s)[k] <= n
    <3>1. k \in 1 .. n
      BY <1>2, <1>13
    <3> QED BY <1>8, <1>15, <1>18, <3>1
  <2>2. ASSUME NEW k \in 1 .. n, Begins(s)[k] <= n PROVE k \in 1 .. m
    <3>1. ~ (k > m)
      <4>1. SUFFICES ASSUME k > m PROVE FALSE
        OBVIOUS
      <4>2. Begins(s)[k] = n + 1
        BY <1>17, <1>18, <4>1
      <4> QED BY <1>13, <2>2, <4>2
    <3> QED BY <1>2, <3>1
  <2> QED BY <2>1, <2>2
<1>20. Cardinality({k \in 1 .. n : Begins(s)[k] <= n}) = m
  <2>1. Cardinality(1 .. m) = m
    BY <1>2, FS_Interval
  <2> QED BY <1>19, <2>1
<1>21. ASSUME NEW k \in 1 .. m PROVE SubSeq(s, Begins(s)[k], Ends(s)[k] - 1) = items[k]
  <2> DEFINE a == L[k - 1]
             b == L[k]
             x == items[k]
  <2>1. k \in 1 .. n /\ k \in 0 .. m
    BY <1>2, <1>13
  <2>2. Begins(s)[k] = a + 1 /\ Ends(s)[k] = b
    BY <1>14, <1>15, <1>18, <2>1 DEF z
  <2>3. a \in Nat /\ b \in Nat /\ x \in Seq(ValueChar) /\ Len(x) \in Nat /\ Len(x) >= 1 /\ b = a + Len(x) + 1
    BY <1>3, <1>6
  <2>4. \A j \in a + 1 .. b - 1 : s[j] = x[j - a] /\ s[j] \in ValueChar
    BY <1>4, <1>7, ElementOfSeq
  <2> HIDE DEF a, b, x
  <2>5. a + 1 \in Int /\ b - 1 \in Int /\ a + 1 <= b - 1 /\ (b - 1) - (a + 1) + 1 = Len(x)
    BY <2>3
  <2> DEFINE t == SubSeq(s, a + 1, b - 1)
  <2>6. /\ t \in Seq(ValueChar)
        /\ Len(t) = IF a + 1 <= b - 1 THEN (b - 1) - (a + 1) + 1 ELSE 0
        /\ \A i \in 1 .. (b - 1) - (a + 1) + 1 : t[i] = s[(a + 1) + i - 1]
    BY <2>4, <2>5, SubSeqProperties
  <2> HIDE DEF t
  <2>7. Len(t) = Len(x)
    BY <2>5, <2>6
  <2>8. ASSUME NEW i \in 1 .. Len(t) PROVE t[i] = x[i]
    <3>1. (a + 1) + i - 1 \in a + 1 .. b - 1 /\ ((a + 1) + i - 1) - a = i
      BY <2>3, <2>7
    <3>2. t[i] = s[(a + 1) + i - 1]
      BY <2>5, <2>6, <2>7
    <3>3. s[(a + 1) + i - 1] = x[((a + 1) + i - 1) - a]
      BY <2>4, <3>1
    <3> QED BY <3>1, <3>2, <3>3
  <2>9. t = x
    BY <2>3, <2>6, <2>7, <2>8, SeqEqual
  <2> QED BY <2>2, <2>9 DEF t, x
<1>22. Tokens(s) = [k \in 1 .. m |-> SubSeq(s, Begins(s)[k], Ends(s)[k] - 1)]
  BY <1>20, Zenon DEF Tokens
<1>23. items = [k \in 1 .. m |-> items[k]]
  BY <1>2, LenProperties DEF m
<1> QED BY <1>21, <1>22, <1>23 DEF s

LEMMA ListTextIsText ==
  ASSUME NEW items \in Seq(Seq(ValueChar)), items # <<>>
  PROVE  ListText(items) \in Seq(ValueChar)
BY ListTextLaid

\* A list is read as it was set.
LEMMA ListIsRead ==
  ASSUME NEW ctx \in Seq(Parameter), NEW n \in Names, NEW i \in Indices,
         NEW items \in Lists, Plain(items)
  PROVE  GetListParam(Stored(ctx, n, i, ListText(items)), n, i) = {items}
<1> DEFINE t == ListText(items)
<1>1. items \in Seq(Seq(ValueChar)) /\ items # <<>>
  BY ListsAreText DEF Plain
<1>2. t \in Seq(ValueChar) /\ Tokens(t) = items
  BY <1>1, ListTextIsText, TokensAreItems
<1> HIDE DEF t
<1>3. GetStringParam(Stored(ctx, n, i, t), n, i) = {t}
  BY <1>2, SetIsRead
<1>4. GetListParam(Stored(ctx, n, i, t), n, i) = {Tokens(t)}
  BY <1>3 DEF GetListParam
<1> QED BY <1>2, <1>4 DEF t

-----------------------------------------------------------------------------
(***************************************************************************)
(* What LoadConfig takes from the lines of any file.                       *)
(***************************************************************************)
LEMMA Capacity ==
  /\ MaxLine - 1 \in Nat /\ MaxLine - 1 >= 7 /\ MaxLine - 1 >= MaxNamLen + 6
  /\ MaxNamLen \in Nat /\ MaxParam \in Nat
BY BoundsAssumption

LEMMA Characters ==
  /\ TypeChar \subseteq Char /\ ValueChar \subseteq Char
  /\ Char \ (Space \cup {SEP}) = TypeChar /\ Char \ {Newline} = ValueChar
  /\ Newline \in Space /\ Newline \in Char /\ SEP \in Char /\ 32 \in Char /\ 32 \in Space
  /\ SEP \notin Space /\ Newline # 32 /\ Newline # SEP /\ 32 # SEP
  /\ Semicolon \notin Space /\ Semicolon # SEP /\ Semicolon \in Char
  /\ Padding = Space \cup {SEP}
BY DEF TypeChar, ValueChar, Char, Newline, SEP, Space, Semicolon, Padding

\* The name and the value found in what fgets read.
LEMMA FoundIn ==
  ASSUME NEW p \in Seq(Char)
  PROVE  /\ NameBegins(p) \in Nat /\ NameEnds(p) \in Nat /\ NameEnds(p) <= Len(p) + 1
         /\ ValueBegins(p) \in Nat /\ ValueEnds(p) \in Nat /\ ValueEnds(p) <= Len(p) + 1
         /\ NameIn(p) \in Seq(TypeChar) /\ ValueIn(p) \in Seq(ValueChar)
<1> DEFINE b == NameBegins(p)
           e == NameEnds(p)
           v == ValueBegins(p)
           w == ValueEnds(p)
<1>1. Len(p) \in Nat /\ \A j \in 1 .. Len(p) : p[j] \in Char
  BY LenProperties, ElementOfSeq
<1>2. b \in Nat /\ b >= 1
  <2>1. Over(p, 1, Space) \in Nat
        /\ (Over(p, 1, Space) = Len(p) + 1 \/ Over(p, 1, Space) \in 1 .. Len(p))
    BY OverEnds
  <2> QED BY <1>1, <2>1 DEF NameBegins
<1> HIDE DEF b
<1>3. /\ e \in Nat /\ e <= Len(p) + 1
      /\ e = Len(p) + 1 \/ e \in b .. Len(p)
      /\ \A j \in b .. Len(p) : j < e => p[j] \notin Space \cup {SEP}
  BY <1>2, UntilEnds DEF NameEnds, b
<1> HIDE DEF e
<1>4. v \in Nat /\ v >= 1
  <2>1. e + 1 \in Nat /\ e + 1 >= 1
    BY <1>3
  <2> DEFINE o == Over(p, e + 1, Space \cup {SEP})
  <2>2. o \in Nat /\ (o = Len(p) + 1 \/ o \in e + 1 .. Len(p))
    BY <2>1, OverEnds
  <2>3. v = o
    BY DEF ValueBegins, e
  <2> HIDE DEF o, v
  <2> QED BY <1>1, <2>1, <2>2, <2>3
<1> HIDE DEF v
<1>5. /\ w \in Nat /\ w <= Len(p) + 1
      /\ \A j \in v .. Len(p) : j < w => p[j] \notin {Newline}
  BY <1>4, UntilEnds DEF ValueEnds, v
<1> HIDE DEF w
<1>6. NameIn(p) \in Seq(TypeChar)
  <2>1. ASSUME NEW j \in b .. e - 1 PROVE p[j] \in TypeChar
    <3>1. j \in b .. Len(p) /\ j \in 1 .. Len(p) /\ j < e
      BY <1>1, <1>2, <1>3
    <3> QED BY <1>1, <1>3, <3>1, Characters
  <2>2. b \in Int /\ e - 1 \in Int
    BY <1>2, <1>3
  <2>3. SubSeq(p, b, e - 1) \in Seq(TypeChar)
    BY <2>1, <2>2, SubSeqProperties
  <2> QED BY <2>3 DEF NameIn, b, e
<1>7. ValueIn(p) \in Seq(ValueChar)
  <2>1. ASSUME NEW j \in v .. w - 1 PROVE p[j] \in ValueChar
    <3>1. j \in v .. Len(p) /\ j \in 1 .. Len(p) /\ j < w
      BY <1>1, <1>4, <1>5
    <3> QED BY <1>1, <1>5, <3>1, Characters
  <2>2. v \in Int /\ w - 1 \in Int
    BY <1>4, <1>5
  <2>3. SubSeq(p, v, w - 1) \in Seq(ValueChar)
    BY <2>1, <2>2, SubSeqProperties
  <2> QED BY <2>3 DEF ValueIn, v, w
<1> QED BY <1>2, <1>3, <1>4, <1>5, <1>6, <1>7 DEF b, e, v, w

\* The tables that can come of a file.
FreshTables ==
  {ctx \in Seq(Parameter) :
     /\ Len(ctx) <= MaxParam
     /\ \A k \in 1 .. Len(ctx) : Len(ctx[k].type) <= MaxNamLen + 5 /\ ctx[k].path = NoPath}

LEMMA TakenType ==
  ASSUME NEW ctxs \in SUBSET FreshTables, NEW p \in Seq(Char)
  PROVE  Taken(ctxs, p) \in SUBSET FreshTables
<1>1. CASE ~ IsParameter(p)
  BY <1>1 DEF Taken
<1>2. CASE IsParameter(p)
  <2> DEFINE e == Entry(NameIn(p), ValueIn(p))
  <2>1. ASSUME NEW ctx \in ctxs, Len(ctx) < MaxParam, IsComplete(p)
        PROVE  Append(ctx, e) \in FreshTables
    <3>1. e \in Parameter
      BY FoundIn, EntryType
    <3>2. Len(NameIn(p)) \in Nat /\ Len(NameIn(p)) <= MaxNamLen + 5
      <4>1. Len(NameIn(p)) \in Nat
        BY FoundIn, LenProperties
      <4>2. Len(NameIn(p)) <= MaxNamLen
        BY <2>1 DEF IsComplete
      <4> HIDE DEF e
      <4> QED BY <4>1, <4>2, Capacity
    <3>3. e.type = NameIn(p) /\ e.path = NoPath
      BY DEF Entry
    <3>4. /\ ctx \in Seq(Parameter) /\ Len(ctx) \in Nat
          /\ \A k \in 1 .. Len(ctx) : Len(ctx[k].type) <= MaxNamLen + 5 /\ ctx[k].path = NoPath
      BY LenProperties DEF FreshTables
    <3> HIDE DEF e
    <3>5. /\ Append(ctx, e) \in Seq(Parameter) /\ Len(Append(ctx, e)) = Len(ctx) + 1
          /\ \A k \in 1 .. Len(ctx) : Append(ctx, e)[k] = ctx[k]
          /\ Append(ctx, e)[Len(ctx) + 1] = e
      BY <3>1, <3>4, AppendProperties
    <3> DEFINE new == Append(ctx, e)
    <3>6. Len(new) <= MaxParam
      BY <2>1, <3>4, <3>5, Capacity
    <3>7. ASSUME NEW k \in 1 .. Len(new)
          PROVE  Len(new[k].type) <= MaxNamLen + 5 /\ new[k].path = NoPath
      <4>1. CASE k = Len(ctx) + 1
        BY <3>2, <3>3, <3>5, <4>1
      <4>2. CASE k # Len(ctx) + 1
        <5>1. k \in 1 .. Len(ctx)
          BY <3>4, <3>5, <4>2
        <5> QED BY <3>4, <3>5, <5>1
      <4> QED BY <4>1, <4>2
    <3> QED BY <3>5, <3>6, <3>7 DEF FreshTables
  <2> QED BY <1>2, <2>1 DEF Taken
<1> QED BY <1>1, <1>2

\* fgets never reads beyond the line.
LEMMA Times ==
  ASSUME NEW n \in Nat, NEW w \in Nat
  PROVE  n * w \in Nat
OBVIOUS

LEMMA AtLeastOnce ==
  ASSUME NEW n \in Nat, NEW w \in Nat, w >= 1
  PROVE  n <= n * w
<1>1. n * w = n * (w - 1) + n
  OBVIOUS
<1>2. n * (w - 1) \in Nat
  BY Times
<1> QED BY <1>1, <1>2

LEMMA PieceType ==
  ASSUME NEW line \in Seq(Char)
  PROVE  /\ Calls(line) \in Nat
         /\ \A n \in 1 .. Calls(line) : Piece(line, n) \in Seq(Char)
<1> DEFINE w == MaxLine - 1
           P == {n \in 0 .. Len(line) : Len(line) <= n * w}
<1>1. Len(line) \in Nat /\ w \in Nat /\ w >= 1
  BY LenProperties, Capacity
<1>2. Calls(line) \in Nat
  <2>1. Len(line) \in P
    BY <1>1, AtLeastOnce
  <2>2. P \in SUBSET Nat
    BY <1>1
  <2>3. Calls(line) = Min(P)
    BY DEF Calls
  <2> HIDE DEF P
  <2> QED BY <2>1, <2>2, <2>3, MinOf
<1>3. ASSUME NEW n \in 1 .. Calls(line) PROVE Piece(line, n) \in Seq(Char)
  <2> DEFINE a == (n - 1) * w
             z == Min({n * w, Len(line)})
  <2>1. n \in Nat /\ n - 1 \in Nat
    BY <1>2
  <2>2. a \in Nat /\ n * w \in Nat
    BY <1>1, <2>1, Times
  <2>3. z \in Nat /\ z <= Len(line)
    <3>1. {n * w, Len(line)} \in SUBSET Nat /\ {n * w, Len(line)} # {}
      BY <1>1, <2>2
    <3> QED BY <1>1, <3>1, MinOf
  <2>4. Piece(line, n) = SubSeq(line, a + 1, z)
    BY DEF Piece
  <2> HIDE DEF a, z
  <2>5. ASSUME NEW j \in a + 1 .. z PROVE line[j] \in Char
    <3>1. j \in 1 .. Len(line)
      BY <1>1, <2>2, <2>3
    <3> QED BY <3>1, ElementOfSeq
  <2>6. a + 1 \in Int /\ z \in Int
    BY <2>2, <2>3
  <2> QED BY <2>4, <2>5, <2>6, SubSeqProperties
<1> QED BY <1>2, <1>3

\* The calls of fgets for one line, one after the other.
LineRound(got, ctxs, line) ==
  /\ got[0] = ctxs
  /\ \A n \in 1 .. Calls(line) : got[n] = Taken(got[n - 1], Piece(line, n))

LEMMA LineLoop ==
  ASSUME NEW ctxs \in SUBSET FreshTables, NEW line \in Seq(Char)
  PROVE  \E got \in [0 .. Calls(line) -> SUBSET FreshTables] :
           LineRound(got, ctxs, line) /\ LineRead(ctxs, line) = got[Calls(line)]
<1> DEFINE c == Calls(line)
           A == SUBSET FreshTables
           Body(z) == [n \in 0 .. c |-> IF n = 0 THEN ctxs ELSE Taken(z[n - 1], Piece(line, n))]
           Step == [n \in 1 .. c |-> [x \in A |-> Taken(x, Piece(line, n))]]
<1>1. LineRead(ctxs, line) = (CHOOSE z : z = Body(z))[c]
  BY Zenon DEF LineRead
<1>2. c \in Nat /\ \A n \in 1 .. c : Piece(line, n) \in Seq(Char)
  BY PieceType
<1>3. ASSUME NEW n \in 1 .. c, NEW x \in A PROVE Taken(x, Piece(line, n)) \in A
  BY <1>2, TakenType
<1>4. ctxs \in A
  OBVIOUS
<1> HIDE DEF c, A
<1>5. Step \in [1 .. c -> [A -> A]]
  BY <1>3
<1>6. PICK y \in [0 .. c -> A] : IsLoop(y, c, ctxs, Step)
  <2> HIDE DEF Step
  <2> QED BY <1>2, <1>4, <1>5, LoopExists
<1>7. y = Body(y)
  <2>1. ASSUME NEW n \in 0 .. c
        PROVE  y[n] = IF n = 0 THEN ctxs ELSE Taken(y[n - 1], Piece(line, n))
    <3>1. CASE n = 0
      BY <1>6, <3>1 DEF IsLoop
    <3>2. CASE n # 0
      <4>1. n \in 1 .. c /\ n - 1 \in 0 .. c
        BY <1>2, <3>2
      <4>2. y[n - 1] \in A /\ y[n] = Step[n][y[n - 1]]
        BY <1>6, <4>1 DEF IsLoop
      <4> QED BY <3>2, <4>1, <4>2
    <3> QED BY <3>1, <3>2
  <2> QED BY <2>1
<1> DEFINE z == CHOOSE z : z = Body(z)
<1>8. z = Body(z)
  BY <1>7
<1> HIDE DEF z
<1>9. z[0] = ctxs /\ \A n \in 1 .. c : z[n] = Taken(z[n - 1], Piece(line, n))
  <2>1. 0 \in 0 .. c
    BY <1>2
  <2>2. z[0] = ctxs
    BY <1>8, <2>1
  <2>3. ASSUME NEW n \in 1 .. c PROVE z[n] = Taken(z[n - 1], Piece(line, n))
    <3>1. n \in 0 .. c /\ n # 0
      BY <1>2
    <3> QED BY <1>8, <3>1
  <2> QED BY <2>2, <2>3
<1>10. z \in [0 .. c -> A]
  <2> DEFINE S == {n \in 0 .. c : z[n] \in A}
  <2>1. 0 \in S
    <3>1. 0 \in 0 .. c
      BY <1>2
    <3> QED BY <1>4, <1>9, <3>1
  <2>2. ASSUME NEW n \in 1 .. c, n - 1 \in S PROVE n \in S
    <3>1. n \in 0 .. c /\ z[n - 1] \in A
      BY <1>2, <2>2
    <3>2. z[n] = Taken(z[n - 1], Piece(line, n))
      BY <1>9
    <3> QED BY <1>3, <3>1, <3>2
  <2> HIDE DEF S
  <2>3. \A n \in 0 .. c : n \in S
    BY <1>2, <2>1, <2>2, UpTo
  <2>4. z = [n \in 0 .. c |-> z[n]]
    BY <1>8
  <2> QED BY <2>3, <2>4 DEF S
<1> QED BY <1>1, <1>9, <1>10 DEF LineRound, c, A, z

LEMMA LineReadType ==
  ASSUME NEW ctxs \in SUBSET FreshTables, NEW line \in Seq(Char)
  PROVE  LineRead(ctxs, line) \in SUBSET FreshTables
<1>1. PICK got \in [0 .. Calls(line) -> SUBSET FreshTables] :
         LineRound(got, ctxs, line) /\ LineRead(ctxs, line) = got[Calls(line)]
  BY LineLoop
<1>2. Calls(line) \in 0 .. Calls(line)
  BY PieceType
<1> QED BY <1>1, <1>2

\* The lines, one after the other.
FileRound(got, lines) ==
  /\ got[0] = {<<>>}
  /\ \A k \in 1 .. Len(lines) : got[k] = LineRead(got[k - 1], lines[k])

LEMMA FileLoop ==
  ASSUME NEW lines \in Seq(Seq(Char))
  PROVE  \E got \in [0 .. Len(lines) -> SUBSET FreshTables] :
           FileRound(got, lines) /\ Scanned(lines) = got[Len(lines)]
<1> DEFINE c == Len(lines)
           A == SUBSET FreshTables
           Body(z) == [k \in 0 .. c |-> IF k = 0 THEN {<<>>} ELSE LineRead(z[k - 1], lines[k])]
           Step == [k \in 1 .. c |-> [x \in A |-> LineRead(x, lines[k])]]
<1>1. Scanned(lines) = (CHOOSE z : z = Body(z))[c]
  BY Zenon DEF Scanned
<1>2. c \in Nat /\ \A k \in 1 .. c : lines[k] \in Seq(Char)
  BY LenProperties, ElementOfSeq
<1>3. ASSUME NEW k \in 1 .. c, NEW x \in A PROVE LineRead(x, lines[k]) \in A
  BY <1>2, LineReadType
<1>4. {<<>>} \in A
  <2>1. <<>> \in Seq(Parameter) /\ Len(<<>>) = 0
    BY EmptySeq
  <2>2. <<>> \in FreshTables
    BY <2>1, Capacity DEF FreshTables
  <2> QED BY <2>2
<1> HIDE DEF c, A
<1>5. Step \in [1 .. c -> [A -> A]]
  BY <1>3
<1>6. PICK y \in [0 .. c -> A] : IsLoop(y, c, {<<>>}, Step)
  <2> HIDE DEF Step
  <2> QED BY <1>2, <1>4, <1>5, LoopExists
<1>7. y = Body(y)
  <2>1. ASSUME NEW k \in 0 .. c
        PROVE  y[k] = IF k = 0 THEN {<<>>} ELSE LineRead(y[k - 1], lines[k])
    <3>1. CASE k = 0
      BY <1>6, <3>1 DEF IsLoop
    <3>2. CASE k # 0
      <4>1. k \in 1 .. c /\ k - 1 \in 0 .. c
        BY <1>2, <3>2
      <4>2. y[k - 1] \in A /\ y[k] = Step[k][y[k - 1]]
        BY <1>6, <4>1 DEF IsLoop
      <4> QED BY <3>2, <4>1, <4>2
    <3> QED BY <3>1, <3>2
  <2> QED BY <2>1
<1> DEFINE z == CHOOSE z : z = Body(z)
<1>8. z = Body(z)
  BY <1>7
<1> HIDE DEF z
<1>9. z[0] = {<<>>} /\ \A k \in 1 .. c : z[k] = LineRead(z[k - 1], lines[k])
  <2>1. 0 \in 0 .. c
    BY <1>2
  <2>2. z[0] = {<<>>}
    BY <1>8, <2>1
  <2>3. ASSUME NEW k \in 1 .. c PROVE z[k] = LineRead(z[k - 1], lines[k])
    <3>1. k \in 0 .. c /\ k # 0
      BY <1>2
    <3> QED BY <1>8, <3>1
  <2> QED BY <2>2, <2>3
<1>10. z \in [0 .. c -> A]
  <2> DEFINE S == {k \in 0 .. c : z[k] \in A}
  <2>1. 0 \in S
    <3>1. 0 \in 0 .. c
      BY <1>2
    <3> QED BY <1>4, <1>9, <3>1
  <2>2. ASSUME NEW k \in 1 .. c, k - 1 \in S PROVE k \in S
    <3>1. k \in 0 .. c /\ z[k - 1] \in A
      BY <1>2, <2>2
    <3>2. z[k] = LineRead(z[k - 1], lines[k])
      BY <1>9
    <3> QED BY <1>3, <3>1, <3>2
  <2> HIDE DEF S
  <2>3. \A k \in 0 .. c : k \in S
    BY <1>2, <2>1, <2>2, UpTo
  <2>4. z = [k \in 0 .. c |-> z[k]]
    BY <1>8
  <2> QED BY <2>3, <2>4 DEF S
<1> QED BY <1>1, <1>9, <1>10 DEF FileRound, c, A, z

LEMMA ScannedType ==
  ASSUME NEW lines \in Seq(Seq(Char))
  PROVE  Scanned(lines) \in SUBSET FreshTables
<1>1. PICK got \in [0 .. Len(lines) -> SUBSET FreshTables] :
         FileRound(got, lines) /\ Scanned(lines) = got[Len(lines)]
  BY FileLoop
<1>2. Len(lines) \in 0 .. Len(lines)
  BY LenProperties
<1> QED BY <1>1, <1>2
-----------------------------------------------------------------------------
(***************************************************************************)
(* What LoadConfig takes from the lines that WriteConfig writes.           *)
(***************************************************************************)
\* What four sequences make, one behind the other.
Joined(s, x, y, z, u) ==
  /\ Len(s) = Len(x) + Len(y) + Len(z) + Len(u)
  /\ \A j \in 1 .. Len(x) : s[j] = x[j]
  /\ \A j \in 1 .. Len(y) : s[Len(x) + j] = y[j]
  /\ \A j \in 1 .. Len(z) : s[Len(x) + Len(y) + j] = z[j]
  /\ \A j \in 1 .. Len(u) : s[Len(x) + Len(y) + Len(z) + j] = u[j]

LEMMA FourParts ==
  ASSUME NEW S, NEW x \in Seq(S), NEW y \in Seq(S), NEW z \in Seq(S), NEW u \in Seq(S),
         NEW s, s = x \o y \o z \o u
  PROVE  s \in Seq(S) /\ Joined(s, x, y, z, u)
<1> DEFINE p == x \o y
           q == x \o y \o z
           a == Len(x)
           b == Len(x) + Len(y)
           c == Len(x) + Len(y) + Len(z)
<1>1. Len(x) \in Nat /\ Len(y) \in Nat /\ Len(z) \in Nat /\ Len(u) \in Nat
  BY LenProperties
<1>2. p \in Seq(S) /\ Len(p) = b
      /\ \A i \in 1 .. b : p[i] = IF i <= Len(x) THEN x[i] ELSE y[i - Len(x)]
  BY ConcatProperties
<1> HIDE DEF p
<1>3. q = p \o z /\ s = q \o u
  BY DEF p
<1>4. p \o z \in Seq(S) /\ Len(p \o z) = Len(p) + Len(z)
      /\ \A i \in 1 .. Len(p) + Len(z) : (p \o z)[i] = IF i <= Len(p) THEN p[i] ELSE z[i - Len(p)]
  <2>1. p \in Seq(S)
    BY <1>2
  <2> QED BY <2>1, ConcatProperties
<1> HIDE DEF q
<1>5. q \in Seq(S) /\ Len(q) = c
      /\ \A i \in 1 .. c : q[i] = IF i <= b THEN p[i] ELSE z[i - b]
  BY <1>2, <1>3, <1>4
<1>6. q \o u \in Seq(S) /\ Len(q \o u) = Len(q) + Len(u)
      /\ \A i \in 1 .. Len(q) + Len(u) : (q \o u)[i] = IF i <= Len(q) THEN q[i] ELSE u[i - Len(q)]
  <2>1. q \in Seq(S)
    BY <1>5
  <2> QED BY <2>1, ConcatProperties
<1>7. s \in Seq(S) /\ Len(s) = c + Len(u)
      /\ \A i \in 1 .. c + Len(u) : s[i] = IF i <= c THEN q[i] ELSE u[i - c]
  BY <1>3, <1>5, <1>6
<1>8. ASSUME NEW j \in 1 .. Len(x) PROVE s[j] = x[j]
  <2>1. j \in 1 .. c + Len(u) /\ j <= c /\ j \in 1 .. c /\ j <= b /\ j \in 1 .. b /\ j <= Len(x)
    BY <1>1
  <2> QED BY <1>2, <1>5, <1>7, <2>1
<1>9. ASSUME NEW j \in 1 .. Len(y) PROVE s[a + j] = y[j]
  <2>1. /\ a + j \in 1 .. c + Len(u) /\ a + j <= c /\ a + j \in 1 .. c /\ a + j <= b
        /\ a + j \in 1 .. b /\ ~ (a + j <= Len(x)) /\ (a + j) - Len(x) = j
    BY <1>1
  <2> QED BY <1>2, <1>5, <1>7, <2>1
<1>10. ASSUME NEW j \in 1 .. Len(z) PROVE s[b + j] = z[j]
  <2>1. /\ b + j \in 1 .. c + Len(u) /\ b + j <= c /\ b + j \in 1 .. c /\ ~ (b + j <= b)
        /\ (b + j) - b = j
    BY <1>1
  <2> QED BY <1>5, <1>7, <2>1
<1>11. ASSUME NEW j \in 1 .. Len(u) PROVE s[c + j] = u[j]
  <2>1. c + j \in 1 .. c + Len(u) /\ ~ (c + j <= c) /\ (c + j) - c = j
    BY <1>1
  <2> QED BY <1>7, <2>1
<1> QED BY <1>7, <1>8, <1>9, <1>10, <1>11 DEF Joined

\* The entries that AllOrNothing is about.
Writable(e) ==
  /\ e.type \in Seq(TypeChar) /\ e.value \in Seq(ValueChar) /\ Len(e.type) <= MaxNamLen + 5
  /\ e.type = <<>> \/ e.type[1] # Semicolon

\* The characters of such a line, with a name of t characters and a value of v.
Spread(s, e, t, v) ==
  /\ t = Len(e.type) /\ v = Len(e.value) /\ t \in Nat /\ v \in Nat
  /\ s \in Seq(Char) /\ Len(s) = t + v + 4
  /\ \A j \in 1 .. t : s[j] = e.type[j] /\ s[j] \in TypeChar
  /\ s[t + 1] = 32 /\ s[t + 2] = SEP /\ s[t + 3] = 32
  /\ \A j \in 1 .. v : s[t + 3 + j] = e.value[j] /\ s[t + 3 + j] # Newline
  /\ s[t + v + 4] = Newline

LEMMA LineSpread ==
  ASSUME NEW e, Writable(e)
  PROVE  \E t \in Nat, v \in Nat : Spread(Line(e), e, t, v)
<1> DEFINE t == Len(e.type)
           v == Len(e.value)
           x == e.type
           y == <<32, SEP, 32>>
           z == e.value
           u == <<Newline>>
           s == Line(e)
<1>1. /\ x \in Seq(Char) /\ z \in Seq(Char) /\ t \in Nat /\ v \in Nat
      /\ \A j \in 1 .. t : x[j] \in TypeChar
      /\ \A j \in 1 .. v : z[j] \in ValueChar
  <2>1. x \in Seq(TypeChar) /\ z \in Seq(ValueChar)
    BY DEF Writable
  <2>2. x \in Seq(Char) /\ z \in Seq(Char)
    BY <2>1, Characters, SeqMonotonic
  <2> QED BY <2>1, <2>2, LenProperties, ElementOfSeq
<1>2. y \in Seq(Char) /\ Len(y) = 3 /\ y[1] = 32 /\ y[2] = SEP /\ y[3] = 32
  BY Characters
<1>3. u \in Seq(Char) /\ Len(u) = 1 /\ u[1] = Newline
  BY Characters
<1>4. s = x \o y \o z \o u /\ Len(x) = t /\ Len(z) = v
  BY DEF Line
<1> HIDE DEF x, y, z, u, s, t, v
<1>5. /\ s \in Seq(Char) /\ Len(s) = Len(x) + Len(y) + Len(z) + Len(u)
      /\ \A j \in 1 .. Len(x) : s[j] = x[j]
      /\ \A j \in 1 .. Len(y) : s[Len(x) + j] = y[j]
      /\ \A j \in 1 .. Len(z) : s[Len(x) + Len(y) + j] = z[j]
      /\ \A j \in 1 .. Len(u) : s[Len(x) + Len(y) + Len(z) + j] = u[j]
  <2>1. x \in Seq(Char) /\ y \in Seq(Char) /\ z \in Seq(Char) /\ u \in Seq(Char)
    BY <1>1, <1>2, <1>3
  <2>2. s \in Seq(Char) /\ Joined(s, x, y, z, u)
    BY <1>4, <2>1, FourParts
  <2> QED BY <2>2 DEF Joined
<1>6. s \in Seq(Char) /\ Len(s) = t + v + 4
  BY <1>1, <1>2, <1>3, <1>4, <1>5
<1>7. \A j \in 1 .. t : s[j] = x[j] /\ s[j] \in TypeChar
  BY <1>1, <1>4, <1>5
<1>8. s[t + 1] = 32 /\ s[t + 2] = SEP /\ s[t + 3] = 32
  <2>1. 1 \in 1 .. Len(y) /\ 2 \in 1 .. Len(y) /\ 3 \in 1 .. Len(y)
    BY <1>2
  <2>2. s[Len(x) + 1] = y[1] /\ s[Len(x) + 2] = y[2] /\ s[Len(x) + 3] = y[3]
    BY <1>5, <2>1
  <2> QED BY <1>2, <1>4, <2>2
<1>9. \A j \in 1 .. v : s[t + 3 + j] = z[j] /\ s[t + 3 + j] # Newline
  BY <1>1, <1>2, <1>4, <1>5, Characters
<1>10. s[t + v + 4] = Newline
  <2>1. s[Len(x) + Len(y) + Len(z) + 1] = Newline
    BY <1>3, <1>5
  <2>2. Len(x) + Len(y) + Len(z) + 1 = t + v + 4
    BY <1>1, <1>2, <1>4
  <2> QED BY <2>1, <2>2
<1>11. Spread(s, e, t, v)
  BY <1>1, <1>6, <1>7, <1>8, <1>9, <1>10 DEF Spread, x, z, t, v
<1> QED BY <1>1, <1>11 DEF s

\* The name is found in any piece from the front that is long enough for it.
LEMMA NameFound ==
  ASSUME NEW e, Writable(e), NEW s, NEW t \in Nat, NEW v \in Nat, Spread(s, e, t, v),
         NEW p \in Seq(Char), Len(p) >= t + 1, Len(p) >= 2, Len(p) <= Len(s),
         \A j \in 1 .. Len(p) : p[j] = s[j]
  PROVE  /\ IsParameter(p) /\ NameIn(p) = e.type
         /\ NameEnds(p) = (IF t = 0 THEN 2 ELSE t + 1)
<1>1. /\ t = Len(e.type) /\ Len(s) = t + v + 4
      /\ \A j \in 1 .. t : s[j] = e.type[j] /\ s[j] \in TypeChar
      /\ s[t + 1] = 32 /\ s[t + 2] = SEP
  BY DEF Spread
<1>2. Len(p) \in Nat /\ p[1] = s[1] /\ p[2] = s[2] /\ p[t + 1] = s[t + 1]
  <2>1. Len(p) \in Nat
    BY LenProperties
  <2>2. 1 \in 1 .. Len(p) /\ 2 \in 1 .. Len(p) /\ t + 1 \in 1 .. Len(p)
    BY <2>1
  <2> QED BY <2>1, <2>2
<1>3. e.type \in Seq(TypeChar) /\ (e.type = <<>> \/ e.type[1] # Semicolon)
  BY DEF Writable
<1> DEFINE C == Space \cup {SEP}
<1>4. CASE t = 0
  <2>1. p[1] = 32 /\ p[2] = SEP /\ e.type = <<>>
    <3>1. e.type = <<>>
      BY <1>1, <1>3, <1>4, EmptySeq
    <3> QED BY <1>1, <1>2, <1>4, <3>1
  <2>2. NameBegins(p) = 2
    <3>1. 2 \in 1 .. Len(p) + 1 /\ \A j \in 1 .. 2 - 1 : p[j] \in Space
      BY <1>2, <2>1, Characters
    <3>2. p[2] \notin Space
      BY <2>1, Characters
    <3> QED BY <3>1, <3>2, OverAt DEF NameBegins
  <2>3. NameEnds(p) = 2
    <3>1. 2 \in 2 .. Len(p) + 1 /\ \A j \in 2 .. 2 - 1 : p[j] \notin C
      BY <1>2
    <3>2. p[2] \in C
      BY <2>1
    <3> HIDE DEF C
    <3>3. Until(p, 2, C) = 2
      BY <3>1, <3>2, UntilAt
    <3> QED BY <2>2, <3>3 DEF NameEnds, C
  <2>4. NameIn(p) = <<>>
    <3>1. SubSeq(p, 2, 2 - 1) = <<>>
      BY SubSeqEmpty
    <3> QED BY <2>2, <2>3, <3>1 DEF NameIn
  <2>5. IsParameter(p)
    <3>1. 32 # Semicolon
      BY DEF Semicolon
    <3> QED BY <1>2, <2>1, <2>3, <3>1 DEF IsParameter
  <2> QED BY <1>4, <2>1, <2>3, <2>4, <2>5
<1>5. CASE t # 0
  <2>1. ASSUME NEW j \in 1 .. t
        PROVE  p[j] = e.type[j] /\ p[j] \notin Space \cup {SEP} /\ p[j] \in TypeChar
    <3>1. j \in 1 .. Len(p)
      BY <1>2
    <3> QED BY <1>1, <3>1 DEF TypeChar
  <2>2. 1 \in 1 .. t
    BY <1>5
  <2>3. NameBegins(p) = 1
    <3>1. 1 \in 1 .. Len(p) + 1 /\ \A j \in 1 .. 1 - 1 : p[j] \in Space
      BY <1>2
    <3>2. p[1] \notin Space
      BY <2>1, <2>2
    <3> QED BY <3>1, <3>2, OverAt DEF NameBegins
  <2>4. NameEnds(p) = t + 1
    <3>1. t + 1 \in 1 .. Len(p) + 1 /\ \A j \in 1 .. (t + 1) - 1 : p[j] \notin C
      BY <1>2, <2>1
    <3>2. p[t + 1] \in C
      BY <1>1, <1>2, Characters
    <3> HIDE DEF C
    <3>3. Until(p, 1, C) = t + 1
      BY <3>1, <3>2, UntilAt
    <3> QED BY <2>3, <3>3 DEF NameEnds, C
  <2>5. NameIn(p) = e.type
    <3>1. \A j \in 1 .. t : p[j] \in TypeChar
      BY <2>1
    <3> DEFINE n == SubSeq(p, 1, t)
    <3>2. /\ n \in Seq(TypeChar) /\ Len(n) = (IF 1 <= t THEN t - 1 + 1 ELSE 0)
          /\ \A i \in 1 .. t - 1 + 1 : n[i] = p[1 + i - 1]
      BY <3>1, SubSeqProperties
    <3> HIDE DEF n
    <3>3. Len(n) = t /\ \A i \in 1 .. t : n[i] = p[i]
      BY <1>5, <3>2
    <3>4. n = e.type
      BY <1>1, <1>3, <2>1, <3>2, <3>3, SeqEqual
    <3>5. (t + 1) - 1 = t
      OBVIOUS
    <3> QED BY <2>3, <2>4, <3>4, <3>5 DEF NameIn, n
  <2>6. IsParameter(p)
    <3>1. p[1] # Semicolon
      BY <1>1, <1>3, <1>5, <2>1, <2>2, EmptySeq
    <3> QED BY <1>2, <2>4, <3>1 DEF IsParameter
  <2> QED BY <1>5, <2>4, <2>5, <2>6
<1> QED BY <1>4, <1>5

\* In a piece without its '\n', the parameter is not complete.
LEMMA CutIsIncomplete ==
  ASSUME NEW p \in Seq(Char), \A j \in 1 .. Len(p) : p[j] # Newline
  PROVE  ~ IsComplete(p)
<1> DEFINE b == ValueBegins(p)
           w == ValueEnds(p)
<1>1. Len(p) \in Nat /\ NameEnds(p) + 1 \in Nat /\ NameEnds(p) + 1 >= 1
  BY LenProperties, FoundIn
<1> DEFINE i == NameEnds(p) + 1
           C == Space \cup {SEP}
<1>2. i \in Nat /\ i >= 1
  BY <1>1
<1>3. b = Over(p, i, C)
  BY DEF ValueBegins
<1> HIDE DEF i, C, b
<1>4. b \in Nat /\ b >= 1
  <2>1. Over(p, i, C) \in Nat /\ (Over(p, i, C) = Len(p) + 1 \/ Over(p, i, C) \in i .. Len(p))
    BY <1>2, OverEnds
  <2> QED BY <1>1, <1>2, <1>3, <2>1
<1>5. w = Len(p) + 1 \/ (w \in b .. Len(p) /\ p[w] \in {Newline})
  BY <1>4, UntilEnds DEF ValueEnds, b
<1> HIDE DEF w
<1>6. w = Len(p) + 1
  <2>1. SUFFICES ASSUME w \in b .. Len(p), p[w] = Newline PROVE FALSE
    BY <1>5
  <2>2. w \in 1 .. Len(p)
    BY <1>1, <1>4, <2>1
  <2> QED BY <2>1, <2>2
<1>7. ~ (w <= Len(p))
  BY <1>1, <1>6
<1> QED BY <1>7 DEF IsComplete, w

\* What is stripped of a value is what the scan goes over.
LEMMA StrippedFrom ==
  ASSUME NEW value \in Seq(ValueChar)
  PROVE  /\ Stripped(value) \in Seq(ValueChar)
         /\ Stripped(value) = <<>> => \A j \in 1 .. Len(value) : value[j] \in Padding
         /\ Stripped(value) # <<>> =>
              \E i \in 1 .. Len(value) :
                /\ Stripped(value) = SubSeq(value, i, Len(value))
                /\ value[i] \notin Padding
                /\ \A j \in 1 .. i - 1 : value[j] \in Padding
<1> DEFINE rest == {k \in DOMAIN value : value[k] \notin Padding}
           i == Min(rest)
           tail == SubSeq(value, i, Len(value))
<1>1. Len(value) \in Nat /\ DOMAIN value = 1 .. Len(value)
      /\ \A k \in 1 .. Len(value) : value[k] \in ValueChar
  BY LenProperties, ElementOfSeq
<1>2. Stripped(value) = IF rest = {} THEN <<>> ELSE tail
  BY DEF Stripped
<1>3. CASE rest = {}
  <2>1. Stripped(value) = <<>> /\ \A j \in 1 .. Len(value) : value[j] \in Padding
    BY <1>1, <1>2, <1>3
  <2>2. <<>> \in Seq(ValueChar)
    BY EmptySeq
  <2> QED BY <2>1, <2>2
<1>4. CASE rest # {}
  <2>1. rest \in SUBSET Nat /\ rest \subseteq 1 .. Len(value)
    BY <1>1
  <2>2. \A k \in 1 .. Len(value) : value[k] \notin Padding => k \in rest
    BY <1>1
  <2>3. \A k \in rest : value[k] \notin Padding
    OBVIOUS
  <2> HIDE DEF rest
  <2>4. i \in rest /\ \A y \in rest : i <= y
    BY <1>4, <2>1, MinOf
  <2>5. i \in 1 .. Len(value) /\ value[i] \notin Padding
    BY <2>1, <2>3, <2>4
  <2> HIDE DEF i
  <2>6. ASSUME NEW j \in 1 .. i - 1 PROVE value[j] \in Padding
    <3>1. j \in 1 .. Len(value) /\ j \notin rest
      BY <1>1, <2>4, <2>5
    <3> QED BY <2>2, <3>1
  <2>7. tail \in Seq(ValueChar) /\ Len(tail) >= 1
    <3>1. i \in Int /\ Len(value) \in Int /\ i <= Len(value) /\ Len(value) - i + 1 >= 1
      BY <1>1, <2>5
    <3>2. \A j \in i .. Len(value) : value[j] \in ValueChar
      BY <1>1, <2>5
    <3>3. tail \in Seq(ValueChar)
          /\ Len(tail) = (IF i <= Len(value) THEN Len(value) - i + 1 ELSE 0)
      BY <3>1, <3>2, SubSeqProperties
    <3> HIDE DEF tail
    <3> QED BY <3>1, <3>3
  <2>8. tail # <<>>
    <3> HIDE DEF tail
    <3> QED BY <2>7, EmptySeq
  <2> QED BY <1>2, <1>4, <2>5, <2>6, <2>7, <2>8
<1> QED BY <1>3, <1>4

\* In the whole line, the value is found, unless it is empty.
LEMMA ValueFound ==
  ASSUME NEW e, Writable(e), NEW s, NEW t \in Nat, NEW v \in Nat, Spread(s, e, t, v)
  PROVE  IF Stripped(e.value) = <<>> THEN ValueEnds(s) = Len(s) + 1
         ELSE ValueEnds(s) <= Len(s) /\ ValueIn(s) = Stripped(e.value)
<1> DEFINE C == Space \cup {SEP}
           i == NameEnds(s) + 1
           b == ValueBegins(s)
<1>1. /\ v = Len(e.value) /\ s \in Seq(Char) /\ Len(s) = t + v + 4
      /\ s[t + 1] = 32 /\ s[t + 2] = SEP /\ s[t + 3] = 32
      /\ \A j \in 1 .. v : s[t + 3 + j] = e.value[j] /\ s[t + 3 + j] # Newline
      /\ s[t + v + 4] = Newline
  BY DEF Spread
<1>2. i = (IF t = 0 THEN 2 ELSE t + 1) + 1
  <2>1. Len(s) >= t + 1 /\ Len(s) >= 2 /\ Len(s) <= Len(s) /\ \A j \in 1 .. Len(s) : s[j] = s[j]
    BY <1>1
  <2> QED BY <1>1, <2>1, NameFound
<1>3. b = Over(s, i, C)
  BY DEF ValueBegins
<1>4. Padding = C /\ 32 \in C /\ SEP \in C /\ Newline \in C
  BY Characters
<1>5. e.value \in Seq(ValueChar)
  BY DEF Writable
<1> HIDE DEF C, i, b
<1>6. i \in Nat /\ i >= 1 /\ i >= t + 2 /\ i <= t + 3
  BY <1>2
<1>7. ASSUME NEW j \in i .. t + 3 PROVE s[j] \in C
  <2>1. j = t + 2 \/ j = t + 3
    BY <1>6
  <2> QED BY <1>1, <1>4, <2>1
<1>8. CASE Stripped(e.value) = <<>>
  <2>1. \A j \in 1 .. v : e.value[j] \in C
    BY <1>1, <1>4, <1>5, <1>8, StrippedFrom
  <2>2. ASSUME NEW j \in i .. (Len(s) + 1) - 1 PROVE s[j] \in C
    <3>1. CASE j \in i .. t + 3
      BY <1>7, <3>1
    <3>2. CASE j = t + v + 4
      BY <1>1, <1>4, <3>2
    <3>3. CASE j \notin i .. t + 3 /\ j # t + v + 4
      <4>1. j - (t + 3) \in 1 .. v /\ t + 3 + (j - (t + 3)) = j
        BY <1>1, <1>6, <3>3
      <4> QED BY <1>1, <2>1, <4>1
    <3> QED BY <3>1, <3>2, <3>3
  <2>3. Len(s) + 1 \in i .. Len(s) + 1 /\ Len(s) + 1 \in Nat
    BY <1>1, <1>6
  <2>4. b = Len(s) + 1
    <3>1. Over(s, i, C) = Len(s) + 1
      BY <1>1, <1>6, <2>2, <2>3, OverAt
    <3> QED BY <1>3, <3>1
  <2>5. Len(s) + 1 \in Len(s) + 1 .. Len(s) + 1
        /\ \A j \in Len(s) + 1 .. (Len(s) + 1) - 1 : s[j] \notin {Newline}
    BY <2>3
  <2>6. Until(s, Len(s) + 1, {Newline}) = Len(s) + 1
    BY <1>1, <2>3, <2>5, UntilAt
  <2>7. ValueEnds(s) = Len(s) + 1
    BY <2>4, <2>6 DEF ValueEnds, b
  <2> QED BY <1>8, <2>7
<1>9. CASE Stripped(e.value) # <<>>
  <2>1. PICK h \in 1 .. v : /\ Stripped(e.value) = SubSeq(e.value, h, v)
                            /\ e.value[h] \notin C
                            /\ \A j \in 1 .. h - 1 : e.value[j] \in C
    BY <1>1, <1>4, <1>5, <1>9, StrippedFrom
  <2> DEFINE x == t + 3 + h
             y == t + v + 4
  <2>2. x \in Nat /\ x \in i .. Len(s) + 1 /\ x <= Len(s) /\ x \in 1 .. Len(s)
    BY <1>1, <1>6
  <2>3. ASSUME NEW j \in i .. x - 1 PROVE s[j] \in C
    <3>1. CASE j \in i .. t + 3
      BY <1>7, <3>1
    <3>2. CASE j \notin i .. t + 3
      <4>1. /\ j - (t + 3) \in 1 .. h - 1 /\ t + 3 + (j - (t + 3)) = j
            /\ j - (t + 3) \in 1 .. v
        BY <1>1, <1>6, <3>2
      <4> QED BY <1>1, <2>1, <4>1
    <3> QED BY <3>1, <3>2
  <2>4. s[x] \notin C
    BY <1>1, <2>1
  <2>5. y \in Nat /\ y \in x .. Len(s) + 1 /\ y = Len(s) /\ s[y] \in {Newline}
    BY <1>1
  <2>6. ASSUME NEW j \in x .. y - 1 PROVE s[j] \notin {Newline} /\ s[j] \in ValueChar
    <3>1. j - (t + 3) \in 1 .. v /\ t + 3 + (j - (t + 3)) = j
      BY <1>1
    <3>2. s[j] = e.value[j - (t + 3)] /\ s[j] # Newline
      BY <1>1, <3>1
    <3>3. e.value[j - (t + 3)] \in ValueChar
      BY <1>1, <1>5, <3>1, ElementOfSeq
    <3> QED BY <3>2, <3>3
  <2> HIDE DEF x, y
  <2>7. b = x
    <3>1. Over(s, i, C) = x
      <4>1. s \in Seq(Char)
        BY <1>1
      <4> QED BY <1>6, <2>2, <2>3, <2>4, <4>1, OverAt
    <3> QED BY <1>3, <3>1
  <2>8. ValueEnds(s) = y
    <3>1. Until(s, x, {Newline}) = y
      BY <1>1, <2>2, <2>5, <2>6, UntilAt
    <3> QED BY <2>7, <3>1 DEF ValueEnds, b
  <2>9. SubSeq(s, x, y - 1) = SubSeq(e.value, h, v)
    <3> DEFINE m == SubSeq(s, x, y - 1)
               n == SubSeq(e.value, h, v)
    <3>1. /\ m \in Seq(ValueChar) /\ Len(m) = (IF x <= y - 1 THEN (y - 1) - x + 1 ELSE 0)
          /\ \A j \in 1 .. (y - 1) - x + 1 : m[j] = s[x + j - 1]
      <4>1. x \in Int /\ y - 1 \in Int
        BY <2>2, <2>5
      <4> QED BY <2>6, <4>1, SubSeqProperties
    <3>2. /\ n \in Seq(ValueChar) /\ Len(n) = (IF h <= v THEN v - h + 1 ELSE 0)
          /\ \A j \in 1 .. v - h + 1 : n[j] = e.value[h + j - 1]
      <4>1. \A j \in h .. v : e.value[j] \in ValueChar
        <5>1. \A j \in h .. v : j \in 1 .. Len(e.value)
          BY <1>1
        <5> QED BY <1>5, <5>1, ElementOfSeq
      <4>2. h \in Int /\ v \in Int
        OBVIOUS
      <4> QED BY <4>1, <4>2, SubSeqProperties
    <3> HIDE DEF m, n
    <3>3. (y - 1) - x + 1 = v - h + 1 /\ x <= y - 1 /\ h <= v
      BY DEF x, y
    <3>4. Len(m) = v - h + 1 /\ Len(n) = v - h + 1
      BY <3>1, <3>2, <3>3
    <3>5. ASSUME NEW j \in 1 .. Len(m) PROVE m[j] = n[j]
      <4>1. /\ j \in 1 .. v - h + 1 /\ h + j - 1 \in 1 .. v
            /\ x + j - 1 = t + 3 + (h + j - 1)
        BY <3>4 DEF x
      <4>2. m[j] = s[x + j - 1] /\ n[j] = e.value[h + j - 1]
        BY <3>1, <3>2, <3>3, <4>1
      <4>3. s[t + 3 + (h + j - 1)] = e.value[h + j - 1]
        BY <1>1, <4>1
      <4> QED BY <4>1, <4>2, <4>3
    <3>6. m = n
      BY <3>1, <3>2, <3>4, <3>5, SeqEqual
    <3> QED BY <3>6 DEF m, n
  <2>10. ValueIn(s) = Stripped(e.value)
    BY <2>1, <2>7, <2>8, <2>9 DEF ValueIn, b
  <2> QED BY <1>1, <1>9, <2>5, <2>8, <2>10
<1> QED BY <1>8, <1>9

\* A line that fits is read by one call of fgets.
LEMMA ShortLine ==
  ASSUME NEW ctxs \in SUBSET FreshTables, NEW line \in Seq(Char),
         1 <= Len(line), Len(line) <= MaxLine - 1
  PROVE  LineRead(ctxs, line) = Taken(ctxs, line)
<1> DEFINE w == MaxLine - 1
           l == Len(line)
           P == {n \in 0 .. l : l <= n * w}
<1>1. l \in Nat /\ w \in Nat /\ 1 <= l /\ l <= w
  BY LenProperties, Capacity
<1>2. Calls(line) = 1
  <2>1. P \in SUBSET Nat /\ Calls(line) = Min(P)
    BY <1>1 DEF Calls
  <2>2. 1 \in P
    <3>1. 1 * w = w /\ 1 \in 0 .. l
      BY <1>1
    <3> QED BY <1>1, <3>1
  <2>3. 0 \notin P
    <3>1. 0 * w = 0
      BY <1>1
    <3> QED BY <1>1, <3>1
  <2> HIDE DEF P
  <2>4. Min(P) \in P /\ Min(P) <= 1
    BY <2>1, <2>2, MinOf
  <2>5. Min(P) \in Nat /\ Min(P) # 0
    BY <2>1, <2>3, <2>4
  <2> QED BY <2>1, <2>4, <2>5
<1>3. Piece(line, 1) = line
  <2> DEFINE z == Min({1 * w, l})
  <2>1. {1 * w, l} \in SUBSET Nat /\ 1 * w = w
    BY <1>1
  <2>2. z \in {1 * w, l} /\ z <= l
    BY <2>1, MinOf
  <2> HIDE DEF z
  <2>3. z = l
    BY <1>1, <2>1, <2>2
  <2>4. (1 - 1) * w + 1 = 1
    BY <1>1
  <2>5. Piece(line, 1) = SubSeq(line, (1 - 1) * w + 1, z)
    BY DEF Piece, z
  <2> HIDE DEF w
  <2>6. Piece(line, 1) = SubSeq(line, 1, l)
    BY <2>3, <2>4, <2>5
  <2> QED BY <2>6, SubSeqFull
<1>4. PICK got \in [0 .. Calls(line) -> SUBSET FreshTables] :
         LineRound(got, ctxs, line) /\ LineRead(ctxs, line) = got[Calls(line)]
  BY LineLoop
<1>5. got[0] = ctxs /\ got[1] = Taken(got[0], Piece(line, 1))
  <2>1. 1 \in 1 .. Calls(line) /\ 1 - 1 = 0
    BY <1>2
  <2> QED BY <1>4, <2>1 DEF LineRound
<1> QED BY <1>2, <1>3, <1>4, <1>5

\* Once LoadConfig has given up, it has.
LEMMA NothingTaken ==
  ASSUME NEW p
  PROVE  Taken({}, p) = {}
BY DEF Taken

\* A line that is too long is given up with its first piece.
LEMMA LongLine ==
  ASSUME NEW ctxs \in SUBSET FreshTables, NEW line \in Seq(Char), Len(line) > MaxLine - 1,
         \A p \in Seq(Char) :
           (Len(p) = MaxLine - 1 /\ \A j \in 1 .. Len(p) : p[j] = line[j]) => Taken(ctxs, p) = {}
  PROVE  LineRead(ctxs, line) = {}
<1> DEFINE w == MaxLine - 1
           l == Len(line)
           c == Calls(line)
           P == {n \in 0 .. l : l <= n * w}
<1>1. l \in Nat /\ w \in Nat /\ w >= 1 /\ l > w
  BY LenProperties, Capacity
<1>2. c \in Nat /\ c >= 1
  <2>1. c \in Nat
    BY PieceType
  <2>2. P \in SUBSET Nat /\ c = Min(P)
    BY <1>1 DEF Calls
  <2>3. P # {}
    <3>1. l \in P
      BY <1>1, AtLeastOnce
    <3> QED BY <3>1
  <2>4. 0 \notin P
    <3>1. 0 * w = 0
      BY <1>1
    <3> QED BY <1>1, <3>1
  <2> HIDE DEF P, c
  <2>5. c \in P
    BY <2>2, <2>3, MinOf
  <2> QED BY <2>1, <2>4, <2>5
<1> DEFINE p == Piece(line, 1)
<1>3. p \in Seq(Char) /\ Len(p) = w /\ \A j \in 1 .. w : p[j] = line[j]
  <2> DEFINE z == Min({1 * w, l})
  <2>1. {1 * w, l} \in SUBSET Nat /\ 1 * w = w
    BY <1>1
  <2>2. z \in {1 * w, l} /\ z <= 1 * w
    BY <2>1, MinOf
  <2> HIDE DEF z
  <2>3. z = w
    BY <1>1, <2>1, <2>2
  <2>4. (1 - 1) * w + 1 = 1
    BY <1>1
  <2>5. p = SubSeq(line, (1 - 1) * w + 1, z)
    BY DEF Piece, z
  <2>6. \A j \in 1 .. w : line[j] \in Char
    BY <1>1, ElementOfSeq
  <2> HIDE DEF w, p
  <2>7. p = SubSeq(line, 1, w)
    BY <2>3, <2>4, <2>5
  <2> DEFINE q == SubSeq(line, 1, w)
  <2>8. /\ q \in Seq(Char) /\ Len(q) = (IF 1 <= w THEN w - 1 + 1 ELSE 0)
        /\ \A j \in 1 .. w - 1 + 1 : q[j] = line[1 + j - 1]
    BY <1>1, <2>6, SubSeqProperties
  <2> HIDE DEF q
  <2>9. Len(q) = w /\ \A j \in 1 .. w : q[j] = line[j]
    BY <1>1, <2>8
  <2> QED BY <2>7, <2>8, <2>9 DEF q
<1>4. Taken(ctxs, p) = {}
  <2> HIDE DEF p
  <2> QED BY <1>3
<1>5. PICK got \in [0 .. c -> SUBSET FreshTables] :
         LineRound(got, ctxs, line) /\ LineRead(ctxs, line) = got[c]
  BY LineLoop
<1>6. got[0] = ctxs /\ \A n \in 1 .. c : got[n] = Taken(got[n - 1], Piece(line, n))
  BY <1>5 DEF LineRound
<1> DEFINE S == {n \in 0 .. c : n # 0 => got[n] = {}}
<1> HIDE DEF c
<1>7. 0 \in S
  BY <1>2
<1>8. ASSUME NEW n \in 1 .. c, n - 1 \in S PROVE n \in S
  <2>1. n \in 0 .. c /\ got[n] = Taken(got[n - 1], Piece(line, n))
    BY <1>2, <1>6
  <2>2. CASE n = 1
    <3>1. n - 1 = 0
      BY <2>2
    <3>2. got[n] = {}
      BY <1>4, <1>6, <2>1, <2>2, <3>1
    <3> QED BY <2>1, <3>2
  <2>3. CASE n # 1
    <3>1. n - 1 # 0
      BY <1>2, <2>3
    <3>2. got[n - 1] = {}
      BY <1>8, <3>1
    <3>3. got[n] = {}
      BY <2>1, <3>2, NothingTaken
    <3> QED BY <2>1, <3>3
  <2> QED BY <2>2, <2>3
<1> HIDE DEF S
<1>9. \A n \in 0 .. c : n \in S
  BY <1>2, <1>7, <1>8, UpTo
<1>10. c \in S /\ c # 0
  BY <1>2, <1>9
<1> QED BY <1>5, <1>10 DEF S

LEMMA HeaderRead ==
  ASSUME NEW ctxs \in SUBSET FreshTables
  PROVE  LineRead(ctxs, Header) = ctxs
<1>1. Header \in Seq(Char) /\ Len(Header) = 2 /\ Header[1] = Semicolon
  BY Characters DEF Header
<1>2. 1 <= Len(Header) /\ Len(Header) <= MaxLine - 1
  BY <1>1, Capacity
<1>3. LineRead(ctxs, Header) = Taken(ctxs, Header)
  BY <1>1, <1>2, ShortLine
<1>4. ~ IsParameter(Header)
  BY <1>1 DEF IsParameter
<1> QED BY <1>3, <1>4 DEF Taken

\* One parameter, written and read.
Reread(e) == Entry(e.type, Stripped(e.value))

LEMMA EntryRead ==
  ASSUME NEW e, Writable(e), NEW ctxs \in SUBSET FreshTables
  PROVE  LineRead(ctxs, Line(e)) =
           IF Readable(e) THEN {Append(ctx, Reread(e)) : ctx \in {x \in ctxs : Len(x) < MaxParam}}
           ELSE {}
<1> DEFINE s == Line(e)
<1>1. PICK t \in Nat, v \in Nat : Spread(s, e, t, v)
  BY LineSpread
<1> HIDE DEF s
<1>0. t = Len(e.type) /\ v = Len(e.value)
  BY <1>1 DEF Spread
<1>2. s \in Seq(Char) /\ Len(s) = t + v + 4 /\ Len(s) \in Nat /\ t <= MaxNamLen + 5
  <2>1. s \in Seq(Char) /\ Len(s) = t + v + 4
    BY <1>1 DEF Spread
  <2>2. t <= MaxNamLen + 5
    BY <1>0 DEF Writable
  <2> QED BY <2>1, <2>2
<1>3. Len(s) <= MaxLine - 1 <=> t + v + 4 < MaxLine
  BY <1>2, Capacity, BoundsAssumption
<1>4. CASE Len(s) <= MaxLine - 1
  <2>1. LineRead(ctxs, s) = Taken(ctxs, s)
    <3>1. 1 <= Len(s)
      BY <1>2
    <3> QED BY <1>2, <1>4, <3>1, ShortLine
  <2>2. IsParameter(s) /\ NameIn(s) = e.type
    <3>1. Len(s) >= t + 1 /\ Len(s) >= 2 /\ Len(s) <= Len(s) /\ \A j \in 1 .. Len(s) : s[j] = s[j]
      BY <1>2
    <3> QED BY <1>1, <1>2, <3>1, NameFound
  <2>3. IF Stripped(e.value) = <<>> THEN ValueEnds(s) = Len(s) + 1
        ELSE ValueEnds(s) <= Len(s) /\ ValueIn(s) = Stripped(e.value)
    BY <1>1, ValueFound
  <2>4. ~ (Len(s) + 1 <= Len(s))
    BY <1>2
  <2>5. IsComplete(s) <=> Readable(e)
    <3>1. Len(e.type) + Len(e.value) + 4 < MaxLine
      BY <1>0, <1>3, <1>4
    <3> QED BY <2>2, <2>3, <2>4, <3>1 DEF IsComplete, Readable
  <2>6. CASE Readable(e)
    <3>1. Entry(NameIn(s), ValueIn(s)) = Reread(e)
      BY <2>2, <2>3, <2>6 DEF Readable, Reread
    <3>2. {x \in ctxs : Len(x) < MaxParam /\ IsComplete(s)} = {x \in ctxs : Len(x) < MaxParam}
      BY <2>5, <2>6
    <3> QED BY <2>1, <2>2, <2>6, <3>1, <3>2 DEF Taken, s
  <2>7. CASE ~ Readable(e)
    <3>1. {x \in ctxs : Len(x) < MaxParam /\ IsComplete(s)} = {}
      BY <2>5, <2>7
    <3> QED BY <2>1, <2>2, <2>7, <3>1 DEF Taken, s
  <2> QED BY <2>6, <2>7
<1>5. CASE ~ (Len(s) <= MaxLine - 1)
  <2>1. ~ Readable(e)
    BY <1>0, <1>3, <1>5 DEF Readable
  <2>2. ASSUME NEW p \in Seq(Char), Len(p) = MaxLine - 1, \A j \in 1 .. Len(p) : p[j] = s[j]
        PROVE  Taken(ctxs, p) = {}
    <3>1. /\ Len(p) >= t + 1 /\ Len(p) >= 2 /\ Len(p) < Len(s)
          /\ Len(p) \in Nat
      BY <1>2, <1>5, <2>2, Capacity
    <3>2. IsParameter(p)
      <4>1. Len(p) <= Len(s)
        BY <1>2, <3>1
      <4> QED BY <1>1, <2>2, <3>1, <4>1, NameFound
    <3>3. ASSUME NEW j \in 1 .. Len(p) PROVE p[j] # Newline
      <4>1. j < t + v + 4 /\ p[j] = s[j] /\ j \in Nat /\ j >= 1
        BY <1>2, <2>2, <3>1
      <4>2. CASE j \in 1 .. t
        <5>1. s[j] \in TypeChar
          BY <1>1, <4>2 DEF Spread
        <5> QED BY <4>1, <5>1, Characters DEF TypeChar
      <4>3. CASE j = t + 1 \/ j = t + 2 \/ j = t + 3
        BY <1>1, <4>1, <4>3, Characters DEF Spread
      <4>4. CASE j > t + 3
        <5>1. j - (t + 3) \in 1 .. v /\ t + 3 + (j - (t + 3)) = j
          BY <4>1, <4>4
        <5>2. \A h \in 1 .. v : s[t + 3 + h] # Newline
          BY <1>1 DEF Spread
        <5> QED BY <4>1, <5>1, <5>2
      <4> QED BY <4>1, <4>2, <4>3, <4>4
    <3>4. ~ IsComplete(p)
      BY <3>3, CutIsIncomplete
    <3>5. {x \in ctxs : Len(x) < MaxParam /\ IsComplete(p)} = {}
      BY <3>4
    <3> QED BY <3>2, <3>5 DEF Taken
  <2>3. Len(s) > MaxLine - 1
    BY <1>2, <1>5, Capacity
  <2>4. LineRead(ctxs, s) = {}
    BY <1>2, <2>2, <2>3, LongLine
  <2> QED BY <2>1, <2>4 DEF s
<1> QED BY <1>4, <1>5

LEMMA LineIsText ==
  ASSUME NEW e \in Parameter
  PROVE  Line(e) \in Seq(Char)
<1> DEFINE x == e.type
           y == <<32, SEP, 32>>
           z == e.value
           u == <<Newline>>
<1>1. x \in Seq(TypeChar) /\ z \in Seq(ValueChar)
  BY DEF Parameter
<1>2. x \in Seq(Char) /\ z \in Seq(Char)
  BY <1>1, Characters, SeqMonotonic
<1>3. y \in Seq(Char) /\ u \in Seq(Char)
  BY Characters
<1>4. Line(e) = x \o y \o z \o u
  BY DEF Line
<1> HIDE DEF x, y, z, u
<1> QED BY <1>2, <1>3, <1>4, FourParts

\* The file: three lines, and one for every parameter.
LEMMA FileLines ==
  ASSUME table \in Seq(Parameter)
  PROVE  /\ Len(table) \in Nat /\ DOMAIN table = 1 .. Len(table)
         /\ WriteConfig \in Seq(Seq(Char)) /\ Len(WriteConfig) = Len(table) + 3
         /\ \A k \in 1 .. 3 : WriteConfig[k] = Header
         /\ \A k \in 1 .. Len(table) : WriteConfig[k + 3] = Line(table[k])
<1> DEFINE h == <<Header, Header, Header>>
           n == Len(table)
           f == [k \in 1 .. n |-> Line(table[k])]
<1>1. n \in Nat /\ DOMAIN table = 1 .. n /\ \A k \in 1 .. n : table[k] \in Parameter
  BY TableIsSeq
<1>2. \A k \in 1 .. n : Line(table[k]) \in Seq(Char)
  BY <1>1, LineIsText
<1>3. Header \in Seq(Char)
  BY Characters DEF Header
<1>4. h \in Seq(Seq(Char)) /\ Len(h) = 3 /\ h[1] = Header /\ h[2] = Header /\ h[3] = Header
  <2> DEFINE A == Seq(Char)
  <2>1. Header \in A
    BY <1>3
  <2> HIDE DEF A
  <2>2. h \in Seq(A) /\ Len(h) = 3 /\ h[1] = Header /\ h[2] = Header /\ h[3] = Header
    BY <2>1
  <2> QED BY <2>2 DEF A
<1>5. WriteConfig = h \o f
  BY <1>1 DEF WriteConfig
<1> HIDE DEF h, n
<1>6. f \in Seq(Seq(Char)) /\ Len(f) = n /\ \A k \in 1 .. n : f[k] = Line(table[k])
  <2> DEFINE A == Seq(Char)
  <2>1. \A k \in 1 .. n : Line(table[k]) \in A
    BY <1>2
  <2> HIDE DEF A
  <2>2. f \in Seq(A) /\ Len(f) = n /\ \A k \in 1 .. n : f[k] = Line(table[k])
    BY <1>1, <2>1
  <2> QED BY <2>2 DEF A
<1> HIDE DEF f
<1>7. /\ h \o f \in Seq(Seq(Char)) /\ Len(h \o f) = Len(h) + Len(f)
      /\ \A i \in 1 .. Len(h) + Len(f) : (h \o f)[i] = IF i <= Len(h) THEN h[i] ELSE f[i - Len(h)]
  <2>1. h \in Seq(Seq(Char)) /\ f \in Seq(Seq(Char))
    BY <1>4, <1>6
  <2> QED BY <2>1, ConcatProperties
<1>8. ASSUME NEW k \in 1 .. 3 PROVE WriteConfig[k] = Header
  <2>1. k \in 1 .. Len(h) + Len(f) /\ k <= Len(h) /\ (k = 1 \/ k = 2 \/ k = 3)
    BY <1>1, <1>4, <1>6
  <2> QED BY <1>4, <1>5, <1>7, <2>1
<1>9. ASSUME NEW k \in 1 .. n PROVE WriteConfig[k + 3] = Line(table[k])
  <2>1. k + 3 \in 1 .. Len(h) + Len(f) /\ ~ (k + 3 <= Len(h)) /\ (k + 3) - Len(h) = k
    BY <1>1, <1>4, <1>6
  <2> QED BY <1>5, <1>6, <1>7, <2>1
<1>10. WriteConfig \in Seq(Seq(Char)) /\ Len(WriteConfig) = n + 3
  BY <1>1, <1>4, <1>5, <1>6, <1>7
<1> QED BY <1>1, <1>8, <1>9, <1>10 DEF n

\* WriteConfig, then LoadConfig.
LEMMA ScannedBack ==
  ASSUME table \in Seq(Parameter), Len(table) <= MaxParam,
         \A k \in 1 .. Len(table) : Writable(table[k])
  PROVE  Scanned(WriteConfig) =
           IF \A k \in 1 .. Len(table) : Readable(table[k])
           THEN {[k \in 1 .. Len(table) |-> Reread(table[k])]}
           ELSE {}
<1> DEFINE n == Len(table)
           Sofar(k) == IF \A j \in 1 .. k : Readable(table[j])
                       THEN {[j \in 1 .. k |-> Reread(table[j])]} ELSE {}
<1>1. /\ n \in Nat /\ WriteConfig \in Seq(Seq(Char)) /\ Len(WriteConfig) = n + 3
      /\ \A k \in 1 .. 3 : WriteConfig[k] = Header
      /\ \A k \in 1 .. n : WriteConfig[k + 3] = Line(table[k])
  BY FileLines
<1>2. PICK got \in [0 .. Len(WriteConfig) -> SUBSET FreshTables] :
         FileRound(got, WriteConfig) /\ Scanned(WriteConfig) = got[Len(WriteConfig)]
  BY <1>1, FileLoop
<1>3. got \in [0 .. n + 3 -> SUBSET FreshTables] /\ Scanned(WriteConfig) = got[n + 3]
  BY <1>1, <1>2
<1>4. got[0] = {<<>>} /\ \A k \in 1 .. n + 3 : got[k] = LineRead(got[k - 1], WriteConfig[k])
  BY <1>1, <1>2 DEF FileRound
<1>5. got[3] = {<<>>}
  <2>1. ASSUME NEW k \in 1 .. 3 PROVE got[k] = got[k - 1]
    <3>1. k \in 1 .. n + 3 /\ k - 1 \in 0 .. n + 3
      BY <1>1
    <3>2. got[k - 1] \in SUBSET FreshTables
      BY <1>3, <3>1
    <3>3. LineRead(got[k - 1], Header) = got[k - 1]
      BY <3>2, HeaderRead
    <3> QED BY <1>1, <1>4, <3>1, <3>3
  <2>2. got[1] = got[1 - 1] /\ got[2] = got[2 - 1] /\ got[3] = got[3 - 1]
    <3>1. 1 \in 1 .. 3 /\ 2 \in 1 .. 3 /\ 3 \in 1 .. 3
      OBVIOUS
    <3> QED BY <2>1, <3>1
  <2>3. 1 - 1 = 0 /\ 2 - 1 = 1 /\ 3 - 1 = 2
    OBVIOUS
  <2> QED BY <1>4, <2>2, <2>3
<1> DEFINE S == {k \in 0 .. n : got[k + 3] = Sofar(k)}
<1>6. 0 \in S
  <2>1. Sofar(0) = {[j \in 1 .. 0 |-> Reread(table[j])]}
    OBVIOUS
  <2>2. [j \in 1 .. 0 |-> Reread(table[j])] = <<>>
    OBVIOUS
  <2>3. 0 \in 0 .. n /\ 0 + 3 = 3
    BY <1>1
  <2> HIDE DEF Sofar
  <2> QED BY <1>5, <2>1, <2>2, <2>3
<1>7. ASSUME NEW k \in 1 .. n, k - 1 \in S PROVE k \in S
  <2> DEFINE old == [j \in 1 .. k - 1 |-> Reread(table[j])]
             new == [j \in 1 .. k |-> Reread(table[j])]
             ctxs == got[(k - 1) + 3]
  <2>1. /\ k \in 0 .. n /\ k - 1 \in Nat /\ k + 3 \in 1 .. n + 3 /\ (k + 3) - 1 = (k - 1) + 3
        /\ (k - 1) + 3 \in 0 .. n + 3 /\ k \in 1 .. k /\ k \in Nat
    BY <1>1
  <2>2. ctxs = Sofar(k - 1) /\ ctxs \in SUBSET FreshTables
    BY <1>3, <1>7, <2>1
  <2>3. got[k + 3] = LineRead(ctxs, Line(table[k]))
    BY <1>1, <1>4, <2>1
  <2> HIDE DEF ctxs, S
  <2>4. LineRead(ctxs, Line(table[k])) =
          IF Readable(table[k])
          THEN {Append(ctx, Reread(table[k])) : ctx \in {x \in ctxs : Len(x) < MaxParam}}
          ELSE {}
    BY <2>2, EntryRead
  <2>5. CASE ~ Readable(table[k])
    <3>1. Sofar(k) = {}
      BY <2>1, <2>5
    <3>2. got[k + 3] = {}
      BY <2>3, <2>4, <2>5
    <3> QED BY <2>1, <3>1, <3>2 DEF S
  <2>6. CASE Readable(table[k]) /\ ~ \A j \in 1 .. k - 1 : Readable(table[j])
    <3>1. ctxs = {}
      BY <2>2, <2>6
    <3>2. got[k + 3] = {}
      BY <2>3, <2>4, <2>6, <3>1
    <3>3. \A j \in 1 .. k - 1 : j \in 1 .. k
      BY <2>1
    <3>4. Sofar(k) = {}
      BY <2>6, <3>3
    <3> QED BY <2>1, <3>2, <3>4 DEF S
  <2>7. CASE Readable(table[k]) /\ \A j \in 1 .. k - 1 : Readable(table[j])
    <3>1. \A j \in 1 .. k : Readable(table[j])
      <4>1. \A j \in 1 .. k : j = k \/ j \in 1 .. k - 1
        BY <2>1
      <4> QED BY <2>7, <4>1
    <3>2. ctxs = {old}
      BY <2>2, <2>7
    <3>3. Sofar(k) = {new}
      BY <3>1
    <3>4. Len(old) = k - 1 /\ Len(old) < MaxParam
      <4>1. Len(old) = k - 1
        BY <2>1
      <4>2. k - 1 < MaxParam
        BY <1>1, <2>1, Capacity
      <4> HIDE DEF old
      <4> QED BY <4>1, <4>2
    <3>5. Append(old, Reread(table[k])) = new
      <4>1. old \in Seq(Parameter)
        BY <2>2, <3>2 DEF FreshTables
      <4>2. DOMAIN old = 1 .. k - 1 /\ \A j \in 1 .. k - 1 : old[j] = Reread(table[j])
        OBVIOUS
      <4>3. Append(old, Reread(table[k])) =
              [j \in 1 .. (k - 1) + 1 |-> IF j = (k - 1) + 1 THEN Reread(table[k]) ELSE old[j]]
        <5> HIDE DEF old
        <5> QED BY <3>4, <4>1
      <4>4. ASSUME NEW j \in 1 .. k
            PROVE  (IF j = (k - 1) + 1 THEN Reread(table[k]) ELSE old[j]) = Reread(table[j])
        <5>1. CASE j = k
          BY <2>1, <5>1
        <5>2. CASE j # k
          <6>1. j \in 1 .. k - 1 /\ j # (k - 1) + 1
            BY <2>1, <5>2
          <6> QED BY <4>2, <6>1
        <5> QED BY <5>1, <5>2
      <4>5. (k - 1) + 1 = k
        BY <2>1
      <4> HIDE DEF old
      <4> QED BY <4>3, <4>4, <4>5
    <3> HIDE DEF old, new, Sofar
    <3>6. {x \in ctxs : Len(x) < MaxParam} = {old}
      BY <3>2, <3>4
    <3>7. {Append(ctx, Reread(table[k])) : ctx \in {old}} = {new}
      BY <3>5
    <3>8. got[k + 3] = {new}
      BY <2>3, <2>4, <2>7, <3>6, <3>7
    <3> QED BY <2>1, <3>3, <3>8 DEF S
  <2> QED BY <2>5, <2>6, <2>7
<1> HIDE DEF S
<1>8. \A k \in 0 .. n : k \in S
  BY <1>1, <1>6, <1>7, UpTo
<1>9. got[n + 3] = Sofar(n)
  <2>1. n \in S
    BY <1>1, <1>8
  <2> HIDE DEF Sofar
  <2> QED BY <2>1 DEF S
<1> QED BY <1>3, <1>9
-----------------------------------------------------------------------------
(***************************************************************************)
(* The steps keep the types, and a path only where it is the current one;  *)
(* a name, with what GetFullName adds to it, always fits a line.           *)
(***************************************************************************)
NamesFit == \A k \in DOMAIN table : Len(table[k].type) <= MaxNamLen + 5

IInv == TypeOK /\ PathIsCurrent /\ NamesFit

PathType == {NoPath} \cup ((Dirs \cup {NoDir}) \X Seq(ValueChar))

LEMMA PathOf ==
  ASSUME NEW dir \in Dirs \cup {Unset}, NEW value \in Seq(ValueChar)
  PROVE  RelativeToFile(dir, value) \in PathType
BY DEF RelativeToFile, PathType

LEMMA SetKeeps ==
  ASSUME IInv, NEW n \in Names, NEW i \in Indices, NEW text \in Seq(ValueChar),
         SetStringParam(n, i, text)
  PROVE  IInv'
<1>1. TypeOK /\ PathIsCurrent /\ NamesFit /\ filespec' = filespec
  BY DEF IInv, SetStringParam
<1>2. CASE Fits(table, n, i) /\ table' = Stored(table, n, i, text) /\ UNCHANGED stage
  <2> DEFINE new == Stored(table, n, i, text)
  <2>1. table \in Seq(Parameter) /\ Len(table) <= MaxParam /\ Len(table) \in Nat /\ MaxParam \in Nat
    BY <1>1, LenProperties, BoundsAssumption DEF TypeOK
  <2>2. new \in Seq(Parameter)
    BY <2>1, StoredType
  <2>3. CASE Found(table, n, i)
    <3> DEFINE at == GetIndex(table, n, i)
    <3>1. /\ at \in 1 .. Len(table) /\ Len(new) = Len(table)
          /\ \A k \in 1 .. Len(table) : new[k] = IF k = at THEN Entry(table[k].type, text) ELSE table[k]
      BY <2>1, <2>3, StoredType, Zenon
    <3> HIDE DEF new, at
    <3>2. ASSUME NEW k \in 1 .. Len(new), new[k].path # NoPath
          PROVE  new[k].path = RelativeToFile(filespec, new[k].value)
      <4>1. k # at
        <5>1. SUFFICES ASSUME k = at PROVE FALSE
          OBVIOUS
        <5>2. new[k] = Entry(table[k].type, text)
          BY <3>1, <5>1
        <5> QED BY <3>2, <5>2 DEF Entry
      <4>2. new[k] = table[k] /\ k \in DOMAIN table
        BY <2>1, <3>1, <4>1, LenProperties
      <4> QED BY <1>1, <3>2, <4>2 DEF PathIsCurrent
    <3>3. Len(new) <= MaxParam
      BY <2>1, <3>1
    <3>4. DOMAIN new = 1 .. Len(new)
      BY <2>2, LenProperties DEF new
    <3>5. table' = new
      BY <1>2 DEF new
    <3>6. TypeOK'
      BY <1>1, <1>2, <2>2, <3>3, <3>5 DEF TypeOK, new
    <3>7. PathIsCurrent'
      BY <1>1, <3>2, <3>4, <3>5 DEF PathIsCurrent
    <3>8. ASSUME NEW k \in 1 .. Len(new) PROVE Len(new[k].type) <= MaxNamLen + 5
      <4>1. new[k].type = table[k].type /\ k \in DOMAIN table
        <5>1. k \in DOMAIN table
          BY <2>1, <3>1, LenProperties
        <5>2. CASE k = at
          <6>1. new[k] = Entry(table[k].type, text)
            BY <3>1, <5>2
          <6> QED BY <5>1, <6>1 DEF Entry
        <5>3. CASE k # at
          BY <3>1, <5>1, <5>3
        <5> QED BY <5>2, <5>3
      <4> QED BY <1>1, <4>1 DEF NamesFit
    <3>9. NamesFit'
      BY <3>4, <3>5, <3>8 DEF NamesFit
    <3> QED BY <3>6, <3>7, <3>9 DEF IInv
  <2>4. CASE ~ Found(table, n, i)
    <3>1. /\ Len(new) = Len(table) + 1
          /\ \A k \in 1 .. Len(table) : new[k] = table[k]
          /\ new[Len(table) + 1] = Entry(GetFullName(n, i), text)
      BY <2>1, <2>4, StoredType, Zenon
    <3> HIDE DEF new
    <3>2. ASSUME NEW k \in 1 .. Len(new), new[k].path # NoPath
          PROVE  new[k].path = RelativeToFile(filespec, new[k].value)
      <4>1. k # Len(table) + 1
        <5>1. SUFFICES ASSUME k = Len(table) + 1 PROVE FALSE
          OBVIOUS
        <5>2. new[k] = Entry(GetFullName(n, i), text)
          BY <3>1, <5>1
        <5> QED BY <3>2, <5>2 DEF Entry
      <4>2. new[k] = table[k] /\ k \in DOMAIN table
        BY <2>1, <3>1, <4>1, LenProperties
      <4> QED BY <1>1, <3>2, <4>2 DEF PathIsCurrent
    <3>3. Len(table) < MaxParam
      BY <1>2, <2>4 DEF Fits
    <3>4. Len(new) <= MaxParam
      BY <2>1, <3>1, <3>3
    <3>5. DOMAIN new = 1 .. Len(new)
      BY <2>2, LenProperties DEF new
    <3>6. table' = new
      BY <1>2 DEF new
    <3>7. TypeOK'
      BY <1>1, <1>2, <2>2, <3>4, <3>6 DEF TypeOK, new
    <3>8. PathIsCurrent'
      BY <1>1, <3>2, <3>5, <3>6 DEF PathIsCurrent
    <3>9. Len(GetFullName(n, i)) <= MaxNamLen + 5
      <4>1. Len(GetFullName(n, i)) \in Nat /\ Len(GetFullName(n, i)) <= Len(n) + 5
        BY FullName, LenProperties
      <4>2. Len(n) \in Nat /\ Len(n) <= MaxNamLen
        BY FullName, LenProperties DEF SetStringParam, Settable
      <4> QED BY <4>1, <4>2, Capacity
    <3>10. ASSUME NEW k \in 1 .. Len(new) PROVE Len(new[k].type) <= MaxNamLen + 5
      <4>1. CASE k = Len(table) + 1
        <5>1. new[k] = Entry(GetFullName(n, i), text)
          BY <3>1, <4>1
        <5>2. new[k].type = GetFullName(n, i)
          BY <5>1 DEF Entry
        <5> QED BY <3>9, <5>2
      <4>2. CASE k # Len(table) + 1
        <5>1. new[k] = table[k] /\ k \in DOMAIN table
          BY <2>1, <3>1, <4>2, LenProperties
        <5> QED BY <1>1, <5>1 DEF NamesFit
      <4> QED BY <4>1, <4>2
    <3>11. NamesFit'
      BY <3>5, <3>6, <3>10 DEF NamesFit
    <3> QED BY <3>7, <3>8, <3>11 DEF IInv
  <2> QED BY <2>3, <2>4
<1>3. CASE stage' = "undefined" /\ UNCHANGED table
  BY <1>1, <1>3 DEF IInv, TypeOK, PathIsCurrent, NamesFit
<1> QED BY <1>2, <1>3 DEF SetStringParam

LEMMA LoadKeeps ==
  ASSUME IInv, NEW dir \in Dirs, NEW lines \in Seq(Seq(Char)), LoadConfig(dir, lines)
  PROVE  IInv'
<1>1. ASSUME NEW ctx \in Scanned(lines), stage' = "open", table' = ctx, filespec' = dir
      PROVE  IInv'
  <2>1. ctx \in FreshTables
    BY ScannedType
  <2>2. /\ ctx \in Seq(Parameter) /\ Len(ctx) <= MaxParam /\ DOMAIN ctx = 1 .. Len(ctx)
        /\ \A k \in 1 .. Len(ctx) : Len(ctx[k].type) <= MaxNamLen + 5 /\ ctx[k].path = NoPath
    BY <2>1, LenProperties DEF FreshTables
  <2>3. TypeOK'
    BY <1>1, <2>2 DEF TypeOK
  <2>4. PathIsCurrent'
    BY <1>1, <2>2 DEF PathIsCurrent
  <2>5. NamesFit'
    BY <1>1, <2>2 DEF NamesFit
  <2> QED BY <2>3, <2>4, <2>5 DEF IInv
<1>2. CASE stage' = "none" /\ table' = <<>> /\ filespec' = Unset
  BY <1>2, BoundsAssumption DEF IInv, TypeOK, PathIsCurrent, NamesFit
<1> QED BY <1>1, <1>2 DEF LoadConfig

LEMMA PathKeeps ==
  ASSUME IInv, NEW n \in Names, NEW i \in Indices, GetPathParam(n, i)
  PROVE  IInv'
<1>1. TypeOK /\ PathIsCurrent /\ NamesFit /\ filespec' = filespec
  BY DEF IInv, GetPathParam
<1> DEFINE at == GetIndex(table, n, i)
           path == IF table[at].path # NoPath THEN table[at].path
                   ELSE RelativeToFile(filespec, table[at].value)
           e == [table[at] EXCEPT !.path = path]
<1>2. table \in Seq(Parameter) /\ filespec \in Dirs \cup {Unset}
  BY <1>1 DEF TypeOK
<1>3. CASE table' = [table EXCEPT ![at].path =
                       IF @ # NoPath THEN @ ELSE RelativeToFile(filespec, table[at].value)]
           /\ UNCHANGED stage
  <2>1. at \in 1 .. Len(table) /\ DOMAIN table = 1 .. Len(table)
    BY <1>2, IndexOf, TableIsSeq DEF GetPathParam, Found
  <2>2. table[at] \in Parameter
    BY <1>2, <2>1, ElementOfSeq
  <2>3. path \in PathType
    BY <1>2, <2>2, PathOf DEF Parameter, PathType
  <2>4. path = RelativeToFile(filespec, table[at].value)
    BY <1>1, <2>1 DEF PathIsCurrent
  <2>5. table' = [table EXCEPT ![at] = e]
    BY <1>3
  <2> HIDE DEF path
  <2>6. e \in Parameter /\ e.path = path /\ e.value = table[at].value /\ e.type = table[at].type
    BY <2>2, <2>3 DEF Parameter, PathType
  <2> HIDE DEF at, e
  <2>7. /\ table' \in Seq(Parameter) /\ Len(table') = Len(table)
        /\ \A k \in 1 .. Len(table) : table'[k] = IF k = at THEN e ELSE table[k]
    BY <1>2, <2>1, <2>5, <2>6, ExceptSeq
  <2>8. TypeOK'
    BY <1>1, <1>3, <2>7 DEF TypeOK
  <2>9. DOMAIN table' = 1 .. Len(table)
    BY <2>7, LenProperties
  <2>10. PathIsCurrent'
    BY <1>1, <2>1, <2>4, <2>6, <2>7, <2>9 DEF PathIsCurrent
  <2>11. NamesFit'
    BY <1>1, <2>1, <2>6, <2>7, <2>9 DEF NamesFit
  <2> QED BY <2>8, <2>10, <2>11 DEF IInv
<1>4. CASE stage' = "undefined" /\ UNCHANGED table
  BY <1>1, <1>4 DEF IInv, TypeOK, PathIsCurrent, NamesFit
<1> QED BY <1>3, <1>4 DEF GetPathParam

LEMMA WriteKeeps ==
  ASSUME IInv, NEW dir \in Dirs, WriteAndLoad(dir)
  PROVE  IInv'
<1>1. WriteConfig \in Seq(Seq(Char))
  BY FileLines DEF IInv, TypeOK
<1> QED BY <1>1, LoadKeeps DEF WriteAndLoad

LEMMA InitInv == Init => IInv
BY BoundsAssumption DEF Init, IInv, TypeOK, PathIsCurrent, NamesFit

LEMMA NextInv == IInv /\ [Next]_vars => IInv'
<1> SUFFICES ASSUME IInv, [Next]_vars PROVE IInv'
  OBVIOUS
<1>1. CASE constructCTX
  BY <1>1, BoundsAssumption DEF constructCTX, IInv, TypeOK, PathIsCurrent, NamesFit
<1>2. CASE destructCTX
  BY <1>2, BoundsAssumption DEF destructCTX, IInv, TypeOK, PathIsCurrent, NamesFit
<1>3. ASSUME NEW dir \in Dirs, WriteAndLoad(dir) PROVE IInv'
  BY <1>3, WriteKeeps
<1>4. ASSUME NEW dir \in Dirs, NEW lines \in Files, LoadConfig(dir, lines) PROVE IInv'
  <2>1. lines \in Seq(Seq(Char))
    BY FilesAssumption
  <2> QED BY <1>4, <2>1, LoadKeeps
<1>5. ASSUME NEW name \in Names, NEW index \in Indices, GetPathParam(name, index) PROVE IInv'
  BY <1>5, PathKeeps
<1>6. ASSUME NEW name \in Names, NEW index \in Indices, NEW text \in Texts,
             SetStringParam(name, index, text)
      PROVE  IInv'
  <2>1. text \in Seq(ValueChar)
    BY TextsAssumption DEF ValueChar
  <2> QED BY <1>6, <2>1, SetKeeps
<1>7. ASSUME NEW name \in Names, NEW index \in Indices, NEW n \in Numbers, SetIntParam(name, index, n)
      PROVE  IInv'
  BY <1>7, NumbersAreInt, IntTextIsText, SetKeeps DEF SetIntParam
<1>8. ASSUME NEW name \in Names, NEW index \in Indices, NEW b \in BOOLEAN, SetBoolParam(name, index, b)
      PROVE  IInv'
  BY <1>8, BoolTextIsText, SetKeeps DEF SetBoolParam
<1>9. ASSUME NEW name \in Names, NEW index \in Indices, NEW items \in Lists,
             SetListParam(name, index, items)
      PROVE  IInv'
  <2>1. CASE items # <<>> /\ SetStringParam(name, index, ListText(items))
    <3>1. items \in Seq(Seq(ValueChar))
      BY ListsAreText
    <3>2. ListText(items) \in Seq(ValueChar)
      BY <2>1, <3>1, ListTextIsText
    <3> QED BY <2>1, <3>2, SetKeeps
  <2>2. CASE stage' = "undefined" /\ UNCHANGED <<table, filespec>>
    BY <2>2 DEF IInv, TypeOK, PathIsCurrent, NamesFit
  <2> QED BY <1>9, <2>1, <2>2 DEF SetListParam
<1>10. CASE UNCHANGED vars
  BY <1>10 DEF vars, IInv, TypeOK, PathIsCurrent, NamesFit
<1> QED BY <1>1, <1>2, <1>3, <1>4, <1>5, <1>6, <1>7, <1>8, <1>9, <1>10 DEF Next

(***************************************************************************)
(* The variables hold what their C counterparts can: in particular, there  *)
(* are never more than MAX_PARAM entries as long as the context is whole.  *)
(***************************************************************************)
THEOREM TypeCorrect == Spec => []TypeOK
<1>1. IInv => TypeOK
  BY DEF IInv
<1> QED BY <1>1, InitInv, NextInv, PTL DEF Spec

(***************************************************************************)
(* A path that GetPathParam remembers is never a stale one.                *)
(***************************************************************************)
THEOREM PathAlwaysCurrent == Spec => []PathIsCurrent
<1>1. IInv => PathIsCurrent
  BY DEF IInv
<1> QED BY <1>1, InitInv, NextInv, PTL DEF Spec

(***************************************************************************)
(* A call that sets one parameter never changes what is read of another,   *)
(* for all names and indices that GetIndex can tell apart.                 *)
(***************************************************************************)
THEOREM OthersAlwaysUntouched == Spec => []OthersUntouched
<1>1. IInv => OthersUntouched
  <2> SUFFICES ASSUME IInv,
                      NEW n1 \in Names, NEW n2 \in Names, NEW i1 \in Indices, NEW i2 \in Indices,
                      Distinct(n1, i1), Distinct(n2, i2), <<n1, i1>> # <<n2, i2>>,
                      NEW text \in Texts
               PROVE  GetStringParam(Stored(table, n1, i1, text), n2, i2) = GetStringParam(table, n2, i2)
    BY DEF OthersUntouched
  <2>1. table \in Seq(Parameter)
    BY DEF IInv, TypeOK
  <2>2. text \in Seq(ValueChar)
    BY TextsAssumption DEF ValueChar
  <2> QED BY <2>1, <2>2, OthersKeep
<1> QED BY <1>1, InitInv, NextInv, PTL DEF Spec

(***************************************************************************)
(* A string, a number that is not negative, a truth value and a list of    *)
(* plain items are read as they were set, whatever the table held before,  *)
(* and a negative number is never read: for all names, indices and values, *)
(* with ints of 32 bits.                                                   *)
(***************************************************************************)
THEOREM WhatIsSetIsAlwaysRead == Spec => []WhatIsSetIsRead
<1>1. IInv => WhatIsSetIsRead
  <2> SUFFICES ASSUME IInv, NEW name \in Names, NEW index \in Indices
               PROVE  /\ \A text \in Texts :
                           GetStringParam(Stored(table, name, index, text), name, index) = {text}
                      /\ \A n \in Numbers :
                           GetIntParam(Stored(table, name, index, IntText(n)), name, index) = {n} \cap Nat
                      /\ \A b \in BOOLEAN :
                           GetBoolParam(Stored(table, name, index, BoolText(b)), name, index) = {b}
                      /\ \A items \in Lists :
                           Plain(items) =>
                             GetListParam(Stored(table, name, index, ListText(items)), name, index) = {items}
    BY Zenon DEF WhatIsSetIsRead
  <2>1. table \in Seq(Parameter)
    BY DEF IInv, TypeOK
  <2>2. ASSUME NEW text \in Texts
        PROVE  GetStringParam(Stored(table, name, index, text), name, index) = {text}
    <3>1. text \in Seq(ValueChar)
      BY TextsAssumption DEF ValueChar
    <3> QED BY <2>1, <3>1, SetIsRead
  <2>3. ASSUME NEW n \in Numbers
        PROVE  GetIntParam(Stored(table, name, index, IntText(n)), name, index) = {n} \cap Nat
    BY <2>1, IntIsRead
  <2>4. ASSUME NEW b \in BOOLEAN
        PROVE  GetBoolParam(Stored(table, name, index, BoolText(b)), name, index) = {b}
    BY <2>1, BoolIsRead
  <2>5. ASSUME NEW items \in Lists, Plain(items)
        PROVE  GetListParam(Stored(table, name, index, ListText(items)), name, index) = {items}
    BY <2>1, <2>5, ListIsRead
  <2> QED BY <2>2, <2>3, <2>4, <2>5
<1> QED BY <1>1, InitInv, NextInv, PTL DEF Spec

(***************************************************************************)
(* A configuration that WriteConfig writes is read back by LoadConfig's    *)
(* scan, entry by entry and but for the padding, or not at all: for all    *)
(* tables that calls and files can lead to, in which no name begins with   *)
(* ';'.                                                                    *)
(***************************************************************************)
THEOREM AlwaysAllOrNothing == Spec => []AllOrNothing
<1>1. IInv => AllOrNothing
  <2> SUFFICES ASSUME IInv,
                      \A k \in DOMAIN table : table[k].type = <<>> \/ table[k].type[1] # Semicolon
               PROVE  Scanned(WriteConfig) =
                        IF \A k \in DOMAIN table : Readable(table[k])
                        THEN {[k \in DOMAIN table |->
                                 Entry(table[k].type, Stripped(table[k].value))]}
                        ELSE {}
    BY Zenon DEF AllOrNothing
  <2>1. table \in Seq(Parameter) /\ Len(table) <= MaxParam /\ NamesFit
    BY DEF IInv, TypeOK
  <2>2. DOMAIN table = 1 .. Len(table) /\ \A k \in 1 .. Len(table) : table[k] \in Parameter
    BY <2>1, TableIsSeq
  <2>3. \A k \in 1 .. Len(table) : Writable(table[k])
    BY <2>1, <2>2 DEF Writable, NamesFit, Parameter
  <2>4. Scanned(WriteConfig) =
          IF \A k \in 1 .. Len(table) : Readable(table[k])
          THEN {[k \in 1 .. Len(table) |-> Reread(table[k])]}
          ELSE {}
    BY <2>1, <2>3, ScannedBack
  <2> QED BY <2>2, <2>4, Zenon DEF Reread
<1> QED BY <1>1, InitInv, NextInv, PTL DEF Spec
=============================================================================
