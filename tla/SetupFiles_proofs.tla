------------------------- MODULE SetupFiles_proofs -------------------------
(***************************************************************************)
(* For every set of configurations, number of files and of runs, and line  *)
(* length: a byte string that was torn never decodes, nobody works with    *)
(* what no run of gen made, and the parameters come last.                  *)
(***************************************************************************)
EXTENDS SetupFiles, SequenceTheorems, WellFoundedInduction, TLAPS

LEMMA Constants ==
  /\ Base \in Nat /\ 1 < Base
  /\ NumFiles \in Nat /\ 0 < NumFiles
  /\ MaxRuns \in Nat
  /\ LineLen \in Nat /\ 0 < LineLen
BY BaseAssumption, NumFilesAssumption, RunsAssumption, LineAssumption

LEMMA OnePlusOne == 1 + 1 = 2
OBVIOUS

(***************************************************************************)
(* Min is a member, and no member is smaller.                              *)
(***************************************************************************)
LEMMA MinOf ==
  ASSUME NEW S \in SUBSET Nat, S # {}
  PROVE  Min(S) \in S /\ \A y \in S : Min(S) <= y
<1>1. IsWellFoundedOn({p \in Nat \X Nat : p[1] < p[2]}, Nat)
  BY NatLessThanWellFounded DEF OpToRel
<1>2. \E x \in S : \A y \in S : <<y, x>> \notin {p \in Nat \X Nat : p[1] < p[2]}
  BY <1>1, WFMin, Zenon
<1>3. PICK x \in S : \A y \in S : <<y, x>> \notin {p \in Nat \X Nat : p[1] < p[2]}
  BY <1>2
<1>4. ASSUME NEW y \in S PROVE x <= y
  <2>1. x \in Nat /\ y \in Nat
    OBVIOUS
  <2>2. <<y, x>> \notin {p \in Nat \X Nat : p[1] < p[2]}
    BY <1>3
  <2>3. ~ (y < x)
    BY <2>1, <2>2
  <2> QED BY <2>1, <2>3
<1> QED BY <1>4 DEF Min

(***************************************************************************)
(* A set of numbers that has 0, and with a number the next one.            *)
(***************************************************************************)
LEMMA UpTo ==
  ASSUME NEW n \in Nat, NEW S, 0 \in S, \A k \in 1 .. n : k - 1 \in S => k \in S
  PROVE  \A k \in 0 .. n : k \in S
<1> DEFINE T == {k \in 0 .. n : k \notin S}
<1> SUFFICES ASSUME T # {} PROVE FALSE
  OBVIOUS
<1> DEFINE x == Min(T)
<1>1. x \in T /\ \A y \in T : x <= y
  <2>1. T \in SUBSET Nat
    OBVIOUS
  <2> HIDE DEF T
  <2> QED BY <2>1, MinOf
<1> HIDE DEF x
<1>2. x \in 1 .. n /\ x - 1 \in 0 .. n /\ ~ (x <= x - 1)
  BY <1>1
<1>3. x - 1 \notin T
  BY <1>1, <1>2
<1> QED BY <1>1, <1>2, <1>3

(***************************************************************************)
(* A loop that starts with b and does Step[k] in round k has a trace.      *)
(***************************************************************************)
IsLoop(z, n, b, Step) == z[0] = b /\ \A k \in 1 .. n : z[k] = Step[k][z[k - 1]]

LEMMA LoopExists ==
  ASSUME NEW A, NEW b \in A, NEW n \in Nat, NEW Step \in [1 .. n -> [A -> A]]
  PROVE  \E z \in [0 .. n -> A] : IsLoop(z, n, b, Step)
<1> DEFINE S == {k \in 0 .. n : \E z \in [0 .. k -> A] : IsLoop(z, k, b, Step)}
<1>1. 0 \in S
  <2>1. [k \in 0 .. 0 |-> b] \in [0 .. 0 -> A] /\ IsLoop([k \in 0 .. 0 |-> b], 0, b, Step)
    BY DEF IsLoop
  <2>2. 0 \in 0 .. n
    OBVIOUS
  <2> QED BY <2>1, <2>2
<1>2. ASSUME NEW k \in 1 .. n, k - 1 \in S PROVE k \in S
  <2>1. PICK z \in [0 .. k - 1 -> A] : IsLoop(z, k - 1, b, Step)
    BY <1>2
  <2> DEFINE w == [j \in 0 .. k |-> IF j = k THEN Step[k][z[k - 1]] ELSE z[j]]
  <2>2. Step[k] \in [A -> A] /\ z[k - 1] \in A
    BY <1>2
  <2>3. w \in [0 .. k -> A]
    <3>1. ASSUME NEW j \in 0 .. k PROVE (IF j = k THEN Step[k][z[k - 1]] ELSE z[j]) \in A
      <4>1. CASE j = k
        BY <2>2, <4>1
      <4>2. CASE j # k
        <5>1. j \in 0 .. k - 1
          BY <4>2
        <5> QED BY <4>2, <5>1
      <4> QED BY <4>1, <4>2
    <3> QED BY <3>1
  <2>4. w[0] = b
    <3>1. 0 # k /\ 0 \in 0 .. k
      OBVIOUS
    <3>2. z[0] = b
      BY <2>1 DEF IsLoop
    <3> QED BY <3>1, <3>2
  <2>5. ASSUME NEW j \in 1 .. k PROVE w[j] = Step[j][w[j - 1]]
    <3>1. j \in 0 .. k /\ j - 1 \in 0 .. k /\ j - 1 # k
      OBVIOUS
    <3>2. w[j - 1] = z[j - 1]
      BY <3>1
    <3>3. CASE j = k
      BY <3>1, <3>2, <3>3
    <3>4. CASE j # k
      <4>1. j \in 1 .. k - 1
        BY <3>4
      <4>2. z[j] = Step[j][z[j - 1]]
        BY <2>1, <4>1 DEF IsLoop
      <4> QED BY <3>1, <3>2, <3>4, <4>2
    <3> QED BY <3>3, <3>4
  <2>6. IsLoop(w, k, b, Step)
    BY <2>4, <2>5 DEF IsLoop
  <2>7. k \in 0 .. n
    OBVIOUS
  <2> QED BY <2>3, <2>6, <2>7
<1>3. n \in S
  <2> HIDE DEF S
  <2>1. \A k \in 0 .. n : k \in S
    BY <1>1, <1>2, UpTo
  <2> QED BY <2>1
<1> QED BY <1>3

LEMMA BaseIs == Base \in Nat /\ 2 < Base
BY BaseAssumption

LEMMA BaseDivision ==
  ASSUME NEW a \in Nat
  PROVE  a = Base * (a \div Base) + (a % Base) /\ a \div Base \in Int /\ a % Base \in Byte
BY BaseIs DEF Byte

LEMMA TimesLess == \A q \in Int, m \in Nat : q >= m => m * q >= m * m
OBVIOUS

LEMMA TimesNegative == \A q \in Int, m \in Nat : q < 0 => m * q <= - m
OBVIOUS

\* Two bytes are enough for a number below Base * Base.
LEMMA TwoBytesBack ==
  ASSUME NEW n \in Nat, n < Base * Base
  PROVE  /\ TwoBytes(n) \in Seq(Byte) /\ Len(TwoBytes(n)) = 2
         /\ Base * TwoBytes(n)[1] + TwoBytes(n)[2] = n
<1> DEFINE q == n \div Base
           r == n % Base
<1>1. n = Base * q + r /\ q \in Int /\ r \in Byte
  BY BaseDivision
<1>2. Base \in Nat /\ 2 < Base /\ Base * q \in Int /\ Base * Base \in Nat
  BY <1>1, BaseIs
<1> HIDE DEF q, r
<1>3. r \in Nat /\ r < Base
  BY <1>1, <1>2 DEF Byte
<1>4. q < Base
  <2>1. SUFFICES ASSUME q >= Base PROVE FALSE
    BY <1>1, <1>2
  <2>2. Base * q >= Base * Base
    BY <1>1, <1>2, <2>1, TimesLess
  <2> QED BY <1>1, <1>2, <1>3, <2>2
<1>5. q >= 0
  <2>1. SUFFICES ASSUME q < 0 PROVE FALSE
    BY <1>1
  <2>2. Base * q <= - Base
    BY <1>1, <1>2, <2>1, TimesNegative
  <2> QED BY <1>1, <1>2, <1>3, <2>2
<1>6. q \in Byte /\ q % Base = q
  BY <1>1, <1>2, <1>4, <1>5 DEF Byte
<1>7. TwoBytes(n) = <<q, r>>
  BY <1>6 DEF TwoBytes, q, r
<1>8. <<q, r>> \in Seq(Byte) /\ Len(<<q, r>>) = 2 /\ <<q, r>>[1] = q /\ <<q, r>>[2] = r
  BY <1>1, <1>6
<1> QED BY <1>1, <1>7, <1>8, Zenon

(***************************************************************************)
(* Where the fields end.                                                   *)
(***************************************************************************)
LEMMA EndsFacts ==
  ASSUME NEW n \in Nat, NEW lens \in [1 .. n -> Nat]
  PROVE  /\ Ends(lens)[0] = 0
         /\ \A k \in 1 .. n : Ends(lens)[k] = Ends(lens)[k - 1] + lens[k]
         /\ \A k \in 0 .. n : Ends(lens)[k] \in Nat
         /\ \A k \in 0 .. n : \A h \in 0 .. k : Ends(lens)[h] <= Ends(lens)[k]
         /\ Total(lens) = Ends(lens)[n] /\ Len(lens) = n
<1> DEFINE Body(z) == [k \in 0 .. n |-> IF k = 0 THEN 0 ELSE z[k - 1] + lens[k]]
           Step == [k \in 1 .. n |-> [a \in Nat |-> a + lens[k]]]
<1>1. Len(lens) = n
  OBVIOUS
<1>2. Ends(lens) = CHOOSE z : z = Body(z)
  BY <1>1, Zenon DEF Ends
<1>3. Step \in [1 .. n -> [Nat -> Nat]]
  OBVIOUS
<1>4. PICK y \in [0 .. n -> Nat] : IsLoop(y, n, 0, Step)
  <2> HIDE DEF Step
  <2> QED BY <1>3, LoopExists
<1>5. y = Body(y)
  <2>1. ASSUME NEW k \in 0 .. n PROVE y[k] = IF k = 0 THEN 0 ELSE y[k - 1] + lens[k]
    <3>1. CASE k = 0
      BY <1>4, <3>1 DEF IsLoop
    <3>2. CASE k # 0
      <4>1. k \in 1 .. n /\ k - 1 \in 0 .. n
        BY <3>2
      <4>2. y[k - 1] \in Nat /\ y[k] = Step[k][y[k - 1]]
        BY <1>4, <4>1 DEF IsLoop
      <4> QED BY <3>2, <4>1, <4>2
    <3> QED BY <3>1, <3>2
  <2> QED BY <2>1
<1> DEFINE z == CHOOSE z : z = Body(z)
<1>6. z = Body(z)
  BY <1>5
<1> HIDE DEF z
<1>7. z[0] = 0
  <2>1. 0 \in 0 .. n
    OBVIOUS
  <2> QED BY <1>6, <2>1
<1>8. ASSUME NEW k \in 1 .. n PROVE z[k] = z[k - 1] + lens[k] /\ lens[k] \in Nat
  <2>1. k \in 0 .. n /\ k # 0
    OBVIOUS
  <2> QED BY <1>6, <2>1
<1> DEFINE T == {k \in 0 .. n : \A h \in 0 .. k : z[h] \in Nat /\ z[h] <= z[k]}
<1>9. 0 \in T
  BY <1>7
<1>10. ASSUME NEW k \in 1 .. n, k - 1 \in T PROVE k \in T
  <2>1. /\ k \in 0 .. n /\ k - 1 \in 0 .. k - 1
        /\ \A h \in 0 .. k - 1 : z[h] \in Nat /\ z[h] <= z[k - 1]
    BY <1>10
  <2>2. z[k] \in Nat /\ z[k - 1] <= z[k]
    BY <1>8, <2>1
  <2>3. ASSUME NEW h \in 0 .. k PROVE z[h] \in Nat /\ z[h] <= z[k]
    <3>1. CASE h = k
      BY <2>2, <3>1
    <3>2. CASE h # k
      <4>1. h \in 0 .. k - 1
        BY <3>2
      <4>2. z[h] \in Nat /\ z[k - 1] \in Nat /\ z[h] <= z[k - 1]
        BY <2>1, <4>1
      <4> QED BY <2>2, <4>2
    <3> QED BY <3>1, <3>2
  <2> QED BY <2>1, <2>2, <2>3
<1> HIDE DEF T
<1>11. \A k \in 0 .. n : k \in T
  BY <1>9, <1>10, UpTo
<1>12. \A k \in 0 .. n : z[k] \in Nat /\ \A h \in 0 .. k : z[h] <= z[k]
  <2> TAKE k \in 0 .. n
  <2>1. k \in 0 .. k
    OBVIOUS
  <2> QED BY <1>11, <2>1 DEF T
<1>13. Ends(lens) = z
  BY <1>2 DEF z
<1>14. Total(lens) = Ends(lens)[n]
  BY <1>1, Zenon DEF Total
<1> QED BY <1>1, <1>7, <1>8, <1>12, <1>13, <1>14

(***************************************************************************)
(* Byte strings one behind the other.                                      *)
(***************************************************************************)
Joint(z, seqs) ==
  z[0] = <<>> /\ \A k \in 1 .. Len(seqs) : z[k] = z[k - 1] \o seqs[k]

LEMMA FlattenLoop ==
  ASSUME NEW seqs \in Seq(Seq(Byte))
  PROVE  \E z \in [0 .. Len(seqs) -> Seq(Byte)] :
           Joint(z, seqs) /\ FlattenSeq(seqs) = z[Len(seqs)]
<1> DEFINE n == Len(seqs)
           Body(w) == [k \in 1 .. n |-> IF k = 1 THEN seqs[k] ELSE w[k - 1] \o seqs[k]]
           Step == [k \in 1 .. n |-> [a \in Seq(Byte) |-> a \o seqs[k]]]
<1>1. n \in Nat /\ \A k \in 1 .. n : seqs[k] \in Seq(Byte)
  BY LenProperties, ElementOfSeq
<1>2. FlattenSeq(seqs) = IF n = 0 THEN seqs ELSE (CHOOSE w : w = Body(w))[n]
  BY Zenon DEF FlattenSeq
<1> HIDE DEF n
<1>3. Step \in [1 .. n -> [Seq(Byte) -> Seq(Byte)]] /\ <<>> \in Seq(Byte)
  <2>1. ASSUME NEW k \in 1 .. n, NEW a \in Seq(Byte) PROVE a \o seqs[k] \in Seq(Byte)
    BY <1>1, ConcatProperties
  <2> QED BY <2>1
<1>4. PICK y \in [0 .. n -> Seq(Byte)] : IsLoop(y, n, <<>>, Step)
  <2> HIDE DEF Step
  <2> QED BY <1>1, <1>3, LoopExists
<1>5. ASSUME NEW k \in 1 .. n
      PROVE  /\ k - 1 \in 0 .. n /\ k \in 0 .. n /\ y[k] = y[k - 1] \o seqs[k]
             /\ y[k] \in Seq(Byte) /\ y[k - 1] \in Seq(Byte)
  <2>1. k - 1 \in 0 .. n /\ k \in 0 .. n
    BY <1>1
  <2>2. y[k - 1] \in Seq(Byte) /\ y[k] \in Seq(Byte) /\ y[k] = Step[k][y[k - 1]]
    BY <1>4, <2>1 DEF IsLoop
  <2> QED BY <2>1, <2>2
<1>6. y[0] = <<>>
  BY <1>4 DEF IsLoop
<1>7. CASE n = 0
  <2>1. seqs = <<>>
    BY <1>7, EmptySeq DEF n
  <2>2. Joint(y, seqs) /\ FlattenSeq(seqs) = y[n]
    BY <1>2, <1>5, <1>6, <1>7, <2>1 DEF Joint, n
  <2> QED BY <2>2 DEF n
<1>8. CASE n # 0
  <2> DEFINE v == [k \in 1 .. n |-> y[k]]
  <2>1. ASSUME NEW k \in 1 .. n
        PROVE  v[k] = IF k = 1 THEN seqs[k] ELSE v[k - 1] \o seqs[k]
    <3>1. CASE k = 1
      <4>1. y[k] = <<>> \o seqs[k]
        <5>1. y[k] = y[k - 1] \o seqs[k]
          BY <1>5
        <5>2. k - 1 = 0
          BY <3>1
        <5> QED BY <1>6, <5>1, <5>2, Zenon
      <4> QED BY <1>1, <3>1, <4>1, ConcatEmptySeq
    <3>2. CASE k # 1
      <4>1. k - 1 \in 1 .. n
        BY <1>1, <3>2
      <4> QED BY <1>5, <3>2, <4>1
    <3> QED BY <3>1, <3>2
  <2>2. v = Body(v)
    BY <2>1
  <2> DEFINE w == CHOOSE w : w = Body(w)
  <2>3. w = Body(w)
    BY <2>2
  <2> HIDE DEF w
  <2> DEFINE z == [k \in 0 .. n |-> IF k = 0 THEN <<>> ELSE w[k]]
  <2>4. ASSUME NEW k \in 1 .. n PROVE z[k] = z[k - 1] \o seqs[k]
    <3>1. k \in 0 .. n /\ k - 1 \in 0 .. n /\ k # 0
      BY <1>1
    <3>2. z[k] = IF k = 1 THEN seqs[k] ELSE w[k - 1] \o seqs[k]
      BY <2>3, <3>1
    <3>3. CASE k = 1
      <4>1. z[k - 1] = <<>>
        BY <3>1, <3>3
      <4> QED BY <1>1, <3>2, <3>3, <4>1, ConcatEmptySeq
    <3>4. CASE k # 1
      <4>1. k - 1 # 0
        BY <1>1, <3>4
      <4>2. z[k - 1] = w[k - 1]
        BY <3>1, <4>1
      <4> QED BY <3>2, <3>4, <4>2
    <3> QED BY <3>3, <3>4
  <2>5. z[0] = <<>>
    BY <1>1
  <2>6. n \in 0 .. n /\ z[n] = w[n]
    BY <1>1, <1>8
  <2>7. DOMAIN z = 0 .. n /\ z = [k \in 0 .. n |-> z[k]]
    OBVIOUS
  <2> HIDE DEF z
  <2> DEFINE T == {k \in 0 .. n : z[k] \in Seq(Byte)}
  <2>8. 0 \in T
    <3>1. 0 \in 0 .. n
      BY <1>1
    <3> QED BY <1>3, <2>5, <3>1
  <2>9. ASSUME NEW k \in 1 .. n, k - 1 \in T PROVE k \in T
    <3>1. k \in 0 .. n /\ z[k - 1] \in Seq(Byte)
      BY <1>1, <2>9
    <3>2. z[k - 1] \o seqs[k] \in Seq(Byte)
      BY <1>1, <3>1, ConcatProperties
    <3> QED BY <2>4, <3>1, <3>2
  <2> HIDE DEF T
  <2>10. \A k \in 0 .. n : k \in T
    BY <1>1, <2>8, <2>9, UpTo
  <2>11. z \in [0 .. n -> Seq(Byte)]
    BY <2>7, <2>10 DEF T
  <2>12. FlattenSeq(seqs) = z[n]
    BY <1>2, <1>8, <2>6 DEF w
  <2>13. Joint(z, seqs)
    BY <2>4, <2>5 DEF Joint, n
  <2> QED BY <2>11, <2>12, <2>13 DEF n
<1> QED BY <1>7, <1>8

LengthsOf(seqs) == [k \in 1 .. Len(seqs) |-> Len(seqs[k])]

LEMMA LengthsFacts ==
  ASSUME NEW seqs \in Seq(Seq(Byte))
  PROVE  /\ Len(seqs) \in Nat /\ LengthsOf(seqs) \in [1 .. Len(seqs) -> Nat]
         /\ \A k \in 1 .. Len(seqs) : /\ seqs[k] \in Seq(Byte) /\ Len(seqs[k]) \in Nat
                                      /\ LengthsOf(seqs)[k] = Len(seqs[k])
<1>1. Len(seqs) \in Nat
  BY LenProperties
<1>2. ASSUME NEW k \in 1 .. Len(seqs) PROVE seqs[k] \in Seq(Byte) /\ Len(seqs[k]) \in Nat
  BY ElementOfSeq, LenProperties
<1> QED BY <1>1, <1>2 DEF LengthsOf

LEMMA Within ==
  ASSUME NEW a \in Nat, NEW b \in Nat, NEW c, NEW m \in Nat, NEW j \in 1 .. b,
         c = a + b, c <= m
  PROVE  a + j \in 1 .. m
OBVIOUS

\* Each of them is where the lengths before it say.
LEMMA FlattenLaid ==
  ASSUME NEW seqs \in Seq(Seq(Byte))
  PROVE  /\ FlattenSeq(seqs) \in Seq(Byte)
         /\ Len(FlattenSeq(seqs)) = Ends(LengthsOf(seqs))[Len(seqs)]
         /\ \A h \in 1 .. Len(seqs) : \A j \in 1 .. Len(seqs[h]) :
              FlattenSeq(seqs)[Ends(LengthsOf(seqs))[h - 1] + j] = seqs[h][j]
<1> DEFINE n == Len(seqs)
           E == Ends(LengthsOf(seqs))
           Laid(k, z) == /\ Len(z[k]) = E[k]
                         /\ \A h \in 1 .. k : \A j \in 1 .. Len(seqs[h]) : z[k][E[h - 1] + j] = seqs[h][j]
<1>1. n \in Nat /\ \A k \in 1 .. n : seqs[k] \in Seq(Byte) /\ Len(seqs[k]) \in Nat
  BY LengthsFacts
<1>2. /\ E[0] = 0 /\ \A k \in 0 .. n : E[k] \in Nat
      /\ \A k \in 0 .. n : \A h \in 0 .. k : E[h] <= E[k]
      /\ \A k \in 1 .. n : E[k] = E[k - 1] + Len(seqs[k])
  <2>1. LengthsOf(seqs) \in [1 .. n -> Nat] /\ \A k \in 1 .. n : LengthsOf(seqs)[k] = Len(seqs[k])
    BY LengthsFacts
  <2>2. /\ E[0] = 0
        /\ \A k \in 1 .. n : E[k] = E[k - 1] + LengthsOf(seqs)[k]
        /\ \A k \in 0 .. n : E[k] \in Nat
        /\ \A k \in 0 .. n : \A h \in 0 .. k : E[h] <= E[k]
    <3> DEFINE lens == LengthsOf(seqs)
    <3>1. lens \in [1 .. n -> Nat] /\ n \in Nat
      BY <1>1, <2>1
    <3> HIDE DEF lens, n
    <3>2. /\ Ends(lens)[0] = 0
          /\ \A k \in 1 .. n : Ends(lens)[k] = Ends(lens)[k - 1] + lens[k]
          /\ \A k \in 0 .. n : Ends(lens)[k] \in Nat
          /\ \A k \in 0 .. n : \A h \in 0 .. k : Ends(lens)[h] <= Ends(lens)[k]
      BY <3>1, EndsFacts, Zenon
    <3> QED BY <3>2 DEF lens
  <2> QED BY <2>1, <2>2
<1>3. PICK z \in [0 .. n -> Seq(Byte)] : Joint(z, seqs) /\ FlattenSeq(seqs) = z[n]
  BY FlattenLoop
<1>4. z[0] = <<>> /\ \A k \in 1 .. n : z[k] = z[k - 1] \o seqs[k]
  BY <1>3 DEF Joint
<1>5. \A k \in 0 .. n : z[k] \in Seq(Byte) /\ Len(z[k]) \in Nat
  BY <1>3, LenProperties
<1> HIDE DEF n, E
<1> DEFINE T == {k \in 0 .. n : Laid(k, z)}
<1>6. 0 \in T
  BY <1>1, <1>2, <1>4
<1>7. ASSUME NEW k \in 1 .. n, k - 1 \in T PROVE k \in T
  <2> DEFINE a == z[k - 1]
             x == seqs[k]
  <2>1. k \in 0 .. n /\ k - 1 \in 0 .. n /\ Laid(k - 1, z)
    BY <1>1, <1>7
  <2>2. a \in Seq(Byte) /\ x \in Seq(Byte) /\ Len(a) = E[k - 1] /\ z[k] = a \o x
    BY <1>1, <1>4, <1>5, <2>1
  <2>3. E[k] = E[k - 1] + Len(x) /\ E[k - 1] \in Nat /\ Len(x) \in Nat
    BY <1>1, <1>2, <2>1
  <2> HIDE DEF a, x
  <2>4. /\ Len(a \o x) = Len(a) + Len(x)
        /\ \A j \in 1 .. Len(a) + Len(x) : (a \o x)[j] = IF j <= Len(a) THEN a[j] ELSE x[j - Len(a)]
    BY <2>2, ConcatProperties
  <2>5. Len(z[k]) = E[k]
    BY <2>2, <2>3, <2>4
  <2>6. ASSUME NEW j \in 1 .. E[k - 1] PROVE z[k][j] = a[j]
    <3>1. j \in 1 .. Len(a) + Len(x) /\ j <= Len(a)
      BY <2>2, <2>3
    <3> QED BY <2>2, <2>4, <3>1
  <2>7. ASSUME NEW j \in 1 .. Len(x) PROVE z[k][E[k - 1] + j] = x[j]
    <3>1. Len(a) + j \in 1 .. Len(a) + Len(x) /\ ~ (Len(a) + j <= Len(a)) /\ (Len(a) + j) - Len(a) = j
      BY <2>2, <2>3
    <3>2. (a \o x)[Len(a) + j] = x[j]
      BY <2>4, <3>1
    <3> QED BY <2>2, <3>2
  <2>8. ASSUME NEW h \in 1 .. k, NEW j \in 1 .. Len(seqs[h])
        PROVE  z[k][E[h - 1] + j] = seqs[h][j]
    <3>1. CASE h = k
      BY <2>7, <3>1 DEF x
    <3>2. CASE h # k
      <4>1. h \in 1 .. k - 1 /\ h \in 1 .. n /\ h \in 0 .. k - 1 /\ h \in 0 .. n /\ h - 1 \in 0 .. n
        BY <1>1, <3>2
      <4>2. a[E[h - 1] + j] = seqs[h][j]
        BY <2>1, <4>1 DEF a
      <4>3. E[h] = E[h - 1] + Len(seqs[h]) /\ E[h] <= E[k - 1]
        BY <1>2, <2>1, <4>1
      <4>4. E[h - 1] \in Nat /\ Len(seqs[h]) \in Nat
        BY <1>1, <1>2, <4>1
      <4>5. E[h - 1] + j \in 1 .. E[k - 1]
        BY <2>3, <4>3, <4>4, Within
      <4> QED BY <2>6, <4>2, <4>5
    <3> QED BY <3>1, <3>2
  <2> QED BY <2>1, <2>5, <2>8
<1>8. \A k \in 0 .. n : k \in T
  <2> HIDE DEF T
  <2> QED BY <1>1, <1>6, <1>7, UpTo
<1>9. n \in 0 .. n
  BY <1>1
<1>10. Laid(n, z) /\ z[n] \in Seq(Byte)
  BY <1>5, <1>8, <1>9
<1> QED BY <1>3, <1>10 DEF n, E

\* The two bytes for each length.
Header(bsa) == [i \in DOMAIN bsa |-> TwoBytes(Len(bsa[i]))]

LEMMA HeaderLaid ==
  ASSUME NEW bsa \in Seq(Seq(Byte)), \A i \in 1 .. Len(bsa) : Len(bsa[i]) < Base * Base
  PROVE  /\ FlattenSeq(Header(bsa)) \in Seq(Byte)
         /\ Len(FlattenSeq(Header(bsa))) = 2 * Len(bsa)
         /\ \A i \in 1 .. Len(bsa) :
              Base * FlattenSeq(Header(bsa))[2 * i - 1] + FlattenSeq(Header(bsa))[2 * i] = Len(bsa[i])
<1> DEFINE n == Len(bsa)
           H == Header(bsa)
           F == FlattenSeq(H)
           E == Ends(LengthsOf(H))
<1>1. n \in Nat /\ DOMAIN bsa = 1 .. n
  BY LenProperties
<1>2. ASSUME NEW i \in 1 .. n
      PROVE  /\ H[i] \in Seq(Byte) /\ Len(H[i]) = 2
             /\ Base * H[i][1] + H[i][2] = Len(bsa[i])
  <2>1. H[i] = TwoBytes(Len(bsa[i]))
    BY <1>1 DEF Header
  <2>2. Len(bsa[i]) \in Nat /\ Len(bsa[i]) < Base * Base
    BY LengthsFacts
  <2> HIDE DEF H
  <2> QED BY <2>1, <2>2, TwoBytesBack
<1>3. H \in Seq(Seq(Byte)) /\ Len(H) = n
  <2>1. H \in [1 .. n -> Seq(Byte)]
    <3>1. H = [i \in 1 .. n |-> H[i]]
      BY <1>1 DEF Header
    <3> HIDE DEF H
    <3> QED BY <1>2, <3>1
  <2> HIDE DEF H, n
  <2> QED BY <1>1, <2>1
<1> HIDE DEF n, H
<1>4. /\ F \in Seq(Byte) /\ Len(F) = E[n]
      /\ \A h \in 1 .. n : \A j \in 1 .. Len(H[h]) : F[E[h - 1] + j] = H[h][j]
  BY <1>3, FlattenLaid
<1>5. E[0] = 0 /\ \A k \in 1 .. n : E[k] = E[k - 1] + 2
  <2>1. LengthsOf(H) \in [1 .. n -> Nat] /\ \A k \in 1 .. n : LengthsOf(H)[k] = 2
    BY <1>2, <1>3, LengthsFacts
  <2> DEFINE lens == LengthsOf(H)
  <2>2. lens \in [1 .. n -> Nat] /\ n \in Nat /\ \A k \in 1 .. n : lens[k] = 2
    BY <1>1, <2>1
  <2> HIDE DEF lens
  <2>3. Ends(lens)[0] = 0 /\ \A k \in 1 .. n : Ends(lens)[k] = Ends(lens)[k - 1] + lens[k]
    BY <2>2, EndsFacts, Zenon
  <2>4. Ends(lens)[0] = 0 /\ \A k \in 1 .. n : Ends(lens)[k] = Ends(lens)[k - 1] + 2
    BY <2>2, <2>3
  <2> QED BY <2>4 DEF lens
<1> HIDE DEF E, F
<1> DEFINE T == {k \in 0 .. n : E[k] = 2 * k}
<1>6. 0 \in T
  BY <1>1, <1>5
<1>7. ASSUME NEW k \in 1 .. n, k - 1 \in T PROVE k \in T
  BY <1>1, <1>5, <1>7
<1> HIDE DEF T
<1>8. \A k \in 0 .. n : k \in T
  BY <1>1, <1>6, <1>7, UpTo
<1>9. \A k \in 0 .. n : E[k] = 2 * k
  BY <1>8 DEF T
<1>10. Len(F) = 2 * n
  BY <1>1, <1>4, <1>9
<1>11. ASSUME NEW i \in 1 .. n PROVE Base * F[2 * i - 1] + F[2 * i] = Len(bsa[i])
  <2>1. i - 1 \in 0 .. n /\ E[i - 1] = 2 * (i - 1)
    BY <1>1, <1>9
  <2>2. F[E[i - 1] + 1] = H[i][1] /\ F[E[i - 1] + 2] = H[i][2]
    BY <1>2, <1>4
  <2>3. E[i - 1] + 1 = 2 * i - 1 /\ E[i - 1] + 2 = 2 * i
    BY <2>1
  <2>4. F[2 * i - 1] = H[i][1] /\ F[2 * i] = H[i][2]
    BY <2>2, <2>3
  <2> QED BY <1>2, <2>4
<1> QED BY <1>4, <1>10, <1>11 DEF n, F, H
LEMMA ConcatFacts ==
  ASSUME NEW a \in Seq(Byte), NEW b \in Seq(Byte)
  PROVE  /\ a \o b \in Seq(Byte) /\ Len(a) \in Nat /\ Len(b) \in Nat /\ Len(a \o b) = Len(a) + Len(b)
         /\ \A j \in 1 .. Len(a) : (a \o b)[j] = a[j]
         /\ \A j \in 1 .. Len(b) : (a \o b)[Len(a) + j] = b[j]
<1>1. Len(a) \in Nat /\ Len(b) \in Nat
  BY LenProperties
<1>2. /\ a \o b \in Seq(Byte) /\ Len(a \o b) = Len(a) + Len(b)
      /\ \A j \in 1 .. Len(a) + Len(b) : (a \o b)[j] = IF j <= Len(a) THEN a[j] ELSE b[j - Len(a)]
  BY ConcatProperties
<1> DEFINE c == a \o b
<1> HIDE DEF c
<1>3. ASSUME NEW j \in 1 .. Len(a) PROVE c[j] = a[j]
  <2>1. j \in 1 .. Len(a) + Len(b) /\ j <= Len(a)
    BY <1>1
  <2> QED BY <1>2, <2>1 DEF c
<1>4. ASSUME NEW j \in 1 .. Len(b) PROVE c[Len(a) + j] = b[j]
  <2>1. Len(a) + j \in 1 .. Len(a) + Len(b) /\ ~ (Len(a) + j <= Len(a)) /\ (Len(a) + j) - Len(a) = j
    BY <1>1
  <2>2. c[Len(a) + j] = b[(Len(a) + j) - Len(a)]
    BY <1>2, <2>1 DEF c
  <2> QED BY <2>1, <2>2
<1> QED BY <1>1, <1>2, <1>3, <1>4 DEF c

\* What byte_string_encode_array can encode in two bytes for each length.
Encodable(bsa) ==
  /\ bsa \in Seq(Seq(Byte)) /\ Len(bsa) < Base * Base
  /\ \A i \in 1 .. Len(bsa) : Len(bsa[i]) < Base * Base

LEMMA EncodedLaid ==
  ASSUME NEW bsa, Encodable(bsa)
  PROVE  LET bs == byte_string_encode_array(bsa)
             n  == Len(bsa)
             E  == Ends(LengthsOf(bsa))
         IN  /\ bs \in Seq(Byte) /\ Len(bs) = 2 + 2 * n + E[n] /\ Count(bs) = n
             /\ \A i \in 1 .. n : ValueAt(bs, 2 * i + 1) = Len(bsa[i])
             /\ \A h \in 1 .. n : \A j \in 1 .. Len(bsa[h]) : bs[2 + 2 * n + (E[h - 1] + j)] = bsa[h][j]
<1> DEFINE n == Len(bsa)
           E == Ends(LengthsOf(bsa))
           t == TwoBytes(n)
           F == FlattenSeq(Header(bsa))
           C == FlattenSeq(bsa)
           m == t \o F
           bs == m \o C
<1>1. bsa \in Seq(Seq(Byte)) /\ n \in Nat /\ n < Base * Base /\ \A i \in 1 .. n : Len(bsa[i]) < Base * Base
  BY LenProperties DEF Encodable
<1>2. byte_string_encode_array(bsa) = bs
  BY DEF byte_string_encode_array, Header
<1>3. t \in Seq(Byte) /\ Len(t) = 2 /\ Base * t[1] + t[2] = n
  BY <1>1, TwoBytesBack
<1>4. /\ F \in Seq(Byte) /\ Len(F) = 2 * n
      /\ \A i \in 1 .. n : Base * F[2 * i - 1] + F[2 * i] = Len(bsa[i])
  BY <1>1, HeaderLaid
<1>5. /\ C \in Seq(Byte) /\ Len(C) = E[n]
      /\ \A h \in 1 .. n : \A j \in 1 .. Len(bsa[h]) : C[E[h - 1] + j] = bsa[h][j]
  BY <1>1, FlattenLaid
<1>6. /\ \A k \in 0 .. n : E[k] \in Nat /\ E[k] <= E[n]
      /\ \A k \in 1 .. n : E[k] = E[k - 1] + Len(bsa[k]) /\ Len(bsa[k]) \in Nat
  <2> DEFINE lens == LengthsOf(bsa)
  <2>1. lens \in [1 .. n -> Nat] /\ \A k \in 1 .. n : lens[k] = Len(bsa[k]) /\ Len(bsa[k]) \in Nat
    BY <1>1, LengthsFacts
  <2> HIDE DEF lens, n
  <2>2. /\ \A k \in 1 .. n : Ends(lens)[k] = Ends(lens)[k - 1] + lens[k]
        /\ \A k \in 0 .. n : Ends(lens)[k] \in Nat
        /\ \A k \in 0 .. n : \A h \in 0 .. k : Ends(lens)[h] <= Ends(lens)[k]
    <3>1. n \in Nat /\ lens \in [1 .. n -> Nat]
      BY <1>1, <2>1
    <3> QED BY <3>1, EndsFacts, Zenon
  <2>3. n \in 0 .. n
    BY <1>1
  <2>4. \A k \in 0 .. n : Ends(lens)[k] \in Nat /\ Ends(lens)[k] <= Ends(lens)[n]
    BY <2>2, <2>3
  <2>5. \A k \in 1 .. n : Ends(lens)[k] = Ends(lens)[k - 1] + Len(bsa[k]) /\ Len(bsa[k]) \in Nat
    BY <2>1, <2>2
  <2> QED BY <2>4, <2>5 DEF lens
<1> HIDE DEF n, E, t, F, C
<1>7. /\ m \in Seq(Byte) /\ Len(m) = 2 + 2 * n /\ Len(m) \in Nat
      /\ \A j \in 1 .. 2 : m[j] = t[j]
      /\ \A j \in 1 .. 2 * n : m[2 + j] = F[j]
  <2>1. /\ m \in Seq(Byte) /\ Len(m) = Len(t) + Len(F)
        /\ \A j \in 1 .. Len(t) : m[j] = t[j]
        /\ \A j \in 1 .. Len(F) : m[Len(t) + j] = F[j]
    BY <1>3, <1>4, ConcatFacts
  <2> HIDE DEF m
  <2> QED BY <1>1, <1>3, <1>4, <2>1
<1> HIDE DEF m
<1>8. /\ bs \in Seq(Byte) /\ Len(bs) = 2 + 2 * n + E[n]
      /\ \A j \in 1 .. 2 + 2 * n : bs[j] = m[j]
      /\ \A j \in 1 .. E[n] : bs[2 + 2 * n + j] = C[j]
  <2>1. /\ bs \in Seq(Byte) /\ Len(bs) = Len(m) + Len(C)
        /\ \A j \in 1 .. Len(m) : bs[j] = m[j]
        /\ \A j \in 1 .. Len(C) : bs[Len(m) + j] = C[j]
    BY <1>5, <1>7, ConcatFacts
  <2> HIDE DEF bs
  <2> QED BY <1>5, <1>7, <2>1
<1> HIDE DEF bs
<1>9. Count(bs) = n
  <2>1. 1 \in 1 .. 2 + 2 * n /\ 2 \in 1 .. 2 + 2 * n /\ 1 \in 1 .. 2 /\ 2 \in 1 .. 2
    BY <1>1
  <2>2. bs[1] = t[1] /\ bs[2] = t[2]
    BY <1>7, <1>8, <2>1
  <2>3. Base * bs[1] + bs[2] = n
    BY <1>3, <2>2
  <2> QED BY <2>3, OnePlusOne DEF Count, ValueAt
<1>10. ASSUME NEW i \in 1 .. n PROVE ValueAt(bs, 2 * i + 1) = Len(bsa[i])
  <2>1. /\ 2 * i + 1 \in 1 .. 2 + 2 * n /\ 2 * i + 1 + 1 \in 1 .. 2 + 2 * n
        /\ 2 * i - 1 \in 1 .. 2 * n /\ 2 * i \in 1 .. 2 * n
        /\ 2 * i + 1 = 2 + (2 * i - 1) /\ 2 * i + 1 + 1 = 2 + 2 * i
    BY <1>1
  <2>2. bs[2 * i + 1] = F[2 * i - 1]
    BY <1>7, <1>8, <2>1
  <2>3. bs[2 * i + 1 + 1] = F[2 * i]
    BY <1>7, <1>8, <2>1
  <2>4. Base * F[2 * i - 1] + F[2 * i] = Len(bsa[i])
    BY <1>4
  <2> QED BY <2>2, <2>3, <2>4 DEF ValueAt
<1>11. ASSUME NEW h \in 1 .. n, NEW j \in 1 .. Len(bsa[h])
       PROVE  bs[2 + 2 * n + (E[h - 1] + j)] = bsa[h][j]
  <2>1. h - 1 \in 0 .. n /\ h \in 0 .. n /\ n \in 0 .. n
    BY <1>1
  <2>2. E[h - 1] \in Nat /\ E[h] = E[h - 1] + Len(bsa[h]) /\ E[h] <= E[n] /\ E[n] \in Nat /\ Len(bsa[h]) \in Nat
    BY <1>6, <2>1
  <2>3. E[h - 1] + j \in 1 .. E[n]
    BY <2>2, Within
  <2> QED BY <1>5, <1>8, <2>3
<1> QED BY <1>2, <1>8, <1>9, <1>10, <1>11 DEF n, E

(***************************************************************************)
(* byte_string_decode_array gives back what byte_string_encode_array got.  *)
(***************************************************************************)
THEOREM EncodedDecodes ==
  ASSUME NEW bsa, Encodable(bsa)
  PROVE  /\ byte_string_encode_array(bsa) \in Seq(Byte) /\ Whole(byte_string_encode_array(bsa))
         /\ byte_string_decode_array(byte_string_encode_array(bsa)) = bsa
<1> DEFINE n == Len(bsa)
           lens == LengthsOf(bsa)
           E == Ends(lens)
           bs == byte_string_encode_array(bsa)
<1>1. bsa \in Seq(Seq(Byte)) /\ n \in Nat
  BY LenProperties DEF Encodable
<1>2. /\ bs \in Seq(Byte) /\ Len(bs) = 2 + 2 * n + E[n] /\ Count(bs) = n
      /\ \A i \in 1 .. n : ValueAt(bs, 2 * i + 1) = Len(bsa[i])
      /\ \A h \in 1 .. n : \A j \in 1 .. Len(bsa[h]) : bs[2 + 2 * n + (E[h - 1] + j)] = bsa[h][j]
  BY EncodedLaid
<1>3. Lengths(bs) = lens
  BY <1>2, Zenon DEF Lengths, LengthsOf
<1>4. \A k \in 1 .. n : bsa[k] \in Seq(Byte) /\ Len(bsa[k]) \in Nat /\ lens[k] = Len(bsa[k])
  BY <1>1, LengthsFacts
<1>5. lens \in [1 .. n -> Nat]
  BY <1>1, LengthsFacts
<1> HIDE DEF n, lens, bs
<1>6. /\ \A k \in 1 .. n : E[k] = E[k - 1] + lens[k]
      /\ \A k \in 0 .. n : E[k] \in Nat
      /\ \A k \in 0 .. n : \A h \in 0 .. k : E[h] <= E[k]
      /\ Total(lens) = E[n] /\ Len(lens) = n
  BY <1>1, <1>5, EndsFacts, Zenon
<1> HIDE DEF E
<1>7. n \in 0 .. n
  BY <1>1
<1>8. Whole(bs)
  <2>1. E[n] \in Nat
    BY <1>6, <1>7
  <2>2. 2 <= Len(bs) /\ 2 + 2 * n <= Len(bs)
    BY <1>1, <1>2, <2>1
  <2> QED BY <1>2, <1>3, <1>6, <2>2 DEF Whole
<1>9. ASSUME NEW h \in 1 .. n PROVE Field(bs, lens, h) = bsa[h]
  <2> DEFINE a == 2 + 2 * n + E[h - 1]
             x == bsa[h]
             u == SubSeq(bs, a + 1, a + Len(x))
  <2>1. h - 1 \in 0 .. n /\ h \in 0 .. n
    BY <1>1
  <2>2. E[h - 1] \in Nat /\ E[h] = E[h - 1] + Len(x) /\ x \in Seq(Byte) /\ Len(x) \in Nat
    BY <1>4, <1>6, <2>1
  <2>3. a \in Nat /\ 2 + 2 * n + E[h] = a + Len(x)
    BY <1>1, <2>2
  <2>4. Field(bs, lens, h) = u
    <3>1. Field(bs, lens, h) = SubSeq(bs, 2 + 2 * n + E[h - 1] + 1, 2 + 2 * n + E[h])
      BY <1>6, Zenon DEF Field, E
    <3> QED BY <2>3, <3>1
  <2>5. ASSUME NEW j \in 1 .. Len(x) PROVE bs[a + j] = x[j]
    <3>1. bs[2 + 2 * n + (E[h - 1] + j)] = bsa[h][j]
      BY <1>2
    <3>2. 2 + 2 * n + (E[h - 1] + j) = a + j
      BY <1>1, <2>2
    <3> QED BY <3>1, <3>2
  <2> HIDE DEF a, x
  <2>6. ASSUME NEW j \in a + 1 .. a + Len(x) PROVE bs[j] \in Byte
    <3>1. j - a \in 1 .. Len(x) /\ a + (j - a) = j
      BY <2>2, <2>3
    <3>2. bs[j] = x[j - a]
      BY <2>5, <3>1
    <3> QED BY <2>2, <3>1, <3>2, ElementOfSeq
  <2>7. a + 1 \in Int /\ a + Len(x) \in Int
    BY <2>2, <2>3
  <2>8. /\ u \in Seq(Byte)
        /\ Len(u) = IF a + 1 <= a + Len(x) THEN (a + Len(x)) - (a + 1) + 1 ELSE 0
        /\ \A i \in 1 .. (a + Len(x)) - (a + 1) + 1 : u[i] = bs[(a + 1) + i - 1]
    BY <2>6, <2>7, SubSeqProperties
  <2> HIDE DEF u
  <2>9. (a + Len(x)) - (a + 1) + 1 = Len(x) /\ (~ (a + 1 <= a + Len(x)) => Len(x) = 0)
    BY <2>2, <2>3
  <2>10. Len(u) = Len(x)
    BY <2>8, <2>9
  <2>11. ASSUME NEW i \in 1 .. Len(u) PROVE u[i] = x[i]
    <3>1. i \in 1 .. Len(x) /\ (a + 1) + i - 1 = a + i
      BY <2>3, <2>10
    <3>2. u[i] = bs[(a + 1) + i - 1]
      BY <2>8, <2>9, <3>1
    <3> QED BY <2>5, <3>1, <3>2
  <2>12. u = x
    BY <2>2, <2>8, <2>10, <2>11, SeqEqual
  <2> QED BY <2>4, <2>12 DEF x
<1>10. byte_string_decode_array(bs) = [i \in 1 .. n |-> Field(bs, lens, i)]
  BY <1>2, <1>3, <1>8, Zenon DEF byte_string_decode_array
<1>11. bsa = [i \in 1 .. n |-> bsa[i]]
  BY <1>1, LenProperties DEF n
<1> QED BY <1>2, <1>8, <1>9, <1>10, <1>11 DEF bs

LEMMA ProductIsNat == ASSUME NEW a \in Nat, NEW b \in Nat PROVE a * b \in Nat
OBVIOUS

LEMMA SubSeqFacts ==
  ASSUME NEW S, NEW s \in Seq(S), NEW k \in 0 .. Len(s)
  PROVE  /\ SubSeq(s, 1, k) \in Seq(S)
         /\ Len(SubSeq(s, 1, k)) = k
         /\ \A j \in 1 .. k : SubSeq(s, 1, k)[j] = s[j]
OBVIOUS

(***************************************************************************)
(* What byte_string_decode_array decodes, it does not decode with its end  *)
(* missing: the header, or what the header says there is, is not there.    *)
(***************************************************************************)
THEOREM TornNeverDecodes ==
  ASSUME NEW s \in Seq(Byte), Whole(s), NEW k \in 0 .. Len(s) - 1
  PROVE  ~ Whole(SubSeq(s, 1, k))
<1> DEFINE u == SubSeq(s, 1, k)
<1>1. Len(s) \in Nat /\ Len(u) = k /\ (\A j \in 1 .. k : u[j] = s[j]) /\ k < Len(s) /\ k \in Nat
  BY SubSeqFacts
<1>2. SUFFICES ASSUME 2 <= Len(u), 2 + 2 * Count(u) <= Len(u)
               PROVE  Len(u) # 2 + 2 * Count(u) + Total(Lengths(u))
  BY DEF Whole
<1>3. Count(u) = Count(s)
  <2>1. 1 \in 1 .. k /\ 2 \in 1 .. k
    BY <1>1, <1>2
  <2>2. u[1] = s[1] /\ u[2] = s[2]
    BY <1>1, <2>1
  <2> QED
    BY <2>2, OnePlusOne DEF Count, ValueAt
<1>4. Count(s) \in Nat
  <2>1. s[1] \in Byte /\ s[2] \in Byte
    BY <1>1, <1>2
  <2>2. Base \in Nat /\ s[1] \in Nat /\ s[2] \in Nat
    BY <2>1, Constants DEF Byte
  <2>3. Base * s[1] \in Nat
    BY <2>2, ProductIsNat
  <2>4. Base * s[1] + s[2] \in Nat
    BY <2>2, <2>3
  <2> QED
    BY <2>4, OnePlusOne DEF Count, ValueAt
<1>5. \A i \in 1 .. Count(s) : ValueAt(u, 2 * i + 1) = ValueAt(s, 2 * i + 1)
  <2> TAKE i \in 1 .. Count(s)
  <2>1. 2 * i + 1 \in 1 .. k /\ 2 * i + 2 \in 1 .. k /\ (2 * i + 1) + 1 = 2 * i + 2
    BY <1>1, <1>2, <1>3, <1>4
  <2>2. u[2 * i + 1] = s[2 * i + 1] /\ u[2 * i + 2] = s[2 * i + 2]
    BY <1>1, <2>1
  <2> QED
    BY <2>1, <2>2 DEF ValueAt
<1>6. Lengths(u) = Lengths(s)
  BY <1>3, <1>5 DEF Lengths
<1>7. Len(s) = 2 + 2 * Count(s) + Total(Lengths(s))
  BY DEF Whole
<1> HIDE DEF u
<1> QED
  BY <1>1, <1>3, <1>6, <1>7

LEMMA PrefixIsSubSeq ==
  ASSUME NEW t \in Seq(Byte), NEW s \in Seq(Byte), IsPrefix(s, t)
  PROVE  Len(s) \in 0 .. Len(t) /\ s = SubSeq(t, 1, Len(s))
<1>1. Len(s) <= Len(t) /\ SubSeq(s, 1, Len(s)) = SubSeq(t, 1, Len(s))
  BY DEF IsPrefix
<1>2. SubSeq(s, 1, Len(s)) = s
  OBVIOUS
<1> QED
  BY <1>1, <1>2

\* A file that decodes is the whole of what it is the beginning of.
LEMMA WholePrefix ==
  ASSUME NEW t \in Seq(Byte), NEW s \in Seq(Byte), IsPrefix(s, t), Whole(s), Whole(t)
  PROVE  s = t
<1>1. Len(s) \in 0 .. Len(t) /\ s = SubSeq(t, 1, Len(s))
  BY PrefixIsSubSeq
<1>2. ~ (Len(s) \in 0 .. Len(t) - 1)
  BY <1>1, TornNeverDecodes
<1>3. Len(s) = Len(t)
  BY <1>1, <1>2
<1>4. SubSeq(t, 1, Len(t)) = t
  OBVIOUS
<1> QED
  BY <1>1, <1>3, <1>4

LEMMA EmptyIsPrefix ==
  ASSUME NEW t \in Seq(Byte)
  PROVE  IsPrefix(<<>>, t) /\ <<>> \in Seq(Byte)
<1>1. SubSeq(<<>>, 1, 0) = SubSeq(t, 1, 0)
  OBVIOUS
<1>2. Len(<<>>) = 0 /\ 0 <= Len(t)
  OBVIOUS
<1> QED
  BY <1>1, <1>2 DEF IsPrefix

LEMMA LongerPrefix ==
  ASSUME NEW t \in Seq(Byte), NEW s \in Seq(Byte), IsPrefix(s, t), NEW more \in Nat,
         Len(s) + more <= Len(t)
  PROVE  /\ s \o SubSeq(t, Len(s) + 1, Len(s) + more) \in Seq(Byte)
         /\ IsPrefix(s \o SubSeq(t, Len(s) + 1, Len(s) + more), t)
<1> DEFINE u == SubSeq(t, Len(s) + 1, Len(s) + more)
           n == Len(s) + more
<1>1. Len(s) \in Nat /\ Len(t) \in Nat /\ n \in 0 .. Len(t)
  OBVIOUS
<1>2. s = SubSeq(t, 1, Len(s))
  BY PrefixIsSubSeq
<1>3. u \in Seq(Byte) /\ Len(u) = more /\ \A j \in 1 .. more : u[j] = t[Len(s) + j]
  BY <1>1
<1>4. s \o u \in Seq(Byte) /\ Len(s \o u) = n
  BY <1>1, <1>3
<1>5. \A j \in 1 .. n : (s \o u)[j] = t[j]
  <2> SUFFICES ASSUME NEW j \in 1 .. n PROVE (s \o u)[j] = t[j]
    OBVIOUS
  <2>1. CASE j \in 1 .. Len(s)
    <3>1. (s \o u)[j] = s[j]
      BY <2>1, <1>3, <1>4
    <3>2. SubSeq(t, 1, Len(s))[j] = t[j]
      BY <1>1, <2>1
    <3> QED
      BY <3>1, <3>2, <1>2
  <2>2. CASE j \in Len(s) + 1 .. n
    <3>1. (s \o u)[j] = u[j - Len(s)]
      BY <2>2, <1>1, <1>3, <1>4
    <3>2. j - Len(s) \in 1 .. more /\ Len(s) + (j - Len(s)) = j
      BY <2>2, <1>1
    <3> QED
      BY <3>1, <3>2, <1>3
  <2> QED
    BY <2>1, <2>2, <1>1
<1>6. SubSeq(s \o u, 1, n) = SubSeq(t, 1, n)
  <2> HIDE DEF u, n
  <2>1. /\ Len(SubSeq(s \o u, 1, n)) = n /\ SubSeq(s \o u, 1, n) \in Seq(Byte)
        /\ \A j \in 1 .. n : SubSeq(s \o u, 1, n)[j] = (s \o u)[j]
    BY <1>1, <1>4, SubSeqFacts
  <2>2. /\ Len(SubSeq(t, 1, n)) = n /\ SubSeq(t, 1, n) \in Seq(Byte)
        /\ \A j \in 1 .. n : SubSeq(t, 1, n)[j] = t[j]
    BY <1>1, SubSeqFacts
  <2> QED
    BY <2>1, <2>2, <1>5, SeqEqual
<1> HIDE DEF u
<1> QED
  BY <1>1, <1>4, <1>6 DEF IsPrefix
-----------------------------------------------------------------------------

Good == {c \in Configs : c.n <= NumFiles}

(***************************************************************************)
(* What IBE_serialize_params and IBE_split_master encode is read again.    *)
(***************************************************************************)
LEMMA IntBack ==
  ASSUME NEW n \in 0 .. Base - 1
  PROVE  int_from_byte_string(byte_string_set_int(n)) = n
<1> DEFINE bs == <<0, 0, 0, n % Base>>
<1>1. n % Base = n
  BY Constants
<1>2. Len(bs) = 4 /\ bs[1] = 0 /\ bs[2] = 0 /\ bs[3] = 0 /\ bs[4] = n
  BY <1>1
<1>3. Base * 0 = 0 /\ 0 + 0 = 0 /\ n + 0 = n
  BY Constants
<1>4. bs[4] + Base * (bs[3] + Base * (bs[2] + Base * bs[1])) = n
  BY <1>2, <1>3
<1> HIDE DEF bs
<1>5. int_from_byte_string(bs) = n
  BY <1>2, <1>4 DEF int_from_byte_string
<1> QED
  BY <1>5 DEF byte_string_set_int, bs

LEMMA SetIntIsText ==
  ASSUME NEW n \in 0 .. Base - 1
  PROVE  byte_string_set_int(n) \in Seq(Byte) /\ Len(byte_string_set_int(n)) = 4
<1>1. 0 \in Byte /\ n % Base \in Byte
  BY BaseDivision, BaseIs DEF Byte
<1>2. <<0, 0, 0, n % Base>> \in Seq(Byte) /\ Len(<<0, 0, 0, n % Base>>) = 4
  BY <1>1
<1> QED BY <1>2 DEF byte_string_set_int

LEMMA Square == \A m \in Nat : 2 < m => m * m >= 3 * m
OBVIOUS

LEMMA SquareOfBase == Base * Base \in Nat /\ Base * Base > Base + 3 /\ Base * Base > 4
<1>1. Base * Base \in Nat /\ Base * Base >= 3 * Base
  BY BaseIs, Square
<1> QED BY <1>1, BaseIs

LEMMA SmallEnough == \A n : n \in {1, 2, 4} => n < Base * Base
BY SquareOfBase

Fields(r, c) ==
  << <<r>>, byte_string_set_int(c.t), byte_string_set_int(c.n)>> \o [j \in 1 .. c.n |-> <<r, j>>]

LEMMA FieldsEncodable ==
  ASSUME NEW r \in 1 .. MaxRuns, NEW c \in Good
  PROVE  /\ Encodable(Fields(r, c)) /\ Fields(r, c)[1] = <<r>>
         /\ Fields(r, c)[2] = byte_string_set_int(c.t) /\ Fields(r, c)[3] = byte_string_set_int(c.n)
<1> DEFINE x == byte_string_set_int(c.t)
           y == byte_string_set_int(c.n)
           a == << <<r>>, x, y>>
           b == [j \in 1 .. c.n |-> <<r, j>>]
<1>1. r \in Byte /\ r \in Nat
  BY BaseIs, RunsAssumption DEF Byte
<1>2. c.t \in 0 .. Base - 1 /\ c.n \in 0 .. Base - 1
  <2>1. c \in [t : 1 .. Base - 1, n : 1 .. Base - 1]
    BY ConfigsAssumption DEF Good
  <2> QED BY <2>1, BaseIs
<1>3. x \in Seq(Byte) /\ Len(x) = 4 /\ y \in Seq(Byte) /\ Len(y) = 4
  BY <1>2, SetIntIsText
<1> HIDE DEF x, y
<1>4. <<r>> \in Seq(Byte) /\ Len(<<r>>) = 1
  BY <1>1
<1>5. /\ a \in Seq(Seq(Byte)) /\ Len(a) = 3 /\ a[1] = <<r>> /\ a[2] = x /\ a[3] = y
  BY <1>3, <1>4
<1>6. ASSUME NEW j \in 1 .. c.n PROVE b[j] \in Seq(Byte) /\ Len(b[j]) = 2
  <2>1. j \in Byte
    BY <1>2, BaseIs DEF Byte
  <2>2. <<r, j>> \in Seq(Byte) /\ Len(<<r, j>>) = 2
    BY <1>1, <2>1
  <2> QED BY <2>2
<1>7. b \in Seq(Seq(Byte)) /\ Len(b) = c.n /\ c.n \in Nat
  <2>1. c.n \in Nat
    BY <1>2, BaseIs
  <2>2. b \in [1 .. c.n -> Seq(Byte)]
    <3>1. b = [j \in 1 .. c.n |-> b[j]]
      OBVIOUS
    <3> HIDE DEF b
    <3> QED BY <1>6, <3>1
  <2> HIDE DEF b
  <2> QED BY <2>1, <2>2
<1> HIDE DEF a, b
<1>8. /\ a \o b \in Seq(Seq(Byte)) /\ Len(a \o b) = 3 + c.n
      /\ \A j \in 1 .. 3 + c.n : (a \o b)[j] = IF j <= 3 THEN a[j] ELSE b[j - 3]
  <2>1. /\ a \o b \in Seq(Seq(Byte)) /\ Len(a \o b) = Len(a) + Len(b)
        /\ \A j \in 1 .. Len(a) + Len(b) : (a \o b)[j] = IF j <= Len(a) THEN a[j] ELSE b[j - Len(a)]
    BY <1>5, <1>7, ConcatProperties
  <2> QED BY <1>5, <1>7, <2>1, Zenon
<1> DEFINE f == a \o b
<1>9. f = Fields(r, c)
  BY DEF a, b, x, y, Fields
<1> HIDE DEF f
<1>10. f \in Seq(Seq(Byte)) /\ Len(f) = 3 + c.n
  BY <1>8 DEF f
<1>11. ASSUME NEW j \in 1 .. Len(f) PROVE Len(f[j]) < Base * Base
  <2>1. f[j] = IF j <= 3 THEN a[j] ELSE b[j - 3]
    BY <1>8, <1>10 DEF f
  <2>2. CASE j <= 3
    <3>1. j = 1 \/ j = 2 \/ j = 3
      BY <1>7, <1>10, <2>2
    <3>2. Len(f[j]) = 1 \/ Len(f[j]) = 4
      BY <1>3, <1>4, <1>5, <2>1, <2>2, <3>1
    <3> QED BY <3>2, SmallEnough
  <2>3. CASE ~ (j <= 3)
    <3>1. j - 3 \in 1 .. c.n
      BY <1>7, <1>10, <2>3
    <3>2. Len(f[j]) = 2
      BY <1>6, <2>1, <2>3, <3>1
    <3> HIDE DEF f
    <3> QED BY <3>2, SmallEnough
  <2> QED BY <2>2, <2>3
<1>12. Len(f) < Base * Base
  BY <1>2, <1>10, BaseIs, SquareOfBase
<1>13. f[1] = <<r>> /\ f[2] = x /\ f[3] = y
  <2>1. 1 \in 1 .. 3 + c.n /\ 2 \in 1 .. 3 + c.n /\ 3 \in 1 .. 3 + c.n
    BY <1>7
  <2>2. f[1] = a[1] /\ f[2] = a[2] /\ f[3] = a[3]
    <3>1. \A j \in 1 .. 3 + c.n : j <= 3 => f[j] = a[j]
      BY <1>8 DEF f
    <3>2. 1 <= 3 /\ 2 <= 3 /\ 3 <= 3
      OBVIOUS
    <3> QED BY <2>1, <3>1, <3>2, Zenon
  <2> QED BY <1>5, <2>2
<1> QED BY <1>9, <1>10, <1>11, <1>12, <1>13 DEF Encodable, x, y

LEMMA SerializeBack ==
  \A r \in 1 .. MaxRuns, c \in Good :
    /\ IBE_serialize_params(r, c) \in Seq(Byte) /\ Whole(IBE_serialize_params(r, c))
    /\ IBE_deserialize_params(IBE_serialize_params(r, c)) = System(r, c)
<1> SUFFICES ASSUME NEW r \in 1 .. MaxRuns, NEW c \in Good
             PROVE  /\ IBE_serialize_params(r, c) \in Seq(Byte) /\ Whole(IBE_serialize_params(r, c))
                    /\ IBE_deserialize_params(IBE_serialize_params(r, c)) = System(r, c)
  OBVIOUS
<1> DEFINE bs == byte_string_encode_array(Fields(r, c))
<1>1. IBE_serialize_params(r, c) = bs
  BY DEF IBE_serialize_params, Fields
<1>2. /\ bs \in Seq(Byte) /\ Whole(bs)
      /\ byte_string_decode_array(bs) = Fields(r, c)
  BY FieldsEncodable, EncodedDecodes
<1>3. /\ Fields(r, c)[1] = <<r>>
      /\ Fields(r, c)[2] = byte_string_set_int(c.t) /\ Fields(r, c)[3] = byte_string_set_int(c.n)
  BY FieldsEncodable
<1>4. c.t \in 0 .. Base - 1 /\ c.n \in 0 .. Base - 1
  <2>1. c \in [t : 1 .. Base - 1, n : 1 .. Base - 1]
    BY ConfigsAssumption DEF Good
  <2> QED BY <2>1, BaseIs
<1>5. int_from_byte_string(Fields(r, c)[2]) = c.t /\ int_from_byte_string(Fields(r, c)[3]) = c.n
  BY <1>3, <1>4, IntBack
<1>6. Fields(r, c)[1][1] = r
  BY <1>3
<1> HIDE DEF bs
<1>7. IBE_deserialize_params(bs) = System(r, c)
  BY <1>2, <1>5, <1>6, Zenon DEF IBE_deserialize_params, System
<1> QED BY <1>1, <1>2, <1>7

LEMMA ShareSplits ==
  \A r \in 1 .. MaxRuns, i \in 1 .. NumFiles :
    /\ ShareBytes(r, i) \in Seq(Byte) /\ Whole(ShareBytes(r, i))
    /\ byte_string_split(ShareBytes(r, i)) = <<byte_string_set_int(i - 1), <<r, i>>>>
<1> SUFFICES ASSUME NEW r \in 1 .. MaxRuns, NEW i \in 1 .. NumFiles
             PROVE  /\ ShareBytes(r, i) \in Seq(Byte) /\ Whole(ShareBytes(r, i))
                    /\ byte_string_split(ShareBytes(r, i)) = <<byte_string_set_int(i - 1), <<r, i>>>>
  OBVIOUS
<1> DEFINE x == byte_string_set_int(i - 1)
           y == <<r, i>>
           bsa == <<x, y>>
           bs == byte_string_encode_array(bsa)
<1>1. r \in Byte /\ i \in Byte /\ i - 1 \in 0 .. Base - 1
  BY BaseIs, RunsAssumption, NumFilesAssumption, PKGAssumption DEF Byte
<1>2. x \in Seq(Byte) /\ Len(x) = 4
  BY <1>1, SetIntIsText
<1>3. y \in Seq(Byte) /\ Len(y) = 2
  BY <1>1
<1> HIDE DEF x, y
<1>4. bsa \in Seq(Seq(Byte)) /\ Len(bsa) = 2 /\ bsa[1] = x /\ bsa[2] = y
  BY <1>2, <1>3
<1> HIDE DEF bsa
<1>5. ASSUME NEW j \in 1 .. Len(bsa) PROVE Len(bsa[j]) < Base * Base
  <2>1. j = 1 \/ j = 2
    BY <1>4
  <2>2. Len(bsa[j]) = 4 \/ Len(bsa[j]) = 2
    BY <1>2, <1>3, <1>4, <2>1
  <2> QED BY <2>2, SmallEnough
<1>6. Encodable(bsa)
  <2>1. Len(bsa) < Base * Base
    BY <1>4, SquareOfBase
  <2> QED BY <1>4, <1>5, <2>1 DEF Encodable
<1>7. bs \in Seq(Byte) /\ Whole(bs) /\ byte_string_decode_array(bs) = bsa
  BY <1>6, EncodedDecodes
<1>8. ShareBytes(r, i) = bs
  BY DEF ShareBytes, byte_string_join, bsa, x, y
<1> HIDE DEF bs
<1>9. byte_string_split(bs) = bsa
  BY <1>4, <1>7 DEF byte_string_split
<1> QED BY <1>7, <1>8, <1>9 DEF bsa, x, y

LEMMA ConfigFacts ==
  ASSUME NEW c \in Good
  PROVE  c.n \in 1 .. NumFiles /\ c.t \in Nat /\ c \in Configs /\ c.n <= NumFiles
<1>1. c \in [t : 1 .. Base - 1, n : 1 .. Base - 1] /\ c.n <= NumFiles /\ c \in Configs
  BY ConfigsAssumption DEF Good
<1>2. c.t \in 1 .. Base - 1 /\ c.n \in 1 .. Base - 1
  BY <1>1
<1> QED
  BY <1>1, <1>2, Constants

LEMMA BytesFacts ==
  ASSUME NEW r \in 1 .. MaxRuns, NEW c \in Good, NEW f \in 0 .. c.n
  PROVE  Bytes(f, r, c) \in Seq(Byte) /\ Whole(Bytes(f, r, c))
<1>1. c.n \in 1 .. NumFiles /\ c \in {d \in Configs : d.n <= NumFiles}
  BY ConfigFacts DEF Good
<1>2. CASE f = ParamsFile
  BY <1>1, <1>2, SerializeBack DEF Bytes
<1>3. CASE f # ParamsFile
  <2>1. f \in 1 .. NumFiles
    BY <1>1, <1>3, Constants DEF ParamsFile
  <2> QED
    BY <2>1, <1>3, ShareSplits DEF Bytes
<1> QED
  BY <1>2, <1>3

LEMMA OrderFacts ==
  ASSUME NEW n \in Nat, NEW p \in 1 .. n + 1
  PROVE  /\ Order(n)[p] = IF p <= n THEN p ELSE 0
         /\ Order(n)[p] \in 0 .. n
BY DEF Order, ParamsFile

\* What gen is at while it saves.
LEMMA CurrentFacts ==
  ASSUME TypeOK, stage # "idle"
  PROVE  /\ Run \in 1 .. MaxRuns /\ Run \in DOMAIN made
         /\ Config \in Good /\ Config.n \in 1 .. NumFiles
         /\ pos \in 1 .. Config.n + 1
         /\ file = IF pos <= Config.n THEN pos ELSE 0
         /\ file \in 0 .. Config.n /\ file \in File
         /\ Content \in Seq(Byte) /\ Whole(Content)
<1>1. made \in Seq(Good) /\ Run <= MaxRuns /\ 0 < Run /\ Run \in Nat
  BY DEF TypeOK, Good, Run
<1>2. Run \in 1 .. MaxRuns /\ Run \in DOMAIN made
  BY <1>1, Constants DEF Run
<1>3. Config \in Good
  BY <1>1, <1>2 DEF Config
<1>4. Config.n \in 1 .. NumFiles
  BY <1>3, ConfigFacts
<1>5. pos \in Nat \ {0} /\ pos <= Config.n + 1
  BY DEF TypeOK
<1>6. pos \in 1 .. Config.n + 1 /\ Config.n \in Nat
  BY <1>4, <1>5
<1>7. file = (IF pos <= Config.n THEN pos ELSE 0) /\ file \in 0 .. Config.n
  BY <1>6, OrderFacts DEF file
<1>8. file \in File
  BY <1>4, <1>7, Constants DEF File
<1>9. Content \in Seq(Byte) /\ Whole(Content)
  BY <1>2, <1>3, <1>7, BytesFacts DEF Content
<1> QED
  BY <1>2, <1>3, <1>4, <1>6, <1>7, <1>8, <1>9

(***************************************************************************)
(* What can be loaded: the whole of what a run wrote.                      *)
(***************************************************************************)
LEMMA BegunWhole ==
  ASSUME NEW runs \in Seq(Good), Len(runs) <= MaxRuns, NEW bs \in Seq(Byte), NEW f \in Nat,
         Begun(runs, bs, f), Whole(bs)
  PROVE  \E r \in DOMAIN runs : r \in 1 .. MaxRuns /\ f <= runs[r].n /\ runs[r] \in Good
                                /\ bs = Bytes(f, r, runs[r])
<1>1. PICK r \in DOMAIN runs : f <= runs[r].n /\ IsPrefix(bs, Bytes(f, r, runs[r]))
  BY DEF Begun
<1>2. r \in 1 .. MaxRuns /\ runs[r] \in Good
  BY Constants
<1>3. f \in 0 .. runs[r].n
  BY <1>1, <1>2, ConfigFacts
<1>4. Bytes(f, r, runs[r]) \in Seq(Byte) /\ Whole(Bytes(f, r, runs[r]))
  BY <1>2, <1>3, BytesFacts
<1>5. bs = Bytes(f, r, runs[r])
  BY <1>1, <1>4, WholePrefix
<1> QED
  BY <1>1, <1>2, <1>5

LEMMA Decodes ==
  ASSUME NEW bs, byte_string_decode_array(bs) # <<>>
  PROVE  Whole(bs)
BY DEF byte_string_decode_array

LEMMA ParamsAreMade ==
  ASSUME TypeOK, DiskIsMade, ParamsLoad
  PROVE  \E r \in DOMAIN made : /\ r \in 1 .. MaxRuns /\ made[r] \in Good
                                /\ disk[ParamsFile] = IBE_serialize_params(r, made[r])
                                /\ Params = System(r, made[r])
<1>1. /\ made \in Seq(Good) /\ Len(made) <= MaxRuns
      /\ ParamsFile \in DOMAIN disk /\ disk[ParamsFile] \in Seq(Byte) /\ ParamsFile \in Nat
  BY DEF TypeOK, Good, Run, ParamsLoad, ParamsFile
<1>2. Begun(made, disk[ParamsFile], ParamsFile) /\ Whole(disk[ParamsFile])
  BY <1>1, Decodes DEF DiskIsMade, ParamsLoad
<1>3. PICK r \in DOMAIN made : /\ r \in 1 .. MaxRuns /\ made[r] \in Good
                               /\ disk[ParamsFile] = Bytes(ParamsFile, r, made[r])
  BY <1>1, <1>2, BegunWhole
<1>4. disk[ParamsFile] = IBE_serialize_params(r, made[r])
  BY <1>3 DEF Bytes
<1>5. IBE_deserialize_params(IBE_serialize_params(r, made[r])) = System(r, made[r])
  BY <1>3, SerializeBack DEF Good
<1>6. Params = System(r, made[r])
  BY <1>4, <1>5 DEF Params
<1> QED
  BY <1>3, <1>4, <1>6

LEMMA SplitNeedsWhole ==
  ASSUME NEW bs, byte_string_split(bs)[2] # <<>>
  PROVE  Whole(bs)
<1> SUFFICES ASSUME ~ Whole(bs) PROVE FALSE
  OBVIOUS
<1>1. byte_string_decode_array(bs) = <<>>
  BY DEF byte_string_decode_array
<1>2. Len(byte_string_decode_array(bs)) # 2
  BY <1>1
<1>3. byte_string_split(bs) = << <<>>, <<>> >>
  BY <1>2 DEF byte_string_split
<1> QED
  BY <1>3

LEMMA ExtractedIsMade ==
  ASSUME TypeOK, PkgIsMade, NEW i \in DOMAIN pkg, Extracted(i).y # <<>>
  PROVE  /\ Extracted(i).index = Extracted(i).from - 1
         /\ \E r \in 1 .. Run : Extracted(i).y = <<r, Extracted(i).from>>
<1> DEFINE bs == pkg[i].mshare
           f  == pkg[i].from
<1>1. /\ made \in Seq(Good) /\ Len(made) <= MaxRuns /\ bs \in Seq(Byte)
      /\ f \in 1 .. NumFiles /\ f \in Nat /\ f # ParamsFile
  BY Constants DEF TypeOK, Good, Run, ParamsFile
<1>2. /\ Extracted(i).index = int_from_byte_string(byte_string_split(bs)[1])
      /\ Extracted(i).y = byte_string_split(bs)[2]
      /\ Extracted(i).from = f
  BY DEF Extracted
<1>3. Whole(bs)
  BY <1>2, SplitNeedsWhole
<1>4. Begun(made, bs, f)
  BY DEF PkgIsMade
<1> HIDE DEF bs, f
<1>5. PICK r \in DOMAIN made : r \in 1 .. MaxRuns /\ bs = Bytes(f, r, made[r])
  BY <1>1, <1>3, <1>4, BegunWhole
<1>6. byte_string_split(bs) = <<byte_string_set_int(f - 1), <<r, f>>>>
  BY <1>1, <1>5, ShareSplits DEF Bytes
<1>7. f - 1 \in 0 .. Base - 1
  <2>1. NumFiles < Base
    BY PKGAssumption
  <2> QED
    BY <2>1, <1>1, Constants
<1>8. int_from_byte_string(byte_string_set_int(f - 1)) = f - 1
  BY <1>7, IntBack
<1>9. r \in 1 .. Run
  BY <1>1, <1>5 DEF Run
<1> QED
  BY <1>2, <1>6, <1>8, <1>9

(***************************************************************************)
(* More runs leave what was begun in earlier ones.                         *)
(***************************************************************************)
LEMMA RunsGrow ==
  ASSUME NEW runs \in Seq(Good), NEW c \in Good
  PROVE  /\ DOMAIN runs \subseteq DOMAIN Append(runs, c)
         /\ \A r \in DOMAIN runs : Append(runs, c)[r] = runs[r]
         /\ Len(Append(runs, c)) = Len(runs) + 1
         /\ Append(runs, c)[Len(runs) + 1] = c
OBVIOUS

LEMMA BegunGrows ==
  ASSUME NEW runs \in Seq(Good), NEW c \in Good, NEW bs, NEW f, Begun(runs, bs, f)
  PROVE  Begun(Append(runs, c), bs, f)
<1>1. PICK r \in DOMAIN runs : f <= runs[r].n /\ IsPrefix(bs, Bytes(f, r, runs[r]))
  BY DEF Begun
<1>2. r \in DOMAIN Append(runs, c) /\ Append(runs, c)[r] = runs[r]
  BY RunsGrow
<1> QED
  BY <1>1, <1>2 DEF Begun

LEMMA SystemsGrow ==
  ASSUME NEW runs \in Seq(Good), NEW c \in Good
  PROVE  Systems(runs) \subseteq Systems(Append(runs, c))
<1> SUFFICES ASSUME NEW p \in Systems(runs) PROVE p \in Systems(Append(runs, c))
  OBVIOUS
<1>1. PICK r \in DOMAIN runs : p = System(r, runs[r])
  BY DEF Systems
<1>2. r \in DOMAIN Append(runs, c) /\ Append(runs, c)[r] = runs[r]
  BY RunsGrow
<1> QED
  BY <1>1, <1>2 DEF Systems

\* gen does not forget the runs there were.
LEMMA MadeStays ==
  ASSUME TypeOK, [Next]_vars
  PROVE  \/ made' = made /\ Run' = Run
         \/ \E c \in Good : /\ made' = Append(made, c) /\ Run' = Run + 1 /\ Run < MaxRuns
                            /\ Start(c)
<1>1. made \in Seq(Good) /\ Run \in Nat
  BY DEF TypeOK, Good, Run
<1>2. ASSUME NEW c \in Configs, Start(c)
      PROVE  c \in Good /\ made' = Append(made, c) /\ Run' = Run + 1 /\ Run < MaxRuns
  <2>1. c \in Good /\ made' = Append(made, c) /\ Run < MaxRuns
    BY <1>2 DEF Start, Good
  <2> QED
    BY <2>1, <1>1, RunsGrow DEF Run
<1>3. CASE UNCHANGED made
  BY <1>3 DEF Run
<1>4. \/ \E c \in Configs : Start(c)
      \/ UNCHANGED made
  <2>1. CASE Open \/ OpenFails \/ Write \/ Close \/ Killed
    BY <2>1 DEF Open, OpenFails, Write, Close, Killed, gen
  <2>2. CASE \E i \in PKG : Serve(i) \/ \E f \in File : StartPkg(i, f)
    BY <2>2 DEF Serve, StartPkg, gen
  <2>3. CASE UNCHANGED vars
    BY <2>3 DEF vars
  <2> QED
    BY <2>1, <2>2, <2>3 DEF Next, Gen
<1> QED
  BY <1>2, <1>3, <1>4
-----------------------------------------------------------------------------
\* gen leaves every file alone but the one it is at, which stays the beginning
\* of its content.
LEMMA DiskStep ==
  ASSUME TypeOK, AtFile, Next
  PROVE  \/ disk' = disk /\ (stage' # "write" \/ UNCHANGED gen)
         \/ /\ stage # "idle" /\ made' = made /\ pos' = pos /\ stage' = "write"
            /\ DOMAIN disk' = DOMAIN disk \cup {file}
            /\ \A f \in DOMAIN disk \ {file} : disk'[f] = disk[f]
            /\ disk'[file] \in Seq(Byte) /\ IsPrefix(disk'[file], Content)
            /\ lost' = lost
<1>1. CASE Open
  <2>1. stage # "idle" /\ disk' = With(disk, file, <<>>) /\ made' = made /\ pos' = pos
        /\ stage' = "write" /\ lost' = lost
    BY <1>1 DEF Open, history
  <2>2. Content \in Seq(Byte)
    BY <2>1, CurrentFacts
  <2>3. /\ DOMAIN disk' = DOMAIN disk \cup {file} /\ disk'[file] = <<>>
        /\ \A f \in DOMAIN disk \ {file} : disk'[f] = disk[f]
    BY <2>1 DEF With
  <2> QED
    BY <1>1, <2>1, <2>2, <2>3, EmptyIsPrefix
<1>2. CASE Write
  <2>1. stage = "write" /\ made' = made /\ pos' = pos /\ stage' = stage /\ lost' = lost
    BY <1>2 DEF Write, gen, history
  <2>2. Content \in Seq(Byte) /\ file \in DOMAIN disk /\ IsPrefix(disk[file], Content)
        /\ disk[file] \in Seq(Byte)
    BY <2>1, CurrentFacts DEF AtFile, TypeOK
  <2>3. PICK more \in 1 .. LineLen :
          /\ Len(disk[file]) + more <= Len(Content)
          /\ disk' = [disk EXCEPT ![file] =
               disk[file] \o SubSeq(Content, Len(disk[file]) + 1, Len(disk[file]) + more)]
    BY <1>2 DEF Write
  <2>4. more \in Nat
    BY <2>3, Constants
  <2>5. /\ disk'[file] = disk[file] \o SubSeq(Content, Len(disk[file]) + 1, Len(disk[file]) + more)
        /\ DOMAIN disk' = DOMAIN disk
        /\ \A f \in DOMAIN disk \ {file} : disk'[f] = disk[f]
    BY <2>2, <2>3
  <2>6. disk'[file] \in Seq(Byte) /\ IsPrefix(disk'[file], Content)
    BY <2>2, <2>3, <2>4, <2>5, LongerPrefix
  <2> QED
    BY <1>2, <2>1, <2>2, <2>5, <2>6
<1>3. CASE OpenFails \/ Close \/ Killed \/ \E c \in Configs : Start(c)
  BY <1>3 DEF OpenFails, Close, Killed, Start, Advance
<1>4. CASE \E i \in PKG : Serve(i) \/ \E f \in File : StartPkg(i, f)
  BY <1>4 DEF Serve, StartPkg
<1> QED
  BY <1>1, <1>2, <1>3, <1>4 DEF Next, Gen

LEMMA PkgStep ==
  ASSUME NEW i \in PKG, NEW f \in File, StartPkg(i, f), TypeOK
  PROVE  /\ DOMAIN pkg' = DOMAIN pkg \cup {i}
         /\ pkg'[i].params = Params /\ pkg'[i].mshare = disk[f] /\ pkg'[i].from = f
         /\ \A j \in DOMAIN pkg \ {i} : pkg'[j] = pkg[j]
         /\ f \in DOMAIN disk /\ disk[f] \in Seq(Byte) /\ f \in 1 .. NumFiles
         /\ made' = made /\ disk' = disk /\ ParamsLoad
<1>1. f \in {i, 1} /\ f \in DOMAIN disk /\ made' = made /\ disk' = disk /\ ParamsLoad
  BY DEF StartPkg, gen
<1>2. f \in 1 .. NumFiles
  BY <1>1, PKGAssumption, Constants
<1>3. pkg' = With(pkg, i, [params |-> Params, mshare |-> disk[f], from |-> f])
  BY DEF StartPkg
<1>4. disk[f] \in Seq(Byte)
  BY <1>1 DEF TypeOK
<1>5. /\ DOMAIN pkg' = DOMAIN pkg \cup {i}
      /\ pkg'[i] = [params |-> Params, mshare |-> disk[f], from |-> f]
      /\ \A j \in DOMAIN pkg \ {i} : pkg'[j] = pkg[j]
  BY <1>3 DEF With
<1> QED
  BY <1>1, <1>2, <1>4, <1>5

LEMMA PkgStays ==
  ASSUME Next
  PROVE  pkg' = pkg \/ \E i \in PKG, f \in File : StartPkg(i, f)
<1>1. CASE Open \/ OpenFails \/ Write \/ Close \/ Killed \/ \E c \in Configs : Start(c)
  BY <1>1 DEF Open, OpenFails, Write, Close, Killed, Start
<1>2. CASE \E i \in PKG : Serve(i)
  BY <1>2 DEF Serve
<1> QED
  BY <1>1, <1>2 DEF Next, Gen

-----------------------------------------------------------------------------
LEMMA InitIInv == Init => IInv
<1> SUFFICES ASSUME Init PROVE IInv
  OBVIOUS
<1>1. Run = 0 /\ made = <<>> /\ disk = <<>> /\ pkg = <<>> /\ shares = {} /\ stage = "idle"
  BY DEF Init, Run
<1>2. TypeOK
  BY <1>1, Constants DEF TypeOK, Init
<1>3. ~ ParamsLoad
  BY <1>1 DEF ParamsLoad
<1> QED
  BY <1>1, <1>2, <1>3
     DEF IInv, DiskIsMade, PkgIsMade, AtFile, BeforeIt, LoadedIsWhole, ParamsAreLast

(***************************************************************************)
(* Types.                                                                  *)
(***************************************************************************)
LEMMA MadeType ==
  ASSUME TypeOK, [Next]_vars
  PROVE  made' \in Seq(Good) /\ Run' <= MaxRuns
<1>1. made \in Seq(Good) /\ Run \in Nat /\ Run <= MaxRuns
  BY DEF TypeOK, Good, Run
<1> QED
  BY <1>1, MadeStays, AppendProperties, Constants

LEMMA GenType ==
  ASSUME TypeOK, [Next]_vars
  PROVE  /\ stage' \in {"idle", "open", "write"}
         /\ pos' \in Nat \ {0} /\ (stage' # "idle" => 0 < Run' /\ pos' <= Config'.n + 1)
<1>1. CASE \E c \in Configs : Start(c)
  <2>1. PICK c \in Good : Run' = Run + 1 /\ made' = Append(made, c) /\ Start(c)
    BY <1>1, MadeStays DEF Start, Good, TypeOK, Run
  <2>2. stage' = "open" /\ pos' = 1
    BY <2>1 DEF Start
  <2>3. made \in Seq(Good) /\ Run \in Nat /\ Run = Len(made)
    BY DEF TypeOK, Good, Run
  <2>4. Config' = c
    BY <2>1, <2>3, RunsGrow DEF Config
  <2>5. c.n \in Nat
    BY ConfigFacts, Constants
  <2> QED
    BY <2>1, <2>2, <2>3, <2>4, <2>5
<1>2. CASE Open \/ OpenFails \/ Write \/ Close \/ Killed
  <2>1. stage # "idle" /\ made' = made /\ Run' = Run /\ Config' = Config
    BY <1>2 DEF Open, OpenFails, Write, Close, Killed, gen, Run, Config
  <2>2. Config.n \in Nat /\ pos \in 1 .. Config.n + 1 /\ Run \in 1 .. MaxRuns
    BY <2>1, CurrentFacts
  <2>3. /\ stage' \in {"idle", "open", "write"}
        /\ pos' \in {pos, Config.n + 1, pos + 1}
        /\ pos' = pos + 1 => pos # Config.n + 1
    BY <1>2, <2>2 DEF Open, OpenFails, Write, Close, Killed, Advance, gen
  <2> QED
    BY <2>1, <2>2, <2>3
<1>3. CASE \E i \in PKG : Serve(i) \/ \E f \in File : StartPkg(i, f)
  BY <1>3 DEF Serve, StartPkg, gen, TypeOK, Run, Config
<1>4. CASE UNCHANGED vars
  BY <1>4 DEF vars, TypeOK, Run, Config
<1> QED
  BY <1>1, <1>2, <1>3, <1>4 DEF Next, Gen

LEMMA FilesType ==
  ASSUME TypeOK, AtFile, [Next]_vars
  PROVE  /\ DOMAIN disk' \subseteq File /\ \A f \in DOMAIN disk' : disk'[f] \in Seq(Byte)
         /\ DOMAIN pkg' \subseteq PKG
         /\ \A i \in DOMAIN pkg' : pkg'[i].mshare \in Seq(Byte) /\ pkg'[i].from \in 1 .. NumFiles
<1>1. CASE UNCHANGED vars
  BY <1>1 DEF vars, TypeOK
<1>2. CASE Next
  <2>1. DOMAIN disk' \subseteq File /\ \A f \in DOMAIN disk' : disk'[f] \in Seq(Byte)
    <3>1. CASE disk' = disk
      BY <3>1 DEF TypeOK
    <3>2. CASE disk' # disk
      <4>1. /\ stage # "idle" /\ DOMAIN disk' = DOMAIN disk \cup {file}
            /\ \A f \in DOMAIN disk \ {file} : disk'[f] = disk[f]
            /\ disk'[file] \in Seq(Byte)
        BY <1>2, <3>2, DiskStep
      <4>2. file \in File
        BY <4>1, CurrentFacts
      <4> QED
        BY <4>1, <4>2 DEF TypeOK
    <3> QED
      BY <3>1, <3>2
  <2>2. DOMAIN pkg' \subseteq PKG
        /\ \A i \in DOMAIN pkg' : pkg'[i].mshare \in Seq(Byte) /\ pkg'[i].from \in 1 .. NumFiles
    <3>1. CASE pkg' = pkg
      BY <3>1 DEF TypeOK
    <3>2. CASE pkg' # pkg
      <4>1. PICK i \in PKG, f \in File : StartPkg(i, f)
        BY <1>2, <3>2, PkgStays
      <4>2. /\ DOMAIN pkg' = DOMAIN pkg \cup {i}
            /\ pkg'[i].mshare = disk[f] /\ pkg'[i].from = f
            /\ \A j \in DOMAIN pkg \ {i} : pkg'[j] = pkg[j]
            /\ disk[f] \in Seq(Byte) /\ f \in 1 .. NumFiles
        BY <4>1, PkgStep
      <4> QED
        BY <4>2 DEF TypeOK
    <3> QED
      BY <3>1, <3>2
  <2> QED
    BY <2>1, <2>2
<1> QED
  BY <1>1, <1>2

LEMMA HistoryType ==
  ASSUME TypeOK, [Next]_vars
  PROVE  lost' \subseteq Nat \X File /\ killed' \subseteq Nat
<1>1. lost \subseteq Nat \X File /\ killed \subseteq Nat
  BY DEF TypeOK
<1>2. CASE \E c \in Configs : Start(c)
  BY <1>1, <1>2 DEF Start
<1>3. CASE Open \/ Write
  BY <1>1, <1>3 DEF Open, Write, history
<1>4. CASE OpenFails
  <2>1. stage # "idle"
    BY <1>4 DEF OpenFails
  <2>2. /\ Run \in Nat /\ Config.n \in Nat /\ Config.n \in 1 .. NumFiles
        /\ pos \in 1 .. Config.n + 1
    BY <2>1, CurrentFacts, Constants
  <2>3. \A k \in 1 .. Config.n + 1 : Order(Config.n)[k] \in File
    <3> TAKE k \in 1 .. Config.n + 1
    <3>1. Order(Config.n)[k] \in 0 .. Config.n
      BY <2>2, OrderFacts
    <3> QED
      BY <3>1, <2>2, Constants DEF File
  <2>4. \A k \in IF pos <= Config.n THEN pos .. Config.n ELSE {pos} : k \in 1 .. Config.n + 1
    BY <2>2
  <2>5. lost' = lost \cup {<<Run, Order(Config.n)[k]>> :
                           k \in IF pos <= Config.n THEN pos .. Config.n ELSE {pos}}
    BY <1>4 DEF OpenFails
  <2>6. killed' = killed
    BY <1>4 DEF OpenFails
  <2> QED
    BY <1>1, <2>2, <2>3, <2>4, <2>5, <2>6
<1>5. CASE Close
  <2>1. stage # "idle" /\ killed' = killed /\ lost' \subseteq lost \cup {<<Run, file>>}
    BY <1>5 DEF Close
  <2>2. Run \in Nat /\ file \in File
    BY <2>1, CurrentFacts
  <2> QED
    BY <1>1, <2>1, <2>2
<1>6. CASE Killed
  <2>1. stage # "idle" /\ killed' = killed \cup {Run} /\ lost' = lost
    BY <1>6 DEF Killed
  <2>2. Run \in Nat
    BY <2>1, CurrentFacts
  <2> QED
    BY <1>1, <2>1, <2>2
<1>7. CASE \E i \in PKG : Serve(i) \/ \E f \in File : StartPkg(i, f)
  BY <1>1, <1>7 DEF Serve, StartPkg
<1>8. CASE UNCHANGED vars
  BY <1>1, <1>8 DEF vars
<1> QED
  BY <1>2, <1>3, <1>4, <1>5, <1>6, <1>7, <1>8 DEF Next, Gen

LEMMA TypeStep == TypeOK /\ AtFile /\ [Next]_vars => TypeOK'
<1> SUFFICES ASSUME TypeOK, AtFile, [Next]_vars PROVE TypeOK'
  OBVIOUS
<1>1. made' \in Seq(Good) /\ Run' <= MaxRuns
  BY MadeType
<1>2. /\ stage' \in {"idle", "open", "write"}
      /\ pos' \in Nat \ {0} /\ (stage' # "idle" => 0 < Run' /\ pos' <= Config'.n + 1)
  BY GenType
<1>3. /\ DOMAIN disk' \subseteq File /\ \A f \in DOMAIN disk' : disk'[f] \in Seq(Byte)
      /\ DOMAIN pkg' \subseteq PKG
      /\ \A i \in DOMAIN pkg' : pkg'[i].mshare \in Seq(Byte) /\ pkg'[i].from \in 1 .. NumFiles
  BY FilesType
<1>4. lost' \subseteq Nat \X File /\ killed' \subseteq Nat
  BY HistoryType
<1> QED
  BY <1>1, <1>2, <1>3, <1>4 DEF TypeOK, Good

(***************************************************************************)
(* What is on disk, and what the PKGs hold.                                *)
(***************************************************************************)
LEMMA BegunStays ==
  ASSUME TypeOK, [Next]_vars, NEW bs, NEW f, Begun(made, bs, f)
  PROVE  Begun(made', bs, f)
<1>1. made \in Seq(Good)
  BY DEF TypeOK, Good
<1> QED
  BY <1>1, MadeStays, BegunGrows

LEMMA DiskMadeStep == TypeOK /\ AtFile /\ DiskIsMade /\ [Next]_vars => DiskIsMade'
<1> SUFFICES ASSUME TypeOK, AtFile, DiskIsMade, [Next]_vars, NEW f \in DOMAIN disk'
             PROVE  Begun(made', disk'[f], f)
  BY DEF DiskIsMade
<1>1. CASE f \in DOMAIN disk /\ disk'[f] = disk[f]
  <2>1. Begun(made, disk[f], f)
    BY <1>1 DEF DiskIsMade
  <2> QED
    BY <1>1, <2>1, BegunStays
<1>2. CASE ~ (f \in DOMAIN disk /\ disk'[f] = disk[f])
  <2>1. Next
    BY <1>2 DEF vars
  <2>2. /\ stage # "idle" /\ made' = made /\ f = file
        /\ IsPrefix(disk'[file], Content)
    BY <1>2, <2>1, DiskStep
  <2>3. Run \in DOMAIN made /\ file <= Config.n
    BY <2>2, CurrentFacts, Constants
  <2> QED
    BY <2>2, <2>3 DEF Begun, Content, Config
<1> QED
  BY <1>1, <1>2

LEMMA PkgMadeStep == TypeOK /\ DiskIsMade /\ PkgIsMade /\ [Next]_vars => PkgIsMade'
<1> SUFFICES ASSUME TypeOK, DiskIsMade, PkgIsMade, [Next]_vars, NEW i \in DOMAIN pkg'
             PROVE  Begun(made', pkg'[i].mshare, pkg'[i].from)
  BY DEF PkgIsMade
<1>1. CASE i \in DOMAIN pkg /\ pkg'[i] = pkg[i]
  <2>1. Begun(made, pkg[i].mshare, pkg[i].from)
    BY <1>1 DEF PkgIsMade
  <2> QED
    BY <1>1, <2>1, BegunStays
<1>2. CASE ~ (i \in DOMAIN pkg /\ pkg'[i] = pkg[i])
  <2>1. PICK j \in PKG, f \in File : StartPkg(j, f)
    BY <1>2, PkgStays DEF vars
  <2>2. /\ i = j /\ pkg'[i].mshare = disk[f] /\ pkg'[i].from = f
        /\ f \in DOMAIN disk /\ made' = made
    BY <1>2, <2>1, PkgStep
  <2> QED
    BY <2>2 DEF DiskIsMade
<1> QED
  BY <1>1, <1>2

LEMMA LoadedStep == TypeOK /\ DiskIsMade /\ PkgIsMade /\ LoadedIsWhole /\ [Next]_vars
                      => LoadedIsWhole'
<1> SUFFICES ASSUME TypeOK, DiskIsMade, PkgIsMade, LoadedIsWhole, [Next]_vars
             PROVE  LoadedIsWhole'
  OBVIOUS
<1>1. made \in Seq(Good)
  BY DEF TypeOK, Good
<1>2. Systems(made) \subseteq Systems(made') /\ Run \in Nat /\ Run' \in Nat /\ Run <= Run'
  <2>1. Run \in Nat
    BY <1>1 DEF Run
  <2>2. Run' \in Nat /\ Run <= Run'
    BY <2>1, MadeStays
  <2>3. Systems(made) \subseteq Systems(made')
    BY <1>1, MadeStays, SystemsGrow, Zenon
  <2> QED
    BY <2>1, <2>2, <2>3
<1>3. \A i \in DOMAIN pkg' : pkg'[i].params \in Systems(made')
  <2> SUFFICES ASSUME NEW i \in DOMAIN pkg' PROVE pkg'[i].params \in Systems(made')
    OBVIOUS
  <2>1. CASE i \in DOMAIN pkg /\ pkg'[i] = pkg[i]
    BY <1>2, <2>1 DEF LoadedIsWhole
  <2>2. CASE ~ (i \in DOMAIN pkg /\ pkg'[i] = pkg[i])
    <3>1. PICK j \in PKG, f \in File : StartPkg(j, f)
      BY <2>2, PkgStays DEF vars
    <3>2. i = j /\ pkg'[i].params = Params /\ ParamsLoad
      BY <2>2, <3>1, PkgStep
    <3>3. Params \in Systems(made)
      BY <3>2, ParamsAreMade DEF Systems
    <3> QED
      BY <3>2, <3>3, <1>2
  <2> QED
    BY <2>1, <2>2
<1>4. \A share \in shares' :
        \E r \in 1 .. Run' : share.index = share.from - 1 /\ share.y = <<r, share.from>>
  <2> SUFFICES ASSUME NEW share \in shares'
               PROVE  \E r \in 1 .. Run' : /\ share.index = share.from - 1
                                           /\ share.y = <<r, share.from>>
    OBVIOUS
  <2>1. CASE share \in shares
    BY <1>2, <2>1 DEF LoadedIsWhole
  <2>2. CASE share \notin shares
    <3>1. PICK i \in PKG : Serve(i)
      <4>1. Next
        BY <2>2 DEF vars
      <4>2. CASE Open \/ OpenFails \/ Write \/ Close \/ Killed \/ \E c \in Configs : Start(c)
        BY <2>2, <4>2 DEF Open, OpenFails, Write, Close, Killed, Start
      <4>3. CASE \E i \in PKG, f \in File : StartPkg(i, f)
        BY <2>2, <4>3 DEF StartPkg
      <4> QED
        BY <4>1, <4>2, <4>3 DEF Next, Gen
    <3>2. i \in DOMAIN pkg /\ Extracted(i).y # <<>> /\ share = Extracted(i)
      BY <2>2, <3>1 DEF Serve
    <3>3. PICK r \in 1 .. Run : share.y = <<r, share.from>> /\ share.index = share.from - 1
      BY <3>2, ExtractedIsMade
    <3>4. r \in 1 .. Run'
      BY <1>2
    <3> QED
      BY <3>3, <3>4
  <2> QED
    BY <2>1, <2>2
<1> QED
  BY <1>3, <1>4 DEF LoadedIsWhole, Run

(***************************************************************************)
(* The file gen is at, and those before it.                                *)
(***************************************************************************)
LEMMA AtFileStep == TypeOK /\ AtFile /\ [Next]_vars => AtFile'
<1> SUFFICES ASSUME TypeOK, AtFile, [Next]_vars, stage' = "write"
             PROVE  file' \in DOMAIN disk' /\ IsPrefix(disk'[file'], Content')
  BY DEF AtFile
<1>1. CASE disk' = disk /\ UNCHANGED gen
  <2>1. stage = "write" /\ file' = file /\ Content' = Content
    BY <1>1 DEF gen, file, Config, Run, Content
  <2> QED
    BY <1>1, <2>1 DEF AtFile
<1>2. CASE ~ (disk' = disk /\ UNCHANGED gen)
  <2>1. Next
    BY <1>2 DEF vars, gen
  <2>2. /\ made' = made /\ pos' = pos
        /\ DOMAIN disk' = DOMAIN disk \cup {file} /\ IsPrefix(disk'[file], Content)
    BY <1>2, <2>1, DiskStep
  <2>3. file' = file /\ Content' = Content
    BY <2>2 DEF file, Config, Run, Content
  <2> QED
    BY <2>2, <2>3
<1> QED
  BY <1>1, <1>2

LEMMA BeforeStep == TypeOK /\ AtFile /\ BeforeIt /\ [Next]_vars => BeforeIt'
<1> SUFFICES ASSUME TypeOK, AtFile, BeforeIt, [Next]_vars, stage' # "idle",
                    NEW k \in 1 .. pos' - 1
             PROVE  \/ <<Run', k>> \in lost'
                    \/ k \in DOMAIN disk' /\ IsPrefix(disk'[k], ShareBytes(Run', k))
  BY DEF BeforeIt
<1> DEFINE Kept(j) == <<Run, j>> \in lost \/ (j \in DOMAIN disk /\ IsPrefix(disk[j], ShareBytes(Run, j)))
<1>1. stage # "idle" => \A j \in 1 .. pos - 1 : Kept(j)
  BY DEF BeforeIt
<1> HIDE DEF Kept
<1>3. CASE Open \/ Write
  <2>1. /\ made' = made /\ pos' = pos /\ lost' = lost /\ stage # "idle"
        /\ DOMAIN disk' = DOMAIN disk \cup {file}
        /\ \A f \in DOMAIN disk \ {file} : disk'[f] = disk[f]
    <3>1. CASE Open
      BY <3>1 DEF Open, With, history
    <3>2. CASE Write
      <4>1. file \in DOMAIN disk
        BY <3>2 DEF Write, AtFile
      <4> QED
        BY <3>2, <4>1 DEF Write, gen, history
    <3> QED
      BY <1>3, <3>1, <3>2
  <2>2. Run' = Run /\ k \in 1 .. pos - 1
    BY <2>1 DEF Run
  <2>3. k # file
    <3>1. Config.n \in Nat /\ pos \in 1 .. Config.n + 1 /\ file = IF pos <= Config.n THEN pos ELSE 0
      BY <2>1, CurrentFacts, Constants
    <3> QED
      BY <2>2, <3>1
  <2>4. Kept(k)
    BY <1>1, <2>1, <2>2
  <2> QED
    BY <2>1, <2>2, <2>3, <2>4 DEF Kept
<1>4. CASE OpenFails
  <2>1. stage # "idle" /\ made' = made /\ disk' = disk /\ pos <= Config.n /\ pos' = Config.n + 1
        /\ lost' = lost \cup {<<Run, Order(Config.n)[j]>> : j \in pos .. Config.n}
    BY <1>4 DEF OpenFails
  <2>2. Run' = Run
    BY <2>1 DEF Run
  <2>3. Config.n \in Nat /\ pos \in 1 .. Config.n + 1
    BY <2>1, CurrentFacts, Constants
  <2>4. CASE k \in 1 .. pos - 1
    <3>1. Kept(k)
      BY <1>1, <2>1, <2>4
    <3> QED
      BY <2>1, <2>2, <3>1 DEF Kept
  <2>5. CASE k \in pos .. Config.n
    <3>1. k \in 1 .. Config.n + 1 /\ k <= Config.n
      BY <2>3, <2>5
    <3>2. Order(Config.n)[k] = k
      BY <2>3, <3>1, OrderFacts
    <3>3. <<Run, k>> \in lost'
      BY <2>1, <2>5, <3>2
    <3> QED
      BY <2>2, <3>3
  <2> QED
    BY <2>1, <2>3, <2>4, <2>5
<1>5. CASE Close
  <2>1. stage = "write" /\ stage # "idle" /\ made' = made /\ disk' = disk /\ lost \subseteq lost'
        /\ pos # Config.n + 1 /\ pos' = pos + 1
    BY <1>5 DEF Close, Advance
  <2>2. Run' = Run
    BY <2>1 DEF Run
  <2>3. /\ Config.n \in Nat /\ pos \in 1 .. Config.n + 1
        /\ file = IF pos <= Config.n THEN pos ELSE 0
    BY <2>1, CurrentFacts, Constants
  <2>4. CASE k \in 1 .. pos - 1
    <3>1. Kept(k)
      BY <1>1, <2>1, <2>4
    <3> QED
      BY <2>1, <2>2, <3>1 DEF Kept
  <2>5. CASE k = pos
    <3>1. file = pos /\ pos # 0
      BY <2>1, <2>3
    <3>2. pos \in DOMAIN disk /\ IsPrefix(disk[pos], Content)
      BY <2>1, <3>1 DEF AtFile
    <3>3. Content = ShareBytes(Run, pos)
      BY <3>1 DEF Content, Bytes, ParamsFile
    <3> QED
      BY <2>1, <2>2, <2>5, <3>2, <3>3
  <2> QED
    BY <2>1, <2>3, <2>4, <2>5
<1>6. CASE UNCHANGED gen /\ UNCHANGED disk /\ UNCHANGED lost
  <2>1. stage # "idle" /\ k \in 1 .. pos - 1 /\ Run' = Run
    BY <1>6 DEF gen, Run
  <2>2. Kept(k)
    BY <1>1, <2>1
  <2> QED
    BY <1>6, <2>1, <2>2 DEF Kept
<1>7. CASE \E c \in Configs : Start(c)
  BY <1>7 DEF Start
<1>8. CASE Killed
  BY <1>8 DEF Killed
<1>9. CASE \E i \in PKG : Serve(i) \/ \E f \in File : StartPkg(i, f)
  BY <1>6, <1>9 DEF Serve, StartPkg
<1>10. CASE UNCHANGED vars
  BY <1>6, <1>10 DEF vars, gen
<1> QED
  BY <1>3, <1>4, <1>5, <1>7, <1>8, <1>9, <1>10 DEF Next, Gen

(***************************************************************************)
(* The parameters come last.                                               *)
(***************************************************************************)
LEMMA LostGrows ==
  ASSUME [Next]_vars
  PROVE  lost \subseteq lost'
<1>1. CASE Open \/ OpenFails \/ Write \/ Close \/ Killed \/ \E c \in Configs : Start(c)
  BY <1>1 DEF Open, OpenFails, Write, Close, Killed, Start, history
<1>2. CASE \E i \in PKG : Serve(i) \/ \E f \in File : StartPkg(i, f)
  BY <1>2 DEF Serve, StartPkg
<1>3. CASE UNCHANGED vars
  BY <1>3 DEF vars
<1> QED
  BY <1>1, <1>2, <1>3 DEF Next, Gen

LEMMA LastStep ==
  TypeOK /\ AtFile /\ BeforeIt /\ DiskIsMade /\ ParamsAreLast /\ [Next]_vars => ParamsAreLast'
<1> SUFFICES ASSUME TypeOK, AtFile, BeforeIt, DiskIsMade, ParamsAreLast, [Next]_vars,
                    ParamsLoad', NEW i \in 1 .. Params'.n
             PROVE  \/ <<Params'.run, i>> \in lost'
                    \/ /\ i \in DOMAIN disk'
                       /\ \E r \in Params'.run .. Run' : IsPrefix(disk'[i], ShareBytes(r, i))
  BY DEF ParamsAreLast
<1>1. Run \in Nat /\ Run' \in Nat /\ Run <= Run'
  <2>1. Run \in Nat
    BY DEF TypeOK, Run
  <2> QED
    BY <2>1, MadeStays
<1>2. ASSUME disk'[ParamsFile] = disk[ParamsFile], ParamsFile \in DOMAIN disk
      PROVE  /\ ParamsLoad /\ Params' = Params
             /\ Params.run \in Nat /\ Params.run <= Run
             /\ \/ <<Params.run, i>> \in lost
                \/ /\ i \in DOMAIN disk
                   /\ \E r \in Params.run .. Run : IsPrefix(disk[i], ShareBytes(r, i))
  <2>1. ParamsLoad /\ Params' = Params
    BY <1>2 DEF ParamsLoad, Params
  <2>2. PICK r \in DOMAIN made : r \in 1 .. MaxRuns /\ Params = System(r, made[r])
    BY <2>1, ParamsAreMade
  <2>3. Params.run = r
    BY <2>2 DEF System
  <2>4. Params.run \in Nat /\ Params.run <= Run
    BY <2>2, <2>3, <1>1 DEF Run, TypeOK
  <2>5. \/ <<Params.run, i>> \in lost
        \/ /\ i \in DOMAIN disk
           /\ \E q \in Params.run .. Run : IsPrefix(disk[i], ShareBytes(q, i))
    BY <2>1 DEF ParamsAreLast
  <2> QED
    BY <2>1, <2>4, <2>5
<1>3. CASE disk' = disk
  <2>1. ParamsFile \in DOMAIN disk
    BY <1>3 DEF ParamsLoad
  <2>2. Params' = Params /\ Params.run \in Nat
    BY <1>2, <1>3, <2>1
  <2>3. CASE <<Params.run, i>> \in lost
    BY <2>2, <2>3, LostGrows
  <2>4. CASE i \in DOMAIN disk /\ \E r \in Params.run .. Run : IsPrefix(disk[i], ShareBytes(r, i))
    <3>1. PICK r \in Params.run .. Run : IsPrefix(disk[i], ShareBytes(r, i))
      BY <2>4
    <3>2. r \in Params'.run .. Run'
      BY <3>1, <2>2, <1>1
    <3> QED
      BY <1>3, <2>4, <3>1, <3>2
  <2> QED
    BY <1>2, <1>3, <2>1, <2>3, <2>4
<1>4. CASE disk' # disk
  <2>1. Next
    BY <1>4 DEF vars
  <2>2. /\ stage # "idle" /\ made' = made
        /\ DOMAIN disk' = DOMAIN disk \cup {file}
        /\ \A f \in DOMAIN disk \ {file} : disk'[f] = disk[f]
        /\ disk'[file] \in Seq(Byte) /\ IsPrefix(disk'[file], Content) /\ lost' = lost
    BY <1>4, <2>1, DiskStep
  <2>3. /\ Run' = Run /\ Run \in 1 .. MaxRuns /\ Run \in DOMAIN made
        /\ Config \in Good /\ Config.n \in Nat /\ pos \in 1 .. Config.n + 1
        /\ file = IF pos <= Config.n THEN pos ELSE 0
        /\ Content \in Seq(Byte) /\ Whole(Content)
    BY <2>2, CurrentFacts, Constants DEF Run
  <2>4. CASE file # ParamsFile
    <3>1. ParamsFile \in DOMAIN disk /\ disk'[ParamsFile] = disk[ParamsFile]
      BY <2>2, <2>4 DEF ParamsLoad
    <3>2. /\ Params' = Params /\ Params.run \in Nat /\ Params.run <= Run
          /\ \/ <<Params.run, i>> \in lost
             \/ /\ i \in DOMAIN disk
                /\ \E r \in Params.run .. Run : IsPrefix(disk[i], ShareBytes(r, i))
      BY <3>1, <1>2
    <3>3. CASE i = file
      <4>1. IsPrefix(disk'[i], ShareBytes(Run, i))
        BY <2>2, <2>4, <3>3 DEF Content, Bytes
      <4>2. Run \in Params'.run .. Run'
        BY <3>2, <2>3, <1>1
      <4> QED
        BY <2>2, <3>3, <4>1, <4>2
    <3>4. CASE i # file
      <4>1. i \in DOMAIN disk => i \in DOMAIN disk' /\ disk'[i] = disk[i]
        BY <2>2, <3>4
      <4> QED
        BY <2>2, <2>3, <3>2, <4>1
    <3> QED
      BY <3>3, <3>4
  <2>5. CASE file = ParamsFile
    <3>1. Whole(disk'[ParamsFile])
      BY Decodes DEF ParamsLoad
    <3>2. disk'[ParamsFile] = Content
      BY <2>2, <2>3, <2>5, <3>1, WholePrefix
    <3>3. Content = IBE_serialize_params(Run, Config)
      BY <2>5 DEF Content, Bytes
    <3>4. IBE_deserialize_params(IBE_serialize_params(Run, Config)) = System(Run, Config)
      BY <2>3, SerializeBack DEF Good
    <3>5. Params' = System(Run, Config)
      BY <3>2, <3>3, <3>4 DEF Params
    <3>6. Params'.run = Run /\ Params'.n = Config.n
      BY <3>5 DEF System
    <3>7. pos = Config.n + 1 /\ i \in 1 .. pos - 1 /\ i # ParamsFile
      BY <2>3, <2>5, <3>6 DEF ParamsFile
    <3>8. <<Run, i>> \in lost \/ (i \in DOMAIN disk /\ IsPrefix(disk[i], ShareBytes(Run, i)))
      BY <2>2, <3>7 DEF BeforeIt
    <3>9. i \in DOMAIN disk => i \in DOMAIN disk' /\ disk'[i] = disk[i]
      BY <2>2, <2>5, <3>7
    <3>10. Run \in Params'.run .. Run'
      BY <2>3, <3>6, <1>1
    <3> QED
      BY <2>2, <3>6, <3>8, <3>9, <3>10
  <2> QED
    BY <2>4, <2>5
<1> QED
  BY <1>3, <1>4
-----------------------------------------------------------------------------
LEMMA StepIInv == IInv /\ [Next]_vars => IInv'
<1> SUFFICES ASSUME IInv, [Next]_vars PROVE IInv'
  OBVIOUS
<1>1. /\ TypeOK /\ DiskIsMade /\ PkgIsMade /\ AtFile /\ BeforeIt
      /\ LoadedIsWhole /\ ParamsAreLast
  BY DEF IInv
<1>2. TypeOK' /\ DiskIsMade' /\ PkgIsMade'
  BY <1>1, TypeStep, DiskMadeStep, PkgMadeStep
<1>3. AtFile' /\ BeforeIt'
  BY <1>1, AtFileStep, BeforeStep
<1>4. LoadedIsWhole' /\ ParamsAreLast'
  BY <1>1, LoadedStep, LastStep
<1> QED
  BY <1>2, <1>3, <1>4 DEF IInv

LEMMA Invariance == Spec => []IInv
BY InitIInv, StepIInv, PTL DEF Spec

(***************************************************************************)
(* The variables hold what the programs and the files can, whatever is     *)
(* torn, lost or left behind.                                              *)
(***************************************************************************)
THEOREM TypeCorrect == Spec => []TypeOK
<1>1. IInv => TypeOK
  BY DEF IInv
<1> QED
  BY <1>1, Invariance, PTL

(***************************************************************************)
(* What a PKG loaded when it started (FMT_load_params), and every key      *)
(* share it makes (IBE_extract_share), is of a system that gen made.       *)
(***************************************************************************)
THEOREM AlwaysLoadedWhole == Spec => []LoadedIsWhole
<1>1. IInv => LoadedIsWhole
  BY DEF IInv
<1> QED
  BY <1>1, Invariance, PTL

(***************************************************************************)
(* gen saves the parameters last: where they can be loaded, no share is    *)
(* older than they are, but for those that gen could not write.            *)
(***************************************************************************)
THEOREM ParamsAlwaysLast == Spec => []ParamsAreLast
<1>1. IInv => ParamsAreLast
  BY DEF IInv
<1> QED
  BY <1>1, Invariance, PTL
-----------------------------------------------------------------------------
(***************************************************************************)
(* What a run that ends well leaves, and what is made of it until the next *)
(* run.                                                                    *)
(***************************************************************************)
LEMMA SameLengthPrefix ==
  ASSUME NEW t \in Seq(Byte), NEW s \in Seq(Byte), IsPrefix(s, t), Len(s) = Len(t)
  PROVE  s = t
<1>1. s = SubSeq(t, 1, Len(t))
  BY PrefixIsSubSeq
<1>2. SubSeq(t, 1, Len(t)) = t
  OBVIOUS
<1> QED
  BY <1>1, <1>2

\* What fclose leaves of a file that is not lost.
LEMMA CloseIsWhole ==
  ASSUME TypeOK, AtFile, Close, <<Run, file>> \notin lost'
  PROVE  file \in DOMAIN disk /\ disk[file] = Content
<1>1. stage = "write" /\ Len(disk[file]) = Len(Content)
  BY DEF Close
<1>2. /\ file \in DOMAIN disk /\ IsPrefix(disk[file], Content)
      /\ disk[file] \in Seq(Byte) /\ Content \in Seq(Byte)
  BY <1>1, CurrentFacts DEF AtFile, TypeOK
<1> QED
  BY <1>1, <1>2, SameLengthPrefix

LEMMA WholeBeforeStep == TypeOK /\ AtFile /\ WholeBefore /\ [Next]_vars => WholeBefore'
<1> SUFFICES ASSUME TypeOK, AtFile, WholeBefore, [Next]_vars, stage' # "idle",
                    NEW k \in 1 .. pos' - 1
             PROVE  \/ <<Run', k>> \in lost'
                    \/ k \in DOMAIN disk' /\ disk'[k] = ShareBytes(Run', k)
  BY DEF WholeBefore
<1> DEFINE Kept(j) == <<Run, j>> \in lost \/ (j \in DOMAIN disk /\ disk[j] = ShareBytes(Run, j))
<1>1. stage # "idle" => \A j \in 1 .. pos - 1 : Kept(j)
  BY DEF WholeBefore
<1> HIDE DEF Kept
<1>2. CASE UNCHANGED gen /\ UNCHANGED disk /\ UNCHANGED lost
  <2>1. stage # "idle" /\ k \in 1 .. pos - 1 /\ Run' = Run
    BY <1>2 DEF gen, Run
  <2>2. Kept(k)
    BY <1>1, <2>1
  <2> QED
    BY <1>2, <2>1, <2>2 DEF Kept
<1>3. CASE Open \/ Write
  <2>1. /\ made' = made /\ pos' = pos /\ lost' = lost /\ stage # "idle"
        /\ DOMAIN disk' = DOMAIN disk \cup {file}
        /\ \A f \in DOMAIN disk \ {file} : disk'[f] = disk[f]
    <3>1. CASE Open
      BY <3>1 DEF Open, With, history
    <3>2. CASE Write
      <4>1. file \in DOMAIN disk
        BY <3>2 DEF Write, AtFile
      <4> QED
        BY <3>2, <4>1 DEF Write, gen, history
    <3> QED
      BY <1>3, <3>1, <3>2
  <2>2. Run' = Run /\ k \in 1 .. pos - 1
    BY <2>1 DEF Run
  <2>3. k # file
    <3>1. Config.n \in Nat /\ pos \in 1 .. Config.n + 1 /\ file = IF pos <= Config.n THEN pos ELSE 0
      BY <2>1, CurrentFacts, Constants
    <3> QED
      BY <2>2, <3>1
  <2>4. Kept(k)
    BY <1>1, <2>1, <2>2
  <2> QED
    BY <2>1, <2>2, <2>3, <2>4 DEF Kept
<1>4. CASE OpenFails
  <2>1. stage # "idle" /\ made' = made /\ disk' = disk /\ pos <= Config.n /\ pos' = Config.n + 1
        /\ lost' = lost \cup {<<Run, Order(Config.n)[j]>> : j \in pos .. Config.n}
    BY <1>4 DEF OpenFails
  <2>2. Run' = Run
    BY <2>1 DEF Run
  <2>3. Config.n \in Nat /\ pos \in 1 .. Config.n + 1
    BY <2>1, CurrentFacts, Constants
  <2>4. CASE k \in 1 .. pos - 1
    <3>1. Kept(k)
      BY <1>1, <2>1, <2>4
    <3> QED
      BY <2>1, <2>2, <3>1 DEF Kept
  <2>5. CASE k \in pos .. Config.n
    <3>1. k \in 1 .. Config.n + 1 /\ k <= Config.n
      BY <2>3, <2>5
    <3>2. Order(Config.n)[k] = k
      BY <2>3, <3>1, OrderFacts
    <3>3. <<Run, k>> \in lost'
      BY <2>1, <2>5, <3>2
    <3> QED
      BY <2>2, <3>3
  <2> QED
    BY <2>1, <2>3, <2>4, <2>5
<1>5. CASE Close
  <2>1. stage = "write" /\ stage # "idle" /\ made' = made /\ disk' = disk /\ lost \subseteq lost'
        /\ pos # Config.n + 1 /\ pos' = pos + 1
    BY <1>5 DEF Close, Advance
  <2>2. Run' = Run
    BY <2>1 DEF Run
  <2>3. /\ Config.n \in Nat /\ pos \in 1 .. Config.n + 1
        /\ file = IF pos <= Config.n THEN pos ELSE 0
    BY <2>1, CurrentFacts, Constants
  <2>4. CASE k \in 1 .. pos - 1
    <3>1. Kept(k)
      BY <1>1, <2>1, <2>4
    <3> QED
      BY <2>1, <2>2, <3>1 DEF Kept
  <2>5. CASE k = pos
    <3>1. file = pos /\ pos # 0
      BY <2>1, <2>3
    <3>2. <<Run, pos>> \in lost' \/ (pos \in DOMAIN disk /\ disk[pos] = Content)
      BY <1>5, <3>1, CloseIsWhole
    <3>3. Content = ShareBytes(Run, pos)
      BY <3>1 DEF Content, Bytes, ParamsFile
    <3> QED
      BY <2>1, <2>2, <2>5, <3>2, <3>3
  <2> QED
    BY <2>1, <2>3, <2>4, <2>5
<1>6. CASE \E c \in Configs : Start(c)
  BY <1>6 DEF Start
<1>7. CASE Killed
  BY <1>7 DEF Killed
<1>8. CASE \E i \in PKG : Serve(i) \/ \E f \in File : StartPkg(i, f)
  BY <1>2, <1>8 DEF Serve, StartPkg
<1>9. CASE UNCHANGED vars
  BY <1>2, <1>9 DEF vars, gen
<1> QED
  BY <1>3, <1>4, <1>5, <1>6, <1>7, <1>8, <1>9 DEF Next, Gen

\* gen ends well where it closes the parameters; it stays so until it starts.
LEMMA EndedWellStep ==
  ASSUME TypeOK, [Next]_vars, EndedWell'
  PROVE  \/ EndedWell /\ UNCHANGED <<gen, disk>>
         \/ Close /\ pos = Config.n + 1 /\ UNCHANGED <<made, disk>>
<1>1. stage' = "idle" /\ Run' \notin killed' /\ \A f \in File : <<Run', f>> \notin lost'
  BY DEF EndedWell
<1>2. CASE Close
  BY <1>1, <1>2 DEF Close, Advance
<1>3. CASE \E c \in Configs : Start(c)
  BY <1>1, <1>3 DEF Start
<1>4. CASE Open \/ Write
  BY <1>1, <1>4 DEF Open, Write, gen
<1>5. CASE OpenFails
  <2>1. /\ stage # "idle" /\ made' = made /\ ~ (pos <= Config.n)
        /\ lost' = lost \cup {<<Run, Order(Config.n)[k]>> : k \in {pos}}
    BY <1>1, <1>5 DEF OpenFails
  <2>2. <<Run, file>> \in lost'
    BY <2>1 DEF file
  <2>3. file \in File /\ Run' = Run
    BY <2>1, CurrentFacts DEF Run
  <2> QED
    BY <1>1, <2>2, <2>3
<1>6. CASE Killed
  <2>1. Run' = Run /\ Run \in killed'
    BY <1>6 DEF Killed, Run
  <2> QED
    BY <1>1, <2>1
<1>7. CASE \E i \in PKG : Serve(i) \/ \E f \in File : StartPkg(i, f)
  <2>1. UNCHANGED <<gen, disk>> /\ lost' = lost /\ killed' = killed
    BY <1>7 DEF Serve, StartPkg
  <2> QED
    BY <1>1, <2>1 DEF gen, Run, EndedWell
<1>8. CASE UNCHANGED vars
  BY <1>1, <1>8 DEF vars, gen, Run, EndedWell
<1> QED
  BY <1>2, <1>3, <1>4, <1>5, <1>6, <1>7, <1>8 DEF Next, Gen

LEMMA EndsWholeStep ==
  TypeOK /\ AtFile /\ WholeBefore /\ EndsWhole /\ [Next]_vars => EndsWhole'
<1> SUFFICES ASSUME TypeOK, AtFile, WholeBefore, EndsWhole, [Next]_vars, EndedWell', 0 < Run',
                    NEW f \in 0 .. Config'.n
             PROVE  f \in DOMAIN disk' /\ disk'[f] = Bytes(f, Run', Config')
  BY DEF EndsWhole
<1>1. CASE EndedWell /\ UNCHANGED <<gen, disk>>
  BY <1>1 DEF EndsWhole, gen, Run, Config
<1>2. CASE Close /\ pos = Config.n + 1 /\ UNCHANGED <<made, disk>>
  <2>1. stage # "idle" /\ Run' = Run /\ Config' = Config /\ lost \subseteq lost'
    BY <1>2 DEF Close, Run, Config
  <2>2. /\ Config.n \in Nat /\ Config.n \in 1 .. NumFiles /\ file = 0 /\ file \in File
    BY <1>2, <2>1, CurrentFacts, Constants
  <2>3. \A g \in File : <<Run, g>> \notin lost'
    BY <2>1 DEF EndedWell
  <2>4. CASE f = 0
    BY <1>2, <2>1, <2>2, <2>3, <2>4, CloseIsWhole DEF Content
  <2>5. CASE f # 0
    <3>1. f \in 1 .. pos - 1 /\ f \in File /\ f # ParamsFile
      BY <1>2, <2>1, <2>2, <2>5, Constants DEF File, ParamsFile
    <3>2. <<Run, f>> \in lost \/ (f \in DOMAIN disk /\ disk[f] = ShareBytes(Run, f))
      BY <2>1, <3>1 DEF WholeBefore
    <3> QED
      BY <1>2, <2>1, <2>3, <3>1, <3>2 DEF Bytes
  <2> QED
    BY <2>4, <2>5
<1> QED
  BY <1>1, <1>2, EndedWellStep

\* gen ended well, and does not start again, where PKGs are current.
LEMMA EndedWellStays ==
  ASSUME EndedWell, [Next]_vars
  PROVE  \/ EndedWell' /\ UNCHANGED <<gen, disk>>
         \/ /\ \E c \in Configs : Start(c)
            /\ current' = {} /\ recent' = {}
<1>1. CASE Open \/ OpenFails \/ Write \/ Close \/ Killed
  BY <1>1 DEF EndedWell, Open, OpenFails, Write, Close, Killed
<1>2. CASE UNCHANGED <<gen, disk, lost, killed>>
  BY <1>2 DEF gen, EndedWell, Run
<1>3. CASE (\E i \in PKG : Serve(i) \/ \E f \in File : StartPkg(i, f)) \/ UNCHANGED vars
  <2>1. UNCHANGED <<gen, disk, lost, killed>>
    BY <1>3 DEF Serve, StartPkg, vars, gen
  <2> QED
    BY <1>2, <2>1
<1>4. CASE \E c \in Configs : Start(c)
  BY <1>4 DEF Start
<1> QED
  BY <1>1, <1>3, <1>4 DEF Next, Gen

\* Who is current has started since gen ended well.
LEMMA CurrentFrom ==
  ASSUME TypeOK, [Next]_vars, NEW i \in current'
  PROVE  \/ /\ i \in current
            /\ i \in DOMAIN pkg => i \in DOMAIN pkg' /\ pkg'[i] = pkg[i]
         \/ /\ EndedWell /\ i \in DOMAIN pkg'
            /\ \E f \in File : /\ f \in DOMAIN disk /\ f \in 1 .. NumFiles /\ ParamsLoad
                               /\ pkg'[i].mshare = disk[f] /\ pkg'[i].from = f
<1>1. CASE Open \/ OpenFails \/ Write \/ Close \/ Killed
  BY <1>1 DEF Open, OpenFails, Write, Close, Killed, history
<1>2. CASE \E c \in Configs : Start(c)
  BY <1>2 DEF Start
<1>3. CASE (\E j \in PKG : Serve(j)) \/ UNCHANGED vars
  BY <1>3 DEF Serve, vars
<1>4. ASSUME NEW j \in PKG, NEW f \in File, StartPkg(j, f)
      PROVE  \/ /\ i \in current
                /\ i \in DOMAIN pkg => i \in DOMAIN pkg' /\ pkg'[i] = pkg[i]
             \/ /\ EndedWell /\ i \in DOMAIN pkg'
                /\ f \in DOMAIN disk /\ f \in 1 .. NumFiles /\ ParamsLoad
                /\ pkg'[i].mshare = disk[f] /\ pkg'[i].from = f
  <2>1. current' = IF EndedWell THEN current \cup {j} ELSE current \ {j}
    BY <1>4 DEF StartPkg
  <2>2. /\ DOMAIN pkg' = DOMAIN pkg \cup {j}
        /\ pkg'[j].mshare = disk[f] /\ pkg'[j].from = f
        /\ \A k \in DOMAIN pkg \ {j} : pkg'[k] = pkg[k]
        /\ f \in DOMAIN disk /\ f \in 1 .. NumFiles /\ ParamsLoad
    BY <1>4, PkgStep
  <2>3. CASE i = j
    BY <2>1, <2>2, <2>3
  <2>4. CASE i # j
    BY <2>1, <2>2, <2>4
  <2> QED
    BY <2>3, <2>4
<1> QED
  BY <1>1, <1>2, <1>3, <1>4 DEF Next, Gen

LEMMA CurrentStep ==
  TypeOK /\ DiskIsMade /\ EndsWhole /\ CurrentIsOfRun /\ [Next]_vars => CurrentIsOfRun'
<1> SUFFICES ASSUME TypeOK, DiskIsMade, EndsWhole, CurrentIsOfRun, [Next]_vars,
                    NEW i \in current'
             PROVE  /\ EndedWell' /\ 0 < Run' /\ i \in DOMAIN pkg'
                    /\ pkg'[i].from <= Config'.n => pkg'[i].mshare = ShareBytes(Run', pkg'[i].from)
  BY DEF CurrentIsOfRun
<1>1. ASSUME EndedWell
      PROVE  EndedWell' /\ Run' = Run /\ Config' = Config
  <2>1. EndedWell' /\ UNCHANGED <<gen, disk>>
    BY <1>1, EndedWellStays
  <2> QED
    BY <2>1 DEF gen, Run, Config
<1>2. CASE i \in current /\ (i \in DOMAIN pkg => i \in DOMAIN pkg' /\ pkg'[i] = pkg[i])
  <2>1. /\ EndedWell /\ 0 < Run /\ i \in DOMAIN pkg
        /\ pkg[i].from <= Config.n => pkg[i].mshare = ShareBytes(Run, pkg[i].from)
    BY <1>2 DEF CurrentIsOfRun
  <2> QED
    BY <1>1, <1>2, <2>1
<1>3. ASSUME EndedWell, i \in DOMAIN pkg', NEW f \in File, f \in DOMAIN disk, f \in 1 .. NumFiles,
             ParamsLoad, pkg'[i].mshare = disk[f], pkg'[i].from = f
      PROVE  /\ 0 < Run
             /\ f <= Config.n => disk[f] = ShareBytes(Run, f)
  <2>1. 0 < Run
    BY <1>3, ParamsAreMade DEF Run, TypeOK
  <2>2. ASSUME f <= Config.n
        PROVE  disk[f] = ShareBytes(Run, f)
    <3>1. f \in 0 .. Config.n /\ f # ParamsFile
      <4>1. Config \in Good
        BY <2>1 DEF TypeOK, Config, Run, Good
      <4>2. Config.n \in Nat
        BY <4>1, ConfigFacts, Constants
      <4> QED
        BY <1>3, <2>2, <4>2, Constants DEF ParamsFile
    <3>2. disk[f] = Bytes(f, Run, Config)
      BY <1>3, <2>1, <3>1 DEF EndsWhole
    <3> QED
      BY <3>1, <3>2 DEF Bytes
  <2> QED
    BY <2>1, <2>2
<1> QED
  BY <1>1, <1>2, <1>3, CurrentFrom

\* What a share decodes to, whole as it is.
LEMMA ShareBack ==
  ASSUME NEW r \in 1 .. MaxRuns, NEW i \in 1 .. NumFiles
  PROVE  /\ int_from_byte_string(byte_string_split(ShareBytes(r, i))[1]) = i - 1
         /\ byte_string_split(ShareBytes(r, i))[2] = <<r, i>>
<1>1. byte_string_split(ShareBytes(r, i)) = <<byte_string_set_int(i - 1), <<r, i>>>>
  BY ShareSplits
<1>2. i - 1 \in 0 .. Base - 1
  BY Constants, PKGAssumption
<1>3. int_from_byte_string(byte_string_set_int(i - 1)) = i - 1
  BY <1>2, IntBack
<1> QED
  BY <1>1, <1>3

LEMMA RecentStep ==
  TypeOK /\ CurrentIsOfRun /\ RecentIsOfRun /\ [Next]_vars => RecentIsOfRun'
<1> SUFFICES ASSUME TypeOK, CurrentIsOfRun, RecentIsOfRun, [Next]_vars, NEW share \in recent'
             PROVE  /\ EndedWell' /\ 0 < Run' /\ share.from \in Nat
                    /\ share.from <= Config'.n =>
                         share.index = share.from - 1 /\ share.y = <<Run', share.from>>
  BY DEF RecentIsOfRun
<1>1. /\ EndedWell /\ 0 < Run /\ share.from \in Nat
      /\ share.from <= Config.n =>
           share.index = share.from - 1 /\ share.y = <<Run, share.from>>
  <2>1. CASE share \in recent
    BY <2>1 DEF RecentIsOfRun
  <2>2. CASE share \notin recent
    <3>1. PICK i \in PKG : Serve(i)
      <4>1. CASE Open \/ OpenFails \/ Write \/ Close \/ Killed \/ \E c \in Configs : Start(c)
        BY <2>2, <4>1 DEF Open, OpenFails, Write, Close, Killed, Start, history
      <4>2. CASE (\E i \in PKG, f \in File : StartPkg(i, f)) \/ UNCHANGED vars
        BY <2>2, <4>2 DEF StartPkg, vars
      <4> QED
        BY <4>1, <4>2 DEF Next, Gen
    <3>2. i \in current /\ share = Extracted(i)
      BY <2>2, <3>1 DEF Serve
    <3>3. /\ EndedWell /\ 0 < Run /\ i \in DOMAIN pkg
          /\ pkg[i].from <= Config.n => pkg[i].mshare = ShareBytes(Run, pkg[i].from)
      BY <3>2 DEF CurrentIsOfRun
    <3>4. share.from = pkg[i].from /\ pkg[i].from \in 1 .. NumFiles /\ pkg[i].from \in Nat
      <4>1. share.from = pkg[i].from
        BY <3>2 DEF Extracted
      <4>2. pkg[i].from \in 1 .. NumFiles
        BY <3>3 DEF TypeOK
      <4> QED
        BY <4>1, <4>2, Constants
    <3>5. ASSUME share.from <= Config.n
          PROVE  share.index = share.from - 1 /\ share.y = <<Run, share.from>>
      <4>1. Run \in 1 .. MaxRuns
        BY <3>3, Constants DEF TypeOK, Run
      <4>2. pkg[i].mshare = ShareBytes(Run, share.from)
        BY <3>3, <3>4, <3>5
      <4>3. /\ share.index = int_from_byte_string(byte_string_split(pkg[i].mshare)[1])
            /\ share.y = byte_string_split(pkg[i].mshare)[2]
        BY <3>2 DEF Extracted
      <4>4. share.from \in 1 .. NumFiles
        BY <3>4
      <4> QED
        BY <4>1, <4>2, <4>3, <4>4, ShareBack
    <3> QED
      BY <3>3, <3>4, <3>5
  <2> QED
    BY <2>1, <2>2
<1>2. EndedWell' /\ UNCHANGED <<gen, disk>>
  BY <1>1, EndedWellStays
<1>3. Run' = Run /\ Config' = Config
  BY <1>2 DEF gen, Run, Config
<1> QED
  BY <1>1, <1>2, <1>3

LEMMA InitKInv == Init => KInv
<1> SUFFICES ASSUME Init PROVE KInv
  OBVIOUS
<1>1. IInv
  BY InitIInv
<1>2. WholeBefore /\ CurrentIsOfRun /\ RecentIsOfRun
  BY DEF Init, WholeBefore, CurrentIsOfRun, RecentIsOfRun
<1>3. EndsWhole
  <2>1. Run = 0
    BY DEF Init, Run
  <2> QED
    BY <2>1 DEF EndsWhole
<1> QED
  BY <1>1, <1>2, <1>3 DEF KInv

LEMMA StepKInv == KInv /\ [Next]_vars => KInv'
<1> SUFFICES ASSUME KInv, [Next]_vars PROVE KInv'
  OBVIOUS
<1>1. IInv /\ WholeBefore /\ EndsWhole /\ CurrentIsOfRun /\ RecentIsOfRun
  BY DEF KInv
<1>2. TypeOK /\ AtFile /\ DiskIsMade
  BY <1>1 DEF IInv
<1>3. IInv'
  BY <1>1, StepIInv
<1>4. WholeBefore' /\ EndsWhole'
  BY <1>1, <1>2, WholeBeforeStep, EndsWholeStep
<1>5. CurrentIsOfRun'
  BY <1>1, <1>2, CurrentStep
<1>6. RecentIsOfRun'
  BY <1>1, <1>2, RecentStep
<1> QED
  BY <1>3, <1>4, <1>5, <1>6 DEF KInv
-----------------------------------------------------------------------------
(***************************************************************************)
(* Shares of one run, each its own, are interpolated to the right thing.   *)
(***************************************************************************)
LEMMA RightShares ==
  ASSUME NEW p, NEW s, NEW g, DOMAIN g = DOMAIN s, p.n \in Nat,
         \A k \in DOMAIN s : /\ g[k] \in Nat /\ g[k] <= p.n
                            /\ s[k].index = g[k] - 1 /\ s[k].y = <<p.run, g[k]>>
  PROVE  /\ IsInjective([k \in DOMAIN s |-> s[k].index]) <=> IsInjective(g)
         /\ IsInjective(g) => Interpolated(p, s) = "right"
<1>1. IsInjective([k \in DOMAIN s |-> s[k].index]) <=> IsInjective(g)
  <2>1. \A a, b \in DOMAIN s : s[a].index = s[b].index <=> g[a] = g[b]
    OBVIOUS
  <2> QED
    BY <2>1 DEF IsInjective
<1>2. \A k \in DOMAIN s : Fits(p, s[k])
  <2> TAKE k \in DOMAIN s
  <2>1. s[k].index + 1 = g[k]
    OBVIOUS
  <2> QED
    BY <2>1 DEF Fits
<1>3. ~ \E k \in DOMAIN s : p.n <= s[k].index
  OBVIOUS
<1> QED
  BY <1>1, <1>2, <1>3 DEF Interpolated

\* What can be loaded after a run that ended well is the system of that run.
LEMMA ParamsOfRun ==
  ASSUME KInv, EndedWell, ParamsLoad
  PROVE  /\ Run \in 1 .. MaxRuns /\ Config \in Good /\ Config.n \in Nat /\ Config.n <= NumFiles
         /\ Params.run = Run /\ Params.n = Config.n
<1>1. TypeOK /\ DiskIsMade /\ EndsWhole
  BY DEF KInv, IInv
<1>2. 0 < Run
  BY <1>1, ParamsAreMade DEF Run, TypeOK
<1>3. Run \in 1 .. MaxRuns /\ Config \in Good
  BY <1>1, <1>2, Constants DEF TypeOK, Run, Config, Good
<1>4. Config.n \in Nat /\ Config.n <= NumFiles
  BY <1>3, ConfigFacts, Constants
<1>5. disk[ParamsFile] = IBE_serialize_params(Run, Config)
  <2>1. ParamsFile \in 0 .. Config.n
    BY <1>4 DEF ParamsFile
  <2> QED
    BY <1>1, <1>2, <2>1 DEF EndsWhole, Bytes
<1>6. Params = System(Run, Config)
  BY <1>3, <1>5, SerializeBack DEF Params, Good
<1> QED
  BY <1>3, <1>4, <1>6 DEF System

(***************************************************************************)
(* After a run of gen that ended well, the key shares of PKGs that started *)
(* since then combine to the right key, or are refused where two PKGs had  *)
(* the same share file; t share files make the right master secret.        *)
(***************************************************************************)
THEOREM KeyAlwaysRight == Spec => []KeyIsRight
<1>1. KInv => KeyIsRight
  <2> SUFFICES ASSUME KInv, EndedWell, ParamsLoad
               PROVE  /\ \A s \in [1 .. Params.t -> {share \in recent : share.from <= Params.n}] :
                           IBE_combine(Params, s) =
                             IF IsInjective([k \in DOMAIN s |-> s[k].from])
                             THEN "right" ELSE "refused"
                      /\ \A fs \in [1 .. Params.t -> 1 .. Params.n] :
                           IsInjective(fs) => FMT_construct_master(Params, fs) = "right"
    BY DEF KeyIsRight
  <2>1. /\ Run \in 1 .. MaxRuns /\ Config.n \in Nat /\ Config.n <= NumFiles
        /\ Params.run = Run /\ Params.n = Config.n
    BY ParamsOfRun
  <2>2. ASSUME NEW s \in [1 .. Params.t -> {share \in recent : share.from <= Params.n}]
        PROVE  IBE_combine(Params, s) =
                 IF IsInjective([k \in DOMAIN s |-> s[k].from]) THEN "right" ELSE "refused"
    <3> DEFINE g == [k \in DOMAIN s |-> s[k].from]
    <3>1. RecentIsOfRun
      BY DEF KInv
    <3>2. \A k \in DOMAIN s : /\ s[k].from \in Nat /\ s[k].from <= Params.n
                              /\ s[k].index = s[k].from - 1 /\ s[k].y = <<Params.run, s[k].from>>
      <4> TAKE k \in DOMAIN s
      <4>1. s[k] \in recent /\ s[k].from <= Config.n
        BY <2>1
      <4> QED
        BY <2>1, <3>1, <4>1 DEF RecentIsOfRun
    <3>3. DOMAIN g = DOMAIN s /\ \A k \in DOMAIN s : g[k] = s[k].from
      OBVIOUS
    <3> HIDE DEF g
    <3>4. /\ IsInjective([k \in DOMAIN s |-> s[k].index]) <=> IsInjective(g)
          /\ IsInjective(g) => Interpolated(Params, s) = "right"
      BY <2>1, <3>2, <3>3, RightShares
    <3>5. IBE_combine(Params, s) = IF IsInjective(g) THEN "right" ELSE "refused"
      BY <3>4 DEF IBE_combine
    <3> QED
      BY <3>5 DEF g
  <2>3. ASSUME NEW fs \in [1 .. Params.t -> 1 .. Params.n], IsInjective(fs)
        PROVE  FMT_construct_master(Params, fs) = "right"
    <3> DEFINE s == [k \in DOMAIN fs |-> ShareIn(fs[k])]
    <3>1. EndsWhole
      BY DEF KInv
    <3>2. \A k \in DOMAIN fs : /\ fs[k] \in Nat /\ fs[k] <= Params.n
                               /\ ShareIn(fs[k]).index = fs[k] - 1
                               /\ ShareIn(fs[k]).y = <<Params.run, fs[k]>>
      <4> TAKE k \in DOMAIN fs
      <4>1. /\ fs[k] \in Nat /\ fs[k] <= Config.n /\ fs[k] \in 1 .. NumFiles
            /\ fs[k] \in 0 .. Config.n /\ fs[k] # ParamsFile
        BY <2>1, Constants DEF ParamsFile
      <4>2. disk[fs[k]] = ShareBytes(Run, fs[k])
        BY <2>1, <3>1, <4>1 DEF EndsWhole, Bytes
      <4>3. /\ ShareIn(fs[k]).index = int_from_byte_string(byte_string_split(disk[fs[k]])[1])
            /\ ShareIn(fs[k]).y = byte_string_split(disk[fs[k]])[2]
        BY DEF ShareIn
      <4>4. /\ int_from_byte_string(byte_string_split(ShareBytes(Run, fs[k]))[1]) = fs[k] - 1
            /\ byte_string_split(ShareBytes(Run, fs[k]))[2] = <<Run, fs[k]>>
        BY <2>1, <4>1, ShareBack
      <4> QED
        BY <2>1, <4>1, <4>2, <4>3, <4>4
    <3>3. DOMAIN fs = DOMAIN s /\ \A k \in DOMAIN s : s[k] = ShareIn(fs[k])
      OBVIOUS
    <3>4. FMT_construct_master(Params, fs) = Interpolated(Params, s)
      BY DEF FMT_construct_master
    <3> HIDE DEF s
    <3>5. Interpolated(Params, s) = "right"
      BY <2>1, <2>3, <3>2, <3>3, RightShares
    <3> QED
      BY <3>4, <3>5
  <2> QED
    BY <2>2, <2>3
<1>2. Spec => []KInv
  BY InitKInv, StepKInv, PTL DEF Spec
<1> QED
  BY <1>1, <1>2, PTL
=============================================================================
