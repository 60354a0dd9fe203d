------------------------ MODULE ThresholdKeys_proofs ------------------------
(***************************************************************************)
(* Any t shares of different PKGs make the key and the master secret, for  *)
(* every prime q, every t and n and every identity; t - 1 of them tell     *)
(* nothing about the master secret.  Behind that, what the functions of    *)
(* curve.c and fp2.c compute, for every prime p.                           *)
(***************************************************************************)
EXTENDS ThresholdKeys, FiniteSetTheorems, WellFoundedInduction, SequenceTheorems, TLAPS

(***************************************************************************)
(* A set of numbers that has 0, and with a number the next one.            *)
(***************************************************************************)
LEMMA Least ==
  ASSUME NEW S \in SUBSET Nat, S # {}
  PROVE  \E x \in S : \A y \in S : x <= y
<1>1. IsWellFoundedOn({p \in Nat \X Nat : p[1] < p[2]}, Nat)
  BY NatLessThanWellFounded DEF OpToRel
<1>2. \E x \in S : \A y \in S : <<y, x>> \notin {p \in Nat \X Nat : p[1] < p[2]}
  BY <1>1, WFMin, Zenon
<1>3. PICK x \in S : \A y \in S : <<y, x>> \notin {p \in Nat \X Nat : p[1] < p[2]}
  BY <1>2
<1>4. ASSUME NEW y \in S PROVE x <= y
  <2>1. x \in Nat /\ y \in Nat
    OBVIOUS
  <2>2. <<y, x>> \notin {p \in Nat \X Nat : p[1] < p[2]}
    BY <1>3
  <2>3. ~ (y < x)
    BY <2>1, <2>2
  <2> QED BY <2>1, <2>3
<1> QED BY <1>4

LEMMA UpTo ==
  ASSUME NEW n \in Nat, NEW S, 0 \in S, \A k \in 1 .. n : k - 1 \in S => k \in S
  PROVE  \A k \in 0 .. n : k \in S
<1> DEFINE T == {k \in 0 .. n : k \notin S}
<1> SUFFICES ASSUME T # {} PROVE FALSE
  OBVIOUS
<1>1. PICK x \in T : \A y \in T : x <= y
  <2>1. T \in SUBSET Nat
    OBVIOUS
  <2> HIDE DEF T
  <2> QED BY <2>1, Least
<1>2. x \in 1 .. n /\ x - 1 \in 0 .. n /\ ~ (x <= x - 1)
  OBVIOUS
<1>3. x - 1 \notin T
  BY <1>1, <1>2
<1> QED BY <1>2, <1>3
-----------------------------------------------------------------------------
(***************************************************************************)
(* A loop that starts with b and does Step[k] in round k has a trace.      *)
(***************************************************************************)
IsLoop(z, n, b, Step) == z[0] = b /\ \A k \in 1 .. n : z[k] = Step[k][z[k - 1]]

LEMMA LoopExists ==
  ASSUME NEW A, NEW b \in A, NEW n \in Nat, NEW Step \in [1 .. n -> [A -> A]]
  PROVE  \E z \in [0 .. n -> A] : IsLoop(z, n, b, Step)
<1> DEFINE S == {k \in 0 .. n : \E z \in [0 .. k -> A] : IsLoop(z, k, b, Step)}
<1>1. 0 \in S
  <2>1. [k \in 0 .. 0 |-> b] \in [0 .. 0 -> A] /\ IsLoop([k \in 0 .. 0 |-> b], 0, b, Step)
    BY DEF IsLoop
  <2>2. 0 \in 0 .. n
    OBVIOUS
  <2> QED BY <2>1, <2>2
<1>2. ASSUME NEW k \in 1 .. n, k - 1 \in S PROVE k \in S
  <2>1. PICK z \in [0 .. k - 1 -> A] : IsLoop(z, k - 1, b, Step)
    BY <1>2
  <2> DEFINE w == [j \in 0 .. k |-> IF j = k THEN Step[k][z[k - 1]] ELSE z[j]]
  <2>2. Step[k] \in [A -> A] /\ z[k - 1] \in A
    BY <1>2
  <2>3. w \in [0 .. k -> A]
    <3>1. ASSUME NEW j \in 0 .. k PROVE (IF j = k THEN Step[k][z[k - 1]] ELSE z[j]) \in A
      <4>1. CASE j = k
        BY <2>2, <4>1
      <4>2. CASE j # k
        <5>1. j \in 0 .. k - 1
          BY <4>2
        <5> QED BY <4>2, <5>1
      <4> QED BY <4>1, <4>2
    <3> QED BY <3>1
  <2>4. w[0] = b
    <3>1. 0 # k /\ 0 \in 0 .. k
      OBVIOUS
    <3>2. z[0] = b
      BY <2>1 DEF IsLoop
    <3> QED BY <3>1, <3>2
  <2>5. ASSUME NEW j \in 1 .. k PROVE w[j] = Step[j][w[j - 1]]
    <3>1. j \in 0 .. k /\ j - 1 \in 0 .. k /\ j - 1 # k
      OBVIOUS
    <3>2. w[j - 1] = z[j - 1]
      BY <3>1
    <3>3. CASE j = k
      BY <3>1, <3>2, <3>3
    <3>4. CASE j # k
      <4>1. j \in 1 .. k - 1
        BY <3>4
      <4>2. z[j] = Step[j][z[j - 1]]
        BY <2>1, <4>1 DEF IsLoop
      <4> QED BY <3>1, <3>2, <3>4, <4>2
    <3> QED BY <3>3, <3>4
  <2>6. IsLoop(w, k, b, Step)
    BY <2>4, <2>5 DEF IsLoop
  <2>7. k \in 0 .. n
    OBVIOUS
  <2> QED BY <2>3, <2>6, <2>7
<1>3. n \in S
  <2> HIDE DEF S
  <2>1. \A k \in 0 .. n : k \in S
    BY <1>1, <1>2, UpTo
  <2> QED BY <2>1
<1> QED BY <1>3
-----------------------------------------------------------------------------
(***************************************************************************)
(* Arithmetic modulo q.                                                    *)
(***************************************************************************)
Cong(a, b) == \E k \in Int : a - b = Q * k

LEMMA QNat == Q \in Nat /\ Q > 1 /\ Q \in Int
BY QAssumption

LEMMA ZqInt == \A a \in Zq : a \in Int
BY QNat DEF Zq

LEMMA ModIn == ASSUME NEW a \in Int PROVE a % Q \in Zq /\ a % Q \in Int
BY QNat DEF Zq

LEMMA ModOf == ASSUME NEW a \in Int PROVE a = Q * (a \div Q) + (a % Q) /\ a \div Q \in Int
BY QNat

LEMMA CongRefl == ASSUME NEW a \in Int PROVE Cong(a, a)
<1>1. 0 \in Int /\ a - a = Q * 0
  BY QNat
<1> QED BY <1>1 DEF Cong

LEMMA CongSym == ASSUME NEW a \in Int, NEW b \in Int, Cong(a, b) PROVE Cong(b, a)
<1>1. PICK k \in Int : a - b = Q * k
  BY DEF Cong
<1>2. -k \in Int /\ b - a = Q * (-k)
  BY <1>1, QNat
<1> QED BY <1>2 DEF Cong

LEMMA CongTrans ==
  ASSUME NEW a \in Int, NEW b \in Int, NEW c \in Int, Cong(a, b), Cong(b, c)
  PROVE  Cong(a, c)
<1>1. PICK k \in Int : a - b = Q * k
  BY DEF Cong
<1>2. PICK l \in Int : b - c = Q * l
  BY DEF Cong
<1>3. k + l \in Int /\ a - c = Q * (k + l)
  BY <1>1, <1>2, QNat
<1> QED BY <1>3 DEF Cong

LEMMA CongPlus ==
  ASSUME NEW a \in Int, NEW b \in Int, NEW c \in Int, NEW d \in Int, Cong(a, b), Cong(c, d)
  PROVE  Cong(a + c, b + d) /\ Cong(a - c, b - d)
<1>1. PICK k \in Int : a - b = Q * k
  BY DEF Cong
<1>2. PICK l \in Int : c - d = Q * l
  BY DEF Cong
<1>3. k + l \in Int /\ (a + c) - (b + d) = Q * (k + l)
  BY <1>1, <1>2, QNat
<1>4. k - l \in Int /\ (a - c) - (b - d) = Q * (k - l)
  BY <1>1, <1>2, QNat
<1> QED BY <1>3, <1>4 DEF Cong

LEMMA CongTimes ==
  ASSUME NEW a \in Int, NEW b \in Int, NEW c \in Int, NEW d \in Int, Cong(a, b), Cong(c, d)
  PROVE  Cong(a * c, b * d)
<1>1. PICK k \in Int : a - b = Q * k
  BY DEF Cong
<1>2. PICK l \in Int : c - d = Q * l
  BY DEF Cong
<1>3. k * c + b * l \in Int
  BY QNat
<1>4. (a * c) - (b * d) = (a - b) * c + b * (c - d)
  OBVIOUS
<1>5. (Q * k) * c + b * (Q * l) = Q * (k * c + b * l)
  BY QNat
<1>6. (a * c) - (b * d) = Q * (k * c + b * l)
  BY <1>1, <1>2, <1>4, <1>5
<1> QED BY <1>3, <1>6 DEF Cong

LEMMA CongMod == ASSUME NEW a \in Int PROVE Cong(a, a % Q) /\ Cong(a % Q, a)
<1>1. a % Q \in Int
  BY ModIn
<1> DEFINE r == a % Q
           d == a \div Q
<1>2. a = Q * d + r /\ d \in Int
  BY ModOf
<1> HIDE DEF r, d
<1>3. a - r = Q * d
  BY <1>1, <1>2, QNat DEF r
<1>4. Cong(a, r)
  BY <1>2, <1>3 DEF Cong
<1>5. Cong(r, a)
  BY <1>1, <1>4, CongSym DEF r
<1> QED BY <1>4, <1>5 DEF r

LEMMA Multiple == ASSUME NEW k \in Int, k >= 1 PROVE Q * k >= Q
<1>1. k - 1 >= 0 /\ Q >= 0 /\ Q * k = Q * (k - 1) + Q
  BY QNat
<1>2. Q * (k - 1) >= 0
  BY <1>1, QNat
<1>3. Q * (k - 1) \in Int /\ Q \in Int /\ Q * k \in Int
  BY QNat
<1> QED BY <1>1, <1>2, <1>3

\* Two numbers below q that are congruent are equal.
LEMMA CongSame == ASSUME NEW a \in Zq, NEW b \in Zq, Cong(a, b) PROVE a = b
<1>1. PICK k \in Int : a - b = Q * k
  BY DEF Cong
<1>2. a \in Int /\ b \in Int /\ 0 <= a /\ a < Q /\ 0 <= b /\ b < Q
  BY QNat DEF Zq
<1>3. CASE k >= 1
  <2>1. Q * k >= Q
    BY <1>3, Multiple
  <2> QED BY <1>1, <1>2, <2>1, QNat
<1>4. CASE k <= -1
  <2>1. -k \in Int /\ -k >= 1 /\ Q * (-k) = -(Q * k)
    BY <1>4, QNat
  <2>2. Q * (-k) >= Q
    BY <2>1, Multiple
  <2> QED BY <1>1, <1>2, <2>1, <2>2, QNat
<1>5. CASE k = 0
  BY <1>1, <1>2, <1>5, QNat
<1> QED BY <1>3, <1>4, <1>5

LEMMA ModSame ==
  ASSUME NEW a \in Int, NEW b \in Int, Cong(a, b)
  PROVE  a % Q = b % Q
<1>1. Cong(a % Q, a) /\ Cong(b, b % Q) /\ a % Q \in Zq /\ b % Q \in Zq /\ a % Q \in Int /\ b % Q \in Int
  BY CongMod, ModIn
<1>2. Cong(a % Q, b)
  BY <1>1, CongTrans
<1>3. Cong(a % Q, b % Q)
  BY <1>1, <1>2, CongTrans
<1> QED BY <1>1, <1>3, CongSame

LEMMA Division ==
  ASSUME NEW a \in Nat, NEW m \in Nat, m > 0
  PROVE  a = m * (a \div m) + (a % m) /\ a \div m \in Int /\ a % m \in 0 .. m - 1
OBVIOUS

LEMMA ProductInt == ASSUME NEW a \in Int, NEW b \in Int PROVE a * b \in Int
OBVIOUS

\* What is not 0 modulo the prime q has an inverse.
LEMMA InverseExists ==
  ASSUME NEW a \in Int, ~ Cong(a, 0)
  PROVE  \E v \in Zq : Cong(v * a, 1)
<1> DEFINE S == {m \in 1 .. Q - 1 : \E v \in Int : Cong(v * a, m)}
<1>1. a % Q \in S
  <2>1. a % Q \in Zq /\ Cong(a, a % Q) /\ a % Q \in Int
    BY ModIn, CongMod
  <2>2. a % Q # 0
    BY <2>1
  <2>3. a % Q \in 1 .. Q - 1
    BY <2>1, <2>2, QNat DEF Zq
  <2>4. 1 * a = a
    OBVIOUS
  <2> QED BY <2>1, <2>3, <2>4
<1>2. PICK m \in S : \A y \in S : m <= y
  <2>1. S \in SUBSET Nat
    BY QNat
  <2> HIDE DEF S
  <2> QED BY <1>1, <2>1, Least
<1>3. PICK v \in Int : Cong(v * a, m)
  BY <1>2
<1>4. m \in 1 .. Q - 1 /\ m \in Nat /\ m \in Int
  BY <1>2, QNat
<1>5. m = 1
  <2> SUFFICES ASSUME m # 1 PROVE FALSE
    OBVIOUS
  <2>1. m \in 2 .. Q - 1
    BY <1>4, QNat
  <2>2. Q % m # 0
    BY <2>1, QAssumption
  <2> DEFINE r == Q % m
             d == Q \div m
  <2>3. Q = m * d + r /\ d \in Int /\ r \in 0 .. m - 1
    BY <1>4, QNat, Division
  <2>4. r # 0
    BY <2>2
  <2> HIDE DEF r, d
  <2>5. r \in 1 .. Q - 1 /\ r < m /\ r \in Int
    BY <1>4, <2>3, <2>4, QNat
  <2>6. Cong(-d, -d) /\ -d \in Int /\ v * a \in Int
    BY <2>3, CongRefl
  <2>7. Cong((-d) * (v * a), (-d) * m)
    BY <1>3, <1>4, <2>6, CongTimes
  <2>8. (-d) * (v * a) = ((-d) * v) * a /\ (-d) * v \in Int /\ ((-d) * v) * a \in Int
    BY <2>3
  <2>9. (-d) * m - r = Q * (-1) /\ (-d) * m \in Int
    <3>1. (-d) * m = -(m * d) /\ m * d \in Int
      BY <1>4, <2>3
    <3> DEFINE e == m * d
    <3> HIDE DEF e
    <3>2. Q = e + r /\ e \in Int /\ (-d) * m = -e
      BY <2>3, <3>1 DEF e
    <3> QED BY <2>5, <3>2, QNat
  <2>10. Cong((-d) * m, r)
    <3>1. -1 \in Int
      OBVIOUS
    <3> QED BY <2>9, <3>1 DEF Cong
  <2>11. Cong(((-d) * v) * a, r)
    BY <2>5, <2>6, <2>7, <2>8, <2>9, <2>10, CongTrans
  <2>12. r \in S
    BY <2>5, <2>8, <2>11
  <2>13. m <= r
    BY <1>2, <2>12
  <2> QED BY <1>4, <2>5, <2>13
<1>6. v % Q \in Zq /\ v % Q \in Int /\ Cong(v % Q, v) /\ Cong(a, a)
  BY ModIn, CongMod, CongRefl
<1>7. Cong((v % Q) * a, v * a)
  BY <1>6, CongTimes
<1>8. (v % Q) * a \in Int /\ v * a \in Int
  BY <1>6, ProductInt
<1>9. Cong((v % Q) * a, 1)
  BY <1>3, <1>5, <1>7, <1>8, CongTrans
<1> QED BY <1>6, <1>9

\* A factor that is not 0 modulo q can be cancelled.
LEMMA Cancel ==
  ASSUME NEW a \in Int, NEW b \in Int, Cong(a * b, 0), ~ Cong(a, 0)
  PROVE  Cong(b, 0)
<1>1. PICK v \in Zq : Cong(v * a, 1)
  BY InverseExists
<1>2. v \in Int
  BY ZqInt
<1>3. /\ v * a \in Int /\ a * b \in Int /\ (v * a) * b \in Int /\ v * (a * b) \in Int
      /\ (v * a) * b = v * (a * b) /\ 1 * b = b /\ v * 0 = 0
  BY <1>2
<1>4. Cong(b, b) /\ Cong(v, v)
  BY <1>2, CongRefl
<1>5. Cong((v * a) * b, 1 * b)
  BY <1>1, <1>3, <1>4, CongTimes
<1>6. Cong(v * (a * b), v * 0)
  BY <1>2, <1>3, <1>4, CongTimes
<1>7. Cong(b, (v * a) * b)
  BY <1>3, <1>5, CongSym
<1>8. Cong((v * a) * b, 0)
  BY <1>3, <1>6
<1> QED BY <1>3, <1>7, <1>8, CongTrans

\* Two different numbers below q differ modulo q.
LEMMA Differ == ASSUME NEW a \in Zq, NEW b \in Zq, a # b PROVE ~ Cong(a - b, 0)
<1> SUFFICES ASSUME Cong(a - b, 0) PROVE FALSE
  OBVIOUS
<1>1. a \in Int /\ b \in Int
  BY ZqInt
<1>2. PICK k \in Int : (a - b) - 0 = Q * k
  BY DEF Cong
<1>3. a - b = Q * k
  BY <1>1, <1>2, QNat
<1>4. Cong(a, b)
  BY <1>3 DEF Cong
<1> QED BY <1>4, CongSame
-----------------------------------------------------------------------------
(***************************************************************************)
(* The loops of the model, round by round.                                 *)
(***************************************************************************)
LEMMA LenOf == ASSUME NEW A, NEW n \in Nat, NEW f \in [1 .. n -> A] PROVE Len(f) = n
OBVIOUS

ProductRound(z, f, n) == z[0] = 1 /\ \A k \in 1 .. n : z[k] = (z[k - 1] * f[k]) % Q

LEMMA ProductLoop ==
  ASSUME NEW n \in Nat, NEW f \in [1 .. n -> Int]
  PROVE  \E z \in [0 .. n -> Int] : ProductRound(z, f, n) /\ Product(f) = z[n]
<1> DEFINE Body(z) == [k \in 0 .. n |-> IF k = 0 THEN 1 ELSE (z[k - 1] * f[k]) % Q]
           Step == [k \in 1 .. n |-> [a \in Int |-> (a * f[k]) % Q]]
<1>1. Product(f) = (CHOOSE z : z = Body(z))[n]
  BY LenOf DEF Product
<1>2. Step \in [1 .. n -> [Int -> Int]]
  <2>1. ASSUME NEW k \in 1 .. n, NEW a \in Int PROVE (a * f[k]) % Q \in Int
    BY ModIn
  <2> QED BY <2>1
<1>3. PICK y \in [0 .. n -> Int] : IsLoop(y, n, 1, Step)
  <2> HIDE DEF Step
  <2>1. 1 \in Int
    OBVIOUS
  <2> QED BY <1>2, <2>1, LoopExists
<1>4. y = Body(y)
  <2>1. ASSUME NEW k \in 0 .. n PROVE y[k] = IF k = 0 THEN 1 ELSE (y[k - 1] * f[k]) % Q
    <3>1. CASE k = 0
      BY <1>3, <3>1 DEF IsLoop
    <3>2. CASE k # 0
      <4>1. k \in 1 .. n /\ k - 1 \in 0 .. n
        BY <3>2
      <4>2. y[k - 1] \in Int /\ y[k] = Step[k][y[k - 1]]
        BY <1>3, <4>1 DEF IsLoop
      <4> QED BY <3>2, <4>1, <4>2
    <3> QED BY <3>1, <3>2
  <2> QED BY <2>1
<1> DEFINE z == CHOOSE z : z = Body(z)
<1>5. z = Body(z)
  BY <1>4
<1> HIDE DEF z
<1>6. ProductRound(z, f, n)
  BY <1>5 DEF ProductRound
<1>7. z \in [0 .. n -> Int]
  <2> DEFINE S == {k \in 0 .. n : z[k] \in Int}
  <2>1. 0 \in S
    BY <1>6 DEF ProductRound
  <2>2. ASSUME NEW k \in 1 .. n, k - 1 \in S PROVE k \in S
    <3>1. z[k - 1] \in Int /\ f[k] \in Int /\ k \in 0 .. n
      BY <2>2
    <3>2. z[k - 1] * f[k] \in Int
      BY <3>1
    <3>3. z[k] \in Int
      BY <1>6, <3>2, ModIn DEF ProductRound
    <3> QED BY <3>1, <3>3
  <2> HIDE DEF S
  <2>3. \A k \in 0 .. n : k \in S
    BY <2>1, <2>2, UpTo
  <2>4. \A k \in 0 .. n : z[k] \in Int
    BY <2>3 DEF S
  <2> QED BY <1>5, <2>4
<1>8. Product(f) = z[n]
  BY <1>1 DEF z
<1> QED BY <1>6, <1>7, <1>8

HornerRound(z, p, x, n) ==
  z[0] = 0 /\ \A k \in 1 .. n : z[k] = (z[k - 1] * x + p[n - k + 1]) % Q

LEMMA EvalLoop ==
  ASSUME NEW n \in Nat, NEW p \in [1 .. n -> Int], NEW x \in Int
  PROVE  \E z \in [0 .. n -> Zq] : HornerRound(z, p, x, n) /\ Eval(p, x) = z[n]
<1> DEFINE Body(z) == [k \in 0 .. n |-> IF k = 0 THEN 0 ELSE (z[k - 1] * x + p[n - k + 1]) % Q]
           Step == [k \in 1 .. n |-> [a \in Zq |-> (a * x + p[n - k + 1]) % Q]]
<1>1. Eval(p, x) = (CHOOSE z : z = Body(z))[n]
  <2>1. Len(p) = n
    OBVIOUS
  <2> QED BY <2>1, Zenon DEF Eval
<1>2. ASSUME NEW k \in 1 .. n, NEW a \in Zq PROVE (a * x + p[n - k + 1]) % Q \in Zq
  <2>1. a \in Int /\ n - k + 1 \in 1 .. n
    BY ZqInt
  <2>2. a * x + p[n - k + 1] \in Int
    BY <2>1
  <2> QED BY <2>2, ModIn
<1>3. Step \in [1 .. n -> [Zq -> Zq]] /\ 0 \in Zq
  BY <1>2, QNat DEF Zq
<1>4. PICK y \in [0 .. n -> Zq] : IsLoop(y, n, 0, Step)
  <2> HIDE DEF Step
  <2> QED BY <1>3, LoopExists
<1>5. y = Body(y)
  <2>1. ASSUME NEW k \in 0 .. n
        PROVE  y[k] = IF k = 0 THEN 0 ELSE (y[k - 1] * x + p[n - k + 1]) % Q
    <3>1. CASE k = 0
      BY <1>4, <3>1 DEF IsLoop
    <3>2. CASE k # 0
      <4>1. k \in 1 .. n /\ k - 1 \in 0 .. n
        BY <3>2
      <4>2. y[k - 1] \in Zq /\ y[k] = Step[k][y[k - 1]]
        BY <1>4, <4>1 DEF IsLoop
      <4> QED BY <3>2, <4>1, <4>2
    <3> QED BY <3>1, <3>2
  <2> QED BY <2>1
<1> DEFINE z == CHOOSE z : z = Body(z)
<1>6. z = Body(z)
  BY <1>5
<1> HIDE DEF z
<1>7. HornerRound(z, p, x, n)
  BY <1>6 DEF HornerRound
<1>8. z \in [0 .. n -> Zq]
  <2> DEFINE S == {k \in 0 .. n : z[k] \in Zq}
  <2>1. 0 \in S
    BY <1>3, <1>7 DEF HornerRound
  <2>2. ASSUME NEW k \in 1 .. n, k - 1 \in S PROVE k \in S
    <3>1. z[k - 1] \in Zq /\ k \in 0 .. n
      BY <2>2
    <3>2. z[k] \in Zq
      BY <1>2, <1>7, <3>1 DEF HornerRound
    <3> QED BY <3>1, <3>2
  <2> HIDE DEF S
  <2>3. \A k \in 0 .. n : k \in S
    BY <2>1, <2>2, UpTo
  <2>4. \A k \in 0 .. n : z[k] \in Zq
    BY <2>3 DEF S
  <2> QED BY <1>6, <2>4
<1>9. Eval(p, x) = z[n]
  BY <1>1 DEF z
<1> QED BY <1>7, <1>8, <1>9

LEMMA EvalType ==
  ASSUME NEW n \in Nat, NEW p \in [1 .. n -> Int], NEW x \in Int
  PROVE  Eval(p, x) \in Zq /\ Eval(p, x) \in Int
<1>1. Eval(p, x) \in Zq
  BY EvalLoop
<1> QED BY <1>1, ZqInt

LEMMA ProductType ==
  ASSUME NEW n \in Nat, NEW f \in [1 .. n -> Int]
  PROVE  Product(f) \in Int
BY ProductLoop
-----------------------------------------------------------------------------
(***************************************************************************)
(* Products.                                                               *)
(***************************************************************************)
LEMMA OneIsNotZero == ~ Cong(1, 0)
<1>1. 1 \in Zq /\ 0 \in Zq
  BY QNat DEF Zq
<1> QED BY <1>1, CongSame

\* A product of numbers that are not 0 is not 0.
LEMMA ProductNonZero ==
  ASSUME NEW n \in Nat, NEW f \in [1 .. n -> Int], \A j \in 1 .. n : ~ Cong(f[j], 0)
  PROVE  ~ Cong(Product(f), 0)
<1>1. PICK z \in [0 .. n -> Int] : ProductRound(z, f, n) /\ Product(f) = z[n]
  BY ProductLoop
<1> DEFINE S == {k \in 0 .. n : ~ Cong(z[k], 0)}
<1>2. 0 \in S
  BY <1>1, OneIsNotZero DEF ProductRound
<1>3. ASSUME NEW k \in 1 .. n, k - 1 \in S PROVE k \in S
  <2> SUFFICES ASSUME Cong(z[k], 0) PROVE FALSE
    OBVIOUS
  <2>1. z[k - 1] \in Int /\ f[k] \in Int /\ ~ Cong(z[k - 1], 0) /\ ~ Cong(f[k], 0)
    BY <1>3
  <2> DEFINE a == z[k - 1]
             b == f[k]
  <2>2. z[k] = (a * b) % Q
    BY <1>1 DEF ProductRound
  <2> HIDE DEF a, b
  <2>3. a \in Int /\ b \in Int /\ a * b \in Int
    BY <2>1 DEF a, b
  <2>4. Cong(a * b, (a * b) % Q) /\ (a * b) % Q \in Int
    BY <2>3, CongMod, ModIn
  <2>5. Cong(a * b, 0)
    BY <2>2, <2>3, <2>4, CongTrans
  <2> QED BY <2>1, <2>3, <2>5, Cancel DEF a, b
<1> HIDE DEF S
<1>4. \A k \in 0 .. n : k \in S
  BY <1>2, <1>3, UpTo
<1>5. n \in S
  BY <1>4
<1> QED BY <1>1, <1>5 DEF S

LEMMA ProductOnes ==
  ASSUME NEW n \in Nat, NEW f \in [1 .. n -> Int], \A j \in 1 .. n : f[j] = 1
  PROVE  Product(f) = 1
<1>1. PICK z \in [0 .. n -> Int] : ProductRound(z, f, n) /\ Product(f) = z[n]
  BY ProductLoop
<1> DEFINE S == {k \in 0 .. n : z[k] = 1}
<1>2. 0 \in S
  BY <1>1 DEF ProductRound
<1>3. ASSUME NEW k \in 1 .. n, k - 1 \in S PROVE k \in S
  <2>1. z[k] = (z[k - 1] * f[k]) % Q /\ z[k - 1] = 1 /\ f[k] = 1
    BY <1>1, <1>3 DEF ProductRound
  <2>2. 1 * 1 = 1 /\ 1 % Q = 1
    BY QNat
  <2> QED BY <2>1, <2>2
<1> HIDE DEF S
<1>4. \A k \in 0 .. n : k \in S
  BY <1>2, <1>3, UpTo
<1>5. n \in S
  BY <1>4
<1> QED BY <1>1, <1>5 DEF S

\* (u * c) % q is congruent to w * d where u is to w and c to d.
LEMMA TimesMod ==
  ASSUME NEW u \in Int, NEW w \in Int, NEW c \in Int, NEW d \in Int, Cong(u, w), Cong(c, d)
  PROVE  Cong((u * c) % Q, w * d)
<1>1. u * c \in Int /\ w * d \in Int
  OBVIOUS
<1>2. Cong(u * c, w * d)
  BY CongTimes
<1>3. Cong((u * c) % Q, u * c) /\ (u * c) % Q \in Int
  BY <1>1, CongMod, ModIn
<1> QED BY <1>1, <1>2, <1>3, CongTrans

\* One factor can be taken out of a product.
LEMMA ProductFactor ==
  ASSUME NEW n \in Nat, NEW f \in [1 .. n -> Int], NEW g \in [1 .. n -> Int],
         NEW a \in 1 .. n, g[a] = 1, \A j \in 1 .. n : j # a => g[j] = f[j]
  PROVE  Cong(Product(f), f[a] * Product(g))
<1>1. PICK z \in [0 .. n -> Int] : ProductRound(z, f, n) /\ Product(f) = z[n]
  BY ProductLoop
<1>2. PICK y \in [0 .. n -> Int] : ProductRound(y, g, n) /\ Product(g) = y[n]
  BY ProductLoop
<1> DEFINE S == {k \in 0 .. n : IF k < a THEN Cong(z[k], y[k]) ELSE Cong(z[k], f[a] * y[k])}
<1>3. 0 \in S
  <2>1. z[0] = 1 /\ y[0] = 1 /\ 0 < a /\ 0 \in 0 .. n
    BY <1>1, <1>2 DEF ProductRound
  <2>2. Cong(1, 1)
    BY CongRefl
  <2> QED BY <2>1, <2>2
<1>4. ASSUME NEW k \in 1 .. n, k - 1 \in S PROVE k \in S
  <2> DEFINE u == z[k - 1]
             w == y[k - 1]
             c == f[k]
             d == g[k]
             e == f[a]
  <2>1. z[k] = (u * c) % Q /\ y[k] = (w * d) % Q
    BY <1>1, <1>2 DEF ProductRound
  <2>2. u \in Int /\ w \in Int /\ c \in Int /\ d \in Int /\ e \in Int /\ k \in 0 .. n /\ k - 1 \in 0 .. n
    <3>1. k \in 0 .. n /\ k - 1 \in 0 .. n
      OBVIOUS
    <3> QED BY <3>1
  <2>3. IF k - 1 < a THEN Cong(u, w) ELSE Cong(u, e * w)
    BY <1>4
  <2>4. IF k = a THEN c = e /\ d = 1 ELSE c = d
    OBVIOUS
  <2>5. SUFFICES IF k < a THEN Cong((u * c) % Q, (w * d) % Q)
                 ELSE Cong((u * c) % Q, e * ((w * d) % Q))
    BY <2>1, <2>2
  <2> HIDE DEF u, w, c, d, e
  <2>6. /\ w * d \in Int /\ (w * d) % Q \in Int /\ (u * c) % Q \in Int /\ u * c \in Int
        /\ e * w \in Int /\ e * (w * d) \in Int /\ e * ((w * d) % Q) \in Int
        /\ Cong(w * d, (w * d) % Q)
    <3>1. w * d \in Int /\ u * c \in Int /\ e * w \in Int
      BY <2>2
    <3>2. (w * d) % Q \in Int /\ (u * c) % Q \in Int /\ Cong(w * d, (w * d) % Q)
      BY <3>1, ModIn, CongMod
    <3>3. e * (w * d) \in Int /\ e * ((w * d) % Q) \in Int
      BY <2>2, <3>1, <3>2, ProductInt
    <3> QED BY <3>1, <3>2, <3>3
  <2>7. Cong(c, c) /\ Cong(e, e) /\ Cong(d, d)
    BY <2>2, CongRefl
  <2>8. Cong(e * (w * d), e * ((w * d) % Q))
    BY <2>2, <2>6, <2>7, CongTimes
  <2>9. CASE k < a
    <3>1. Cong(u, w) /\ c = d
      BY <2>2, <2>3, <2>4, <2>9
    <3>2. Cong((u * c) % Q, w * d)
      BY <2>2, <2>7, <3>1, TimesMod
    <3>3. Cong((u * c) % Q, (w * d) % Q)
      BY <2>6, <3>2, CongTrans
    <3> QED BY <2>9, <3>3
  <2>10. CASE ~ (k < a)
    <3>1. Cong((u * c) % Q, e * (w * d))
      <4>1. CASE k = a
        <5>1. Cong(u, w) /\ c = e /\ d = 1
          BY <2>2, <2>3, <2>4, <4>1
        <5>2. Cong((u * c) % Q, w * e)
          BY <2>2, <2>7, <5>1, TimesMod
        <5>3. w * e = e * (w * d)
          BY <2>2, <5>1
        <5> QED BY <5>2, <5>3
      <4>2. CASE k # a
        <5>1. Cong(u, e * w) /\ c = d
          BY <2>2, <2>3, <2>4, <2>10, <4>2
        <5>2. Cong((u * c) % Q, (e * w) * d)
          BY <2>2, <2>6, <2>7, <5>1, TimesMod
        <5>3. (e * w) * d = e * (w * d)
          BY <2>2
        <5> QED BY <5>2, <5>3
      <4> QED BY <4>1, <4>2
    <3>2. Cong((u * c) % Q, e * ((w * d) % Q))
      BY <2>6, <2>8, <3>1, CongTrans
    <3> QED BY <2>10, <3>2
  <2> QED BY <2>9, <2>10
<1> HIDE DEF S
<1>5. \A k \in 0 .. n : k \in S
  BY <1>3, <1>4, UpTo
<1>6. n \in S /\ ~ (n < a)
  BY <1>5
<1> QED BY <1>1, <1>2, <1>6 DEF S
-----------------------------------------------------------------------------
(***************************************************************************)
(* Polynomials.                                                            *)
(***************************************************************************)

\* The constant term can be split off.
LEMMA EvalStep ==
  ASSUME NEW n \in Nat, n >= 1, NEW c \in [1 .. n -> Int], NEW d \in [1 .. n - 1 -> Int],
         \A j \in 1 .. n - 1 : d[j] = c[j + 1], NEW x \in Int
  PROVE  Eval(c, x) = (Eval(d, x) * x + c[1]) % Q
<1> DEFINE m == n - 1
<1>1. m \in Nat /\ n \in 1 .. n
  OBVIOUS
<1>2. PICK z \in [0 .. n -> Zq] : HornerRound(z, c, x, n) /\ Eval(c, x) = z[n]
  BY EvalLoop
<1>3. PICK y \in [0 .. m -> Zq] : HornerRound(y, d, x, m) /\ Eval(d, x) = y[m]
  BY <1>1, EvalLoop
<1> DEFINE S == {k \in 0 .. m : z[k] = y[k]}
<1>4. 0 \in S
  BY <1>1, <1>2, <1>3 DEF HornerRound
<1>5. ASSUME NEW k \in 1 .. m, k - 1 \in S PROVE k \in S
  <2>1. k \in 0 .. m /\ k \in 1 .. n /\ m - k + 1 \in 1 .. n - 1 /\ (m - k + 1) + 1 = n - k + 1
    BY <1>1
  <2>2. d[m - k + 1] = c[n - k + 1]
    BY <2>1
  <2>3. z[k] = (z[k - 1] * x + c[n - k + 1]) % Q /\ y[k] = (y[k - 1] * x + d[m - k + 1]) % Q
    BY <1>2, <1>3, <2>1 DEF HornerRound
  <2>4. z[k - 1] = y[k - 1]
    BY <1>5
  <2> QED BY <2>1, <2>2, <2>3, <2>4
<1> HIDE DEF S
<1>6. \A k \in 0 .. m : k \in S
  BY <1>1, <1>4, <1>5, UpTo
<1>7. z[m] = y[m]
  <2>1. m \in 0 .. m
    BY <1>1
  <2>2. m \in S
    BY <1>6, <2>1
  <2> QED BY <2>2 DEF S
<1>8. z[n] = (z[n - 1] * x + c[n - n + 1]) % Q /\ n - n + 1 = 1
  BY <1>1, <1>2 DEF HornerRound
<1> QED BY <1>2, <1>3, <1>7, <1>8

LEMMA EvalZero ==
  ASSUME NEW n \in Nat, NEW c \in [1 .. n -> Int], \A j \in 1 .. n : c[j] = 0, NEW x \in Int
  PROVE  Eval(c, x) = 0
<1>1. PICK z \in [0 .. n -> Zq] : HornerRound(z, c, x, n) /\ Eval(c, x) = z[n]
  BY EvalLoop
<1> DEFINE S == {k \in 0 .. n : z[k] = 0}
<1>2. 0 \in S
  BY <1>1 DEF HornerRound
<1>3. ASSUME NEW k \in 1 .. n, k - 1 \in S PROVE k \in S
  <2>1. n - k + 1 \in 1 .. n /\ k \in 0 .. n
    OBVIOUS
  <2>2. z[k] = (0 * x + 0) % Q
    BY <1>1, <1>3, <2>1 DEF HornerRound
  <2>3. 0 * x + 0 = 0 /\ 0 % Q = 0
    BY QNat
  <2> QED BY <2>1, <2>2, <2>3
<1> HIDE DEF S
<1>4. \A k \in 0 .. n : k \in S
  BY <1>2, <1>3, UpTo
<1>5. n \in S
  BY <1>4
<1> QED BY <1>1, <1>5 DEF S

\* The same, as a congruence.
LEMMA EvalSplit ==
  ASSUME NEW n \in Nat, n >= 1, NEW c \in [1 .. n -> Int], NEW d \in [1 .. n - 1 -> Int],
         \A j \in 1 .. n - 1 : d[j] = c[j + 1], NEW x \in Int
  PROVE  Cong(Eval(c, x), Eval(d, x) * x + c[1])
<1>1. Eval(c, x) = (Eval(d, x) * x + c[1]) % Q
  BY EvalStep
<1>2. n - 1 \in Nat /\ c[1] \in Int
  OBVIOUS
<1>3. Eval(d, x) \in Int
  BY <1>2, EvalType
<1>4. Eval(d, x) * x + c[1] \in Int
  BY <1>2, <1>3
<1> QED BY <1>1, <1>4, CongMod

LEMMA EvalUp ==
  ASSUME NEW n \in Nat, NEW c \in [1 .. n + 1 -> Int], NEW d \in [1 .. n -> Int],
         \A j \in 1 .. n : d[j] = c[j + 1], NEW x \in Int
  PROVE  Cong(Eval(c, x), Eval(d, x) * x + c[1])
<1> DEFINE m == n + 1
<1>1. m \in Nat /\ m >= 1 /\ m - 1 = n
  OBVIOUS
<1>2. c \in [1 .. m -> Int] /\ d \in [1 .. m - 1 -> Int] /\ \A j \in 1 .. m - 1 : d[j] = c[j + 1]
  BY <1>1
<1> HIDE DEF m
<1> QED BY <1>1, <1>2, EvalSplit

LEMMA EvalConstant ==
  ASSUME NEW n \in Nat, n >= 1, NEW c \in [1 .. n -> Int], \A j \in 2 .. n : c[j] = 0,
         NEW x \in Int
  PROVE  Cong(Eval(c, x), c[1])
<1> DEFINE d == [j \in 1 .. n - 1 |-> 0]
<1>1. d \in [1 .. n - 1 -> Int] /\ n - 1 \in Nat
  OBVIOUS
<1>2. \A j \in 1 .. n - 1 : d[j] = c[j + 1] /\ d[j] = 0
  OBVIOUS
<1> HIDE DEF d
<1>3. Eval(d, x) = 0
  BY <1>1, <1>2, EvalZero
<1>4. Cong(Eval(c, x), 0 * x + c[1])
  BY <1>1, <1>2, <1>3, EvalSplit
<1>5. 0 * x + c[1] = c[1]
  OBVIOUS
<1> QED BY <1>4, <1>5
-----------------------------------------------------------------------------
(***************************************************************************)
(* Sums modulo q.                                                          *)
(***************************************************************************)
IsSum(s, f, n) ==
  \E w \in [0 .. n -> Int] :
    w[0] = 0 /\ w[n] = s /\ \A k \in 1 .. n : Cong(w[k], w[k - 1] + f[k])

LEMMA SumExists ==
  ASSUME NEW n \in Nat, NEW f \in [1 .. n -> Int]
  PROVE  \E s \in Int : IsSum(s, f, n)
<1> DEFINE Step == [k \in 1 .. n |-> [a \in Int |-> a + f[k]]]
<1>1. Step \in [1 .. n -> [Int -> Int]] /\ 0 \in Int
  OBVIOUS
<1>2. PICK w \in [0 .. n -> Int] : IsLoop(w, n, 0, Step)
  <2> HIDE DEF Step
  <2> QED BY <1>1, LoopExists
<1>3. ASSUME NEW k \in 1 .. n PROVE Cong(w[k], w[k - 1] + f[k])
  <2>1. w[k - 1] \in Int /\ w[k - 1] + f[k] \in Int
    OBVIOUS
  <2>2. w[k] = w[k - 1] + f[k]
    BY <1>2, <2>1 DEF IsLoop
  <2> QED BY <2>1, <2>2, CongRefl
<1>4. w[0] = 0 /\ w[n] \in Int
  BY <1>2 DEF IsLoop
<1> QED BY <1>3, <1>4 DEF IsSum

\* A sum of linear combinations is the combination of the sums.
LEMMA SumLinear ==
  ASSUME NEW n \in Nat, NEW f \in [1 .. n -> Int], NEW g \in [1 .. n -> Int],
         NEW h \in [1 .. n -> Int], NEW p \in Int, NEW q \in Int,
         \A j \in 1 .. n : Cong(h[j], p * f[j] + q * g[j]),
         NEW r \in Int, NEW s \in Int, NEW t \in Int,
         IsSum(r, f, n), IsSum(s, g, n), IsSum(t, h, n)
  PROVE  Cong(t, p * r + q * s)
<1>1. PICK u \in [0 .. n -> Int] :
        u[0] = 0 /\ u[n] = r /\ \A k \in 1 .. n : Cong(u[k], u[k - 1] + f[k])
  BY DEF IsSum
<1>2. PICK v \in [0 .. n -> Int] :
        v[0] = 0 /\ v[n] = s /\ \A k \in 1 .. n : Cong(v[k], v[k - 1] + g[k])
  BY DEF IsSum
<1>3. PICK w \in [0 .. n -> Int] :
        w[0] = 0 /\ w[n] = t /\ \A k \in 1 .. n : Cong(w[k], w[k - 1] + h[k])
  BY DEF IsSum
<1> DEFINE S == {k \in 0 .. n : Cong(w[k], p * u[k] + q * v[k])}
<1>4. 0 \in S
  <2>1. p * 0 + q * 0 = 0 /\ 0 \in 0 .. n
    OBVIOUS
  <2>2. Cong(0, 0)
    BY CongRefl
  <2> QED BY <1>1, <1>2, <1>3, <2>1, <2>2
<1>5. ASSUME NEW k \in 1 .. n, k - 1 \in S PROVE k \in S
  <2> DEFINE u0 == u[k - 1]
             v0 == v[k - 1]
             w0 == w[k - 1]
             u1 == u[k]
             v1 == v[k]
             w1 == w[k]
             ff == f[k]
             gg == g[k]
             hh == h[k]
  <2>1. /\ u0 \in Int /\ v0 \in Int /\ w0 \in Int
        /\ u1 \in Int /\ v1 \in Int /\ w1 \in Int
        /\ ff \in Int /\ gg \in Int /\ hh \in Int
    <3>1. k \in 0 .. n /\ k - 1 \in 0 .. n
      OBVIOUS
    <3> QED BY <3>1
  <2>2. /\ Cong(u1, u0 + ff) /\ Cong(v1, v0 + gg) /\ Cong(w1, w0 + hh)
        /\ Cong(hh, p * ff + q * gg) /\ Cong(w0, p * u0 + q * v0)
    BY <1>1, <1>2, <1>3, <1>5
  <2>3. SUFFICES Cong(w1, p * u1 + q * v1)
    OBVIOUS
  <2> HIDE DEF u0, v0, w0, u1, v1, w1, ff, gg, hh
  <2>4. /\ u0 + ff \in Int /\ v0 + gg \in Int /\ w0 + hh \in Int
        /\ p * ff + q * gg \in Int /\ p * u0 + q * v0 \in Int /\ p * u1 + q * v1 \in Int
        /\ p * (u0 + ff) \in Int /\ q * (v0 + gg) \in Int /\ p * u1 \in Int /\ q * v1 \in Int
        /\ (p * u0 + q * v0) + (p * ff + q * gg) \in Int
        /\ p * (u0 + ff) + q * (v0 + gg) \in Int
    BY <2>1
  <2>5. Cong(p, p) /\ Cong(q, q)
    BY CongRefl
  <2>6. Cong(w0 + hh, (p * u0 + q * v0) + (p * ff + q * gg))
    BY <2>1, <2>2, <2>4, CongPlus
  <2>7. (p * u0 + q * v0) + (p * ff + q * gg) = p * (u0 + ff) + q * (v0 + gg)
    BY <2>1
  <2>8. Cong(p * u1, p * (u0 + ff)) /\ Cong(q * v1, q * (v0 + gg))
    BY <2>1, <2>2, <2>4, <2>5, CongTimes
  <2>9. Cong(p * u1 + q * v1, p * (u0 + ff) + q * (v0 + gg))
    BY <2>4, <2>8, CongPlus
  <2>10. Cong(w1, p * (u0 + ff) + q * (v0 + gg))
    BY <2>1, <2>2, <2>4, <2>6, <2>7, CongTrans
  <2>11. Cong(p * (u0 + ff) + q * (v0 + gg), p * u1 + q * v1)
    BY <2>4, <2>9, CongSym
  <2> QED BY <2>1, <2>4, <2>10, <2>11, CongTrans
<1> HIDE DEF S
<1>6. \A k \in 0 .. n : k \in S
  BY <1>4, <1>5, UpTo
<1>7. n \in S
  BY <1>6
<1> QED BY <1>1, <1>2, <1>3, <1>7 DEF S
-----------------------------------------------------------------------------
(***************************************************************************)
(* Interpolation at 0 by the points X[i] with i in I: the sum over I of    *)
(* c(X[i]), weighted with the product of the other points over that of the *)
(* differences, is c(0), for any c of at most as many coefficients.        *)
(***************************************************************************)
Points(n, I, X, i) == [j \in 1 .. n |-> IF j \in I /\ j # i THEN X[j] ELSE 1]
Gaps(n, I, X, i)   == [j \in 1 .. n |-> IF j \in I /\ j # i THEN (X[j] - X[i]) % Q ELSE 1]

Weights(n, I, X) ==
  {v \in [1 .. n -> Int] : \A i \in I : Cong(v[i] * Product(Gaps(n, I, X, i)), 1)}

Weighted(n, I, X, v, c) ==
  [j \in 1 .. n |->
     IF j \in I THEN (Product(Points(n, I, X, j)) * v[j]) * Eval(c, X[j]) ELSE 0]

Distinct(n, I, X) ==
  I \in SUBSET (1 .. n) /\ X \in [1 .. n -> Zq] /\ \A i, j \in I : i # j => X[i] # X[j]

LEMMA FactorsType ==
  ASSUME NEW n \in Nat, NEW I, NEW X \in [1 .. n -> Zq], NEW i \in 1 .. n
  PROVE  /\ Points(n, I, X, i) \in [1 .. n -> Int] /\ Product(Points(n, I, X, i)) \in Int
         /\ Gaps(n, I, X, i) \in [1 .. n -> Int] /\ Product(Gaps(n, I, X, i)) \in Int
<1>1. \A j \in 1 .. n : X[j] \in Int
  BY ZqInt
<1>2. Points(n, I, X, i) \in [1 .. n -> Int]
  BY <1>1 DEF Points
<1>3. Gaps(n, I, X, i) \in [1 .. n -> Int]
  <2>1. ASSUME NEW j \in 1 .. n PROVE (X[j] - X[i]) % Q \in Int
    <3>1. X[j] - X[i] \in Int
      BY <1>1
    <3> QED BY <3>1, ModIn
  <2> QED BY <2>1 DEF Gaps
<1> QED BY <1>2, <1>3, ProductType

LEMMA WeightedType ==
  ASSUME NEW n \in Nat, NEW I, NEW X \in [1 .. n -> Zq], NEW v \in [1 .. n -> Int],
         NEW d \in Nat, NEW c \in [1 .. d -> Int]
  PROVE  Weighted(n, I, X, v, c) \in [1 .. n -> Int]
<1>1. ASSUME NEW j \in 1 .. n
      PROVE  (Product(Points(n, I, X, j)) * v[j]) * Eval(c, X[j]) \in Int
  <2>1. Product(Points(n, I, X, j)) \in Int /\ v[j] \in Int
    BY FactorsType
  <2>2. X[j] \in Int
    BY ZqInt
  <2>3. Eval(c, X[j]) \in Int
    BY <2>2, EvalType
  <2> QED BY <2>1, <2>3, ProductInt
<1> QED BY <1>1 DEF Weighted

\* The differences of distinct points have a product that is not 0.
LEMMA GapsNonZero ==
  ASSUME NEW n \in Nat, NEW I, NEW X, Distinct(n, I, X), NEW i \in I
  PROVE  ~ Cong(Product(Gaps(n, I, X, i)), 0)
<1>1. X \in [1 .. n -> Zq] /\ i \in 1 .. n /\ I \in SUBSET (1 .. n)
  BY DEF Distinct
<1>2. ASSUME NEW j \in 1 .. n PROVE ~ Cong(Gaps(n, I, X, i)[j], 0)
  <2>1. CASE j \in I /\ j # i
    <3>1. X[j] \in Zq /\ X[i] \in Zq /\ X[j] # X[i]
      BY <1>1, <2>1 DEF Distinct
    <3>2. ~ Cong(X[j] - X[i], 0)
      BY <3>1, Differ
    <3>3. X[j] - X[i] \in Int
      BY <3>1, ZqInt
    <3>4. Cong(X[j] - X[i], (X[j] - X[i]) % Q) /\ (X[j] - X[i]) % Q \in Int
      BY <3>3, CongMod, ModIn
    <3>5. ~ Cong((X[j] - X[i]) % Q, 0)
      BY <3>2, <3>3, <3>4, CongTrans
    <3> QED BY <2>1, <3>5 DEF Gaps
  <2>2. CASE ~ (j \in I /\ j # i)
    BY <2>2, OneIsNotZero DEF Gaps
  <2> QED BY <2>1, <2>2
<1>3. Gaps(n, I, X, i) \in [1 .. n -> Int]
  BY <1>1, FactorsType
<1> QED BY <1>2, <1>3, ProductNonZero

\* Point a taken away: what becomes of the products of another i.
LEMMA DropPoint ==
  ASSUME NEW n \in Nat, NEW I \in SUBSET (1 .. n), NEW X \in [1 .. n -> Zq],
         NEW a \in I, NEW i \in I, i # a
  PROVE  /\ Cong(Product(Points(n, I, X, i)), X[a] * Product(Points(n, I \ {a}, X, i)))
         /\ Cong(Product(Gaps(n, I, X, i)),
                 ((X[a] - X[i]) % Q) * Product(Gaps(n, I \ {a}, X, i)))
<1>1. a \in 1 .. n /\ i \in 1 .. n
  OBVIOUS
<1> DEFINE f == Points(n, I, X, i)
           g == Points(n, I \ {a}, X, i)
           e == Gaps(n, I, X, i)
           h == Gaps(n, I \ {a}, X, i)
<1>2. f[a] = X[a] /\ g[a] = 1 /\ \A j \in 1 .. n : j # a => g[j] = f[j]
  BY <1>1 DEF Points
<1>3. e[a] = (X[a] - X[i]) % Q /\ h[a] = 1 /\ \A j \in 1 .. n : j # a => h[j] = e[j]
  BY <1>1 DEF Gaps
<1>4. f \in [1 .. n -> Int] /\ g \in [1 .. n -> Int] /\ e \in [1 .. n -> Int] /\ h \in [1 .. n -> Int]
  BY <1>1, FactorsType
<1> HIDE DEF f, g, e, h
<1>5. Cong(Product(f), f[a] * Product(g))
  BY <1>1, <1>2, <1>4, ProductFactor
<1>6. Cong(Product(e), e[a] * Product(h))
  BY <1>1, <1>3, <1>4, ProductFactor
<1> QED BY <1>2, <1>3, <1>5, <1>6 DEF f, g, e, h

\* The arithmetic of the next lemma.
LEMMA DropAlgebra ==
  ASSUME NEW N \in Int, NEW M \in Int, NEW v \in Int, NEW E \in Int, NEW F \in Int,
         NEW xa \in Int, NEW xj \in Int, Cong(N, xa * M), Cong(F, E * xj)
  PROVE  Cong((N * v) * F, xa * ((N * v) * E) + (-xa) * ((M * (v * (xa - xj))) * E))
<1> DEFINE A == N * v
           u == v * (xa - xj)
           W == u * E
<1>1. A \in Int /\ u \in Int
  OBVIOUS
<1>2. A * E = xa * 0 + A * E /\ (N * u) = (A * xa) - (A * xj)
  <2>1. A * E \in Int
    BY <1>1
  <2>2. N * (v * (xa - xj)) = (N * v) * (xa - xj)
    OBVIOUS
  <2> DEFINE B == N * v
  <2> HIDE DEF B
  <2>3. B \in Int
    BY DEF B
  <2>4. B * (xa - xj) = (B * xa) - (B * xj)
    BY <2>3
  <2> QED BY <2>1, <2>2, <2>4 DEF B
<1> HIDE DEF A, u, W
<1>3. W \in Int /\ W = u * E
  BY <1>1 DEF W
<1>4. /\ A * F \in Int /\ E * xj \in Int /\ A * (E * xj) \in Int /\ xa * M \in Int
      /\ (xa * M) * W \in Int /\ N * W \in Int /\ A * E \in Int /\ xa * (A * E) \in Int
      /\ (xa * (A * E)) - (N * W) \in Int /\ (xa * (A * E)) - ((xa * M) * W) \in Int
  BY <1>1, <1>3
<1>5. Cong(A, A) /\ Cong(W, W) /\ Cong(xa * (A * E), xa * (A * E))
  BY <1>1, <1>3, <1>4, CongRefl
<1>6. Cong(A * F, A * (E * xj))
  BY <1>1, <1>4, <1>5, CongTimes
<1>7. Cong(N * W, (xa * M) * W)
  BY <1>3, <1>4, <1>5, CongTimes
<1>8. Cong((xa * (A * E)) - (N * W), (xa * (A * E)) - ((xa * M) * W))
  BY <1>4, <1>5, <1>7, CongPlus
<1>9. A * (E * xj) = (xa * (A * E)) - (N * W)
  <2>1. N * (u * E) = (N * u) * E
    BY <1>1
  <2>2. ((A * xa) - (A * xj)) * E = ((A * xa) * E) - ((A * xj) * E)
    BY <1>1
  <2>3. (A * xa) * E = xa * (A * E) /\ (A * xj) * E = A * (E * xj)
    BY <1>1
  <2>4. N * W = (xa * (A * E)) - (A * (E * xj))
    BY <1>2, <1>3, <2>1, <2>2, <2>3
  <2> QED BY <1>4, <2>4
<1>10. (xa * (A * E)) - ((xa * M) * W) = xa * (A * E) + (-xa) * ((M * u) * E)
  <2>1. (xa * M) * (u * E) = xa * ((M * u) * E) /\ (M * u) * E \in Int
    BY <1>1
  <2> DEFINE B == (M * u) * E
             D == A * E
  <2>2. B \in Int /\ D \in Int /\ (xa * M) * W = xa * B
    BY <1>3, <1>4, <2>1
  <2>3. SUFFICES (xa * D) - ((xa * M) * W) = xa * D + (-xa) * B
    OBVIOUS
  <2> HIDE DEF B, D
  <2>4. (xa * D) - (xa * B) = xa * D + (-xa) * B
    BY <2>2
  <2> QED BY <2>2, <2>4
<1>11. Cong(A * F, xa * (A * E) + (-xa) * ((M * u) * E))
  BY <1>4, <1>6, <1>8, <1>9, <1>10, CongTrans
<1> QED BY <1>11 DEF A, u

\* The weights of what is left when point a is taken away.
Left(n, X, v, a) == [i \in 1 .. n |-> v[i] * (X[a] - X[i])]

LEMMA DropWeights ==
  ASSUME NEW n \in Nat, NEW I \in SUBSET (1 .. n), NEW X \in [1 .. n -> Zq], NEW a \in I,
         NEW v \in Weights(n, I, X)
  PROVE  Left(n, X, v, a) \in Weights(n, I \ {a}, X)
<1>1. \A i \in 1 .. n : X[i] \in Int /\ v[i] \in Int /\ X[a] \in Int
  BY ZqInt DEF Weights
<1>2. Left(n, X, v, a) \in [1 .. n -> Int]
  BY <1>1 DEF Left
<1>3. ASSUME NEW i \in I \ {a}
      PROVE  Cong(Left(n, X, v, a)[i] * Product(Gaps(n, I \ {a}, X, i)), 1)
  <2> DEFINE P == Product(Gaps(n, I, X, i))
             R == Product(Gaps(n, I \ {a}, X, i))
             g == X[a] - X[i]
             w == v[i]
  <2>1. P \in Int /\ R \in Int /\ i \in 1 .. n
    BY FactorsType
  <2>2. Cong(P, (g % Q) * R)
    BY DropPoint
  <2>3. Cong(w * P, 1)
    BY DEF Weights
  <2>4. g \in Int /\ w \in Int
    BY <1>1, <2>1
  <2>5. Left(n, X, v, a)[i] = w * g
    BY <2>1 DEF Left
  <2> HIDE DEF P, R, g, w
  <2>6. g % Q \in Int /\ Cong(g % Q, g) /\ Cong(R, R) /\ Cong(w, w)
    BY <2>1, <2>4, ModIn, CongMod, CongRefl
  <2>7. (g % Q) * R \in Int /\ g * R \in Int /\ w * P \in Int /\ w * (g * R) \in Int
    BY <2>1, <2>4, <2>6, ProductInt
  <2>8. Cong((g % Q) * R, g * R)
    BY <2>1, <2>4, <2>6, CongTimes
  <2>9. Cong(P, g * R)
    BY <2>1, <2>2, <2>7, <2>8, CongTrans
  <2>10. Cong(w * P, w * (g * R))
    BY <2>1, <2>4, <2>6, <2>7, <2>9, CongTimes
  <2>11. Cong(w * (g * R), w * P)
    BY <2>7, <2>10, CongSym
  <2>12. Cong(w * (g * R), 1)
    BY <2>3, <2>7, <2>11, CongTrans
  <2>13. (w * g) * R = w * (g * R)
    BY <2>1, <2>4
  <2>14. Cong((w * g) * R, 1)
    BY <2>12, <2>13
  <2> QED BY <2>5, <2>14 DEF R
<1> QED BY <1>2, <1>3 DEF Weights

\* The terms of e = x * c by those of c, with and without point a.
LEMMA DropTerm ==
  ASSUME NEW n \in Nat, NEW I \in SUBSET (1 .. n), NEW X \in [1 .. n -> Zq], NEW a \in I,
         NEW v \in [1 .. n -> Int], NEW d \in Nat, NEW c \in [1 .. d -> Int],
         NEW m \in Nat, NEW e \in [1 .. m -> Int],
         \A x \in Int : Cong(Eval(e, x), Eval(c, x) * x), NEW j \in 1 .. n
  PROVE  Cong(Weighted(n, I, X, v, e)[j],
              X[a] * Weighted(n, I, X, v, c)[j]
                + (- X[a]) * Weighted(n, I \ {a}, X, Left(n, X, v, a), c)[j])
<1> DEFINE N == Product(Points(n, I, X, j))
           M == Product(Points(n, I \ {a}, X, j))
           xa == X[a]
           xj == X[j]
           w == v[j]
           E == Eval(c, xj)
           F == Eval(e, xj)
           U == Weighted(n, I, X, v, e)[j]
           V == Weighted(n, I, X, v, c)[j]
           W == Weighted(n, I \ {a}, X, Left(n, X, v, a), c)[j]
<1>1. xa \in Int /\ xj \in Int /\ w \in Int
  BY ZqInt
<1>2. N \in Int /\ M \in Int /\ E \in Int /\ F \in Int
  BY <1>1, FactorsType, EvalType
<1>3. Cong(F, E * xj)
  BY <1>1
<1>4. IF j \in I THEN U = (N * w) * F /\ V = (N * w) * E ELSE U = 0 /\ V = 0
  BY DEF Weighted
<1>5. IF j \in I \ {a} THEN W = (M * (w * (xa - xj))) * E ELSE W = 0
  BY DEF Weighted, Left
<1>6. j \in I \ {a} => Cong(N, xa * M)
  BY DropPoint
<1>7. j = a => xj = xa /\ j \in I
  OBVIOUS
<1>8. SUFFICES Cong(U, xa * V + (-xa) * W)
  OBVIOUS
<1> HIDE DEF N, M, xa, xj, w, E, F, U, V, W
<1>9. CASE j \in I \ {a}
  <2>1. Cong((N * w) * F, xa * ((N * w) * E) + (-xa) * ((M * (w * (xa - xj))) * E))
    BY <1>1, <1>2, <1>3, <1>6, <1>9, DropAlgebra
  <2> QED BY <1>4, <1>5, <1>9, <2>1
<1>10. CASE j = a
  <2> DEFINE A == N * w
  <2>1. A \in Int
    BY <1>1, <1>2
  <2>2. U = A * F /\ V = A * E /\ W = 0 /\ xj = xa
    BY <1>4, <1>5, <1>7, <1>10
  <2> HIDE DEF A
  <2>3. A * E \in Int /\ E * xa \in Int
    BY <1>1, <1>2, <2>1
  <2>4. xa * (A * E) + (-xa) * 0 = xa * (A * E) /\ xa * (A * E) = A * (E * xa)
    BY <1>1, <1>2, <2>1, <2>3
  <2>5. Cong(A, A)
    BY <2>1, CongRefl
  <2>6. Cong(A * F, A * (E * xa))
    BY <1>2, <1>3, <2>1, <2>2, <2>3, <2>5, CongTimes
  <2> QED BY <2>2, <2>4, <2>6
<1>11. CASE j \notin I
  <2>1. U = 0 /\ V = 0 /\ W = 0
    BY <1>4, <1>5, <1>11
  <2>2. xa * 0 + (-xa) * 0 = 0
    BY <1>1
  <2>3. Cong(0, 0)
    BY CongRefl
  <2> QED BY <2>1, <2>2, <2>3
<1> QED BY <1>9, <1>10, <1>11

Interpolates(n, I, X, d) ==
  \A v \in Weights(n, I, X), c \in [1 .. d -> Int], s \in Int :
    IsSum(s, Weighted(n, I, X, v, c), n) => Cong(s, c[1])

\* A sum with a single term.
LEMMA SumSingle ==
  ASSUME NEW n \in Nat, NEW f \in [1 .. n -> Int], NEW a \in 1 .. n,
         \A j \in 1 .. n : j # a => f[j] = 0, NEW s \in Int, IsSum(s, f, n)
  PROVE  Cong(s, f[a])
<1>1. PICK w \in [0 .. n -> Int] :
        w[0] = 0 /\ w[n] = s /\ \A k \in 1 .. n : Cong(w[k], w[k - 1] + f[k])
  BY DEF IsSum
<1> DEFINE S == {k \in 0 .. n : Cong(w[k], IF k < a THEN 0 ELSE f[a])}
<1>2. 0 \in S
  <2>1. 0 < a /\ 0 \in 0 .. n /\ Cong(0, 0)
    BY CongRefl
  <2> QED BY <1>1, <2>1
<1>3. ASSUME NEW k \in 1 .. n, k - 1 \in S PROVE k \in S
  <2> DEFINE u == w[k - 1]
             y == w[k]
             g == f[k]
             e == f[a]
             old == IF k - 1 < a THEN 0 ELSE e
             new == IF k < a THEN 0 ELSE e
  <2>1. k \in 0 .. n /\ k - 1 \in 0 .. n
    OBVIOUS
  <2>2. u \in Int /\ y \in Int /\ g \in Int /\ e \in Int
    BY <2>1
  <2>3. Cong(y, u + g) /\ Cong(u, old)
    BY <1>1, <1>3
  <2>4. old + g = new
    <3>1. CASE k < a
      <4>1. g = 0 /\ k - 1 < a
        BY <3>1
      <4> QED BY <3>1, <4>1
    <3>2. CASE k = a
      <4>1. g = e /\ k - 1 < a /\ ~ (k < a)
        BY <3>2
      <4> QED BY <2>2, <4>1
    <3>3. CASE k > a
      <4>1. g = 0 /\ ~ (k - 1 < a) /\ ~ (k < a)
        BY <3>3
      <4> QED BY <2>2, <4>1
    <3> QED BY <3>1, <3>2, <3>3
  <2>5. old \in Int /\ new \in Int
    BY <2>2
  <2>6. SUFFICES Cong(y, new)
    BY <2>1
  <2> HIDE DEF u, y, g, e, old, new
  <2>7. Cong(g, g) /\ u + g \in Int /\ old + g \in Int
    BY <2>2, <2>5, CongRefl
  <2>8. Cong(u + g, old + g)
    BY <2>2, <2>3, <2>5, <2>7, CongPlus
  <2>9. Cong(y, old + g)
    BY <2>2, <2>3, <2>7, <2>8, CongTrans
  <2> QED BY <2>4, <2>9
<1> HIDE DEF S
<1>4. \A k \in 0 .. n : k \in S
  BY <1>2, <1>3, UpTo
<1>5. n \in S /\ ~ (n < a)
  BY <1>4
<1> QED BY <1>1, <1>5 DEF S

LEMMA InterpolatesOne ==
  ASSUME NEW n \in Nat, NEW X \in [1 .. n -> Zq], NEW a \in 1 .. n
  PROVE  Interpolates(n, {a}, X, 1)
<1> SUFFICES ASSUME NEW v \in Weights(n, {a}, X), NEW c \in [1 .. 1 -> Int], NEW s \in Int,
                    IsSum(s, Weighted(n, {a}, X, v, c), n)
             PROVE  Cong(s, c[1])
  BY DEF Interpolates
<1> DEFINE f == Weighted(n, {a}, X, v, c)
<1>1. v \in [1 .. n -> Int] /\ Cong(v[a] * Product(Gaps(n, {a}, X, a)), 1)
  BY DEF Weights
<1>2. f \in [1 .. n -> Int]
  BY <1>1, WeightedType
<1>3. \A j \in 1 .. n : j # a => f[j] = 0
  BY DEF Weighted
<1>4. Cong(s, f[a])
  <2> HIDE DEF f
  <2>1. IsSum(s, f, n)
    BY DEF f
  <2> QED BY <1>2, <1>3, <2>1, SumSingle
<1>5. Product(Gaps(n, {a}, X, a)) = 1 /\ Product(Points(n, {a}, X, a)) = 1
  <2>1. /\ Points(n, {a}, X, a) \in [1 .. n -> Int] /\ Gaps(n, {a}, X, a) \in [1 .. n -> Int]
    BY FactorsType
  <2>2. \A j \in 1 .. n : Points(n, {a}, X, a)[j] = 1 /\ Gaps(n, {a}, X, a)[j] = 1
    BY DEF Points, Gaps
  <2> QED BY <2>1, <2>2, ProductOnes
<1> DEFINE E == Eval(c, X[a])
           w == v[a]
<1>6. f[a] = (1 * w) * E /\ Cong(w * 1, 1)
  BY <1>1, <1>5 DEF Weighted
<1>7. X[a] \in Int /\ w \in Int /\ c[1] \in Int
  BY <1>1, ZqInt
<1>8. E \in Int
  BY <1>7, EvalType
<1>9. Cong(E, c[1])
  <2>1. 1 \in Nat /\ 1 >= 1 /\ \A j \in 2 .. 1 : c[j] = 0
    OBVIOUS
  <2> QED BY <1>7, <2>1, EvalConstant
<1> HIDE DEF E, w, f
<1>10. Cong(w * E, 1 * c[1])
  <2>1. w * 1 = w
    BY <1>7
  <2> QED BY <1>6, <1>7, <1>8, <1>9, <2>1, CongTimes
<1>11. (1 * w) * E = w * E /\ w * E \in Int /\ 1 * c[1] = c[1]
  BY <1>7, <1>8
<1>12. Cong(f[a], c[1])
  BY <1>6, <1>10, <1>11
<1>13. f[a] \in Int
  BY <1>2
<1> QED BY <1>4, <1>7, <1>12, <1>13, CongTrans

\* The sum for e = x * c, from the sums for c with and without point a.
LEMMA DropSum ==
  ASSUME NEW n \in Nat, NEW I \in SUBSET (1 .. n), NEW X \in [1 .. n -> Zq], NEW a \in I,
         NEW v \in Weights(n, I, X), NEW d \in Nat, NEW c \in [1 .. d -> Int], d >= 1,
         NEW m \in Nat, NEW e \in [1 .. m -> Int],
         \A x \in Int : Cong(Eval(e, x), Eval(c, x) * x),
         Interpolates(n, I \ {a}, X, d),
         NEW r \in Int, IsSum(r, Weighted(n, I, X, v, c), n),
         NEW s \in Int, IsSum(s, Weighted(n, I, X, v, e), n)
  PROVE  Cong(s, X[a] * (r - c[1]))
<1> DEFINE f == Weighted(n, I, X, v, c)
           g == Weighted(n, I \ {a}, X, Left(n, X, v, a), c)
           h == Weighted(n, I, X, v, e)
           xa == X[a]
<1>1. v \in [1 .. n -> Int] /\ Left(n, X, v, a) \in Weights(n, I \ {a}, X)
  BY DropWeights DEF Weights
<1>2. Left(n, X, v, a) \in [1 .. n -> Int]
  BY <1>1 DEF Weights
<1>3. f \in [1 .. n -> Int] /\ g \in [1 .. n -> Int] /\ h \in [1 .. n -> Int]
  BY <1>1, <1>2, WeightedType
<1>4. \A j \in 1 .. n : Cong(h[j], xa * f[j] + (-xa) * g[j])
  BY <1>1, DropTerm
<1>5. xa \in Int /\ -xa \in Int /\ c[1] \in Int
  BY ZqInt
<1>6. PICK t \in Int : IsSum(t, g, n)
  <2> HIDE DEF g
  <2> QED BY <1>3, SumExists
<1>7. Cong(t, c[1])
  BY <1>1, <1>6 DEF Interpolates
<1>8. IsSum(r, f, n) /\ IsSum(s, h, n)
  OBVIOUS
<1> HIDE DEF f, g, h, xa
<1>9. Cong(s, xa * r + (-xa) * t)
  BY <1>3, <1>4, <1>5, <1>6, <1>8, SumLinear
<1> DEFINE c1 == c[1]
<1>10. c1 \in Int /\ Cong(t, c1)
  BY <1>5, <1>7
<1> HIDE DEF c1
<1>11. Cong(xa * r, xa * r) /\ Cong(-xa, -xa)
  BY <1>5, CongRefl
<1>12. /\ xa * r \in Int /\ (-xa) * t \in Int /\ (-xa) * c1 \in Int
       /\ xa * r + (-xa) * t \in Int /\ xa * r + (-xa) * c1 \in Int
  BY <1>5, <1>6, <1>10
<1>13. Cong((-xa) * t, (-xa) * c1)
  BY <1>5, <1>6, <1>10, <1>11, CongTimes
<1>14. Cong(xa * r + (-xa) * t, xa * r + (-xa) * c1)
  BY <1>11, <1>12, <1>13, CongPlus
<1>15. Cong(s, xa * r + (-xa) * c1)
  BY <1>9, <1>12, <1>14, CongTrans
<1>16. xa * r + (-xa) * c1 = xa * (r - c1)
  BY <1>5, <1>10
<1>17. Cong(s, xa * (r - c1))
  BY <1>15, <1>16
<1> QED BY <1>17 DEF xa, c1

\* What two different points say together.
LEMMA TwoPoints ==
  ASSUME NEW xa \in Zq, NEW xb \in Zq, xa # xb, NEW r \in Int, NEW s \in Int,
         Cong(s, xa * r), Cong(s, xb * r)
  PROVE  Cong(r, 0) /\ Cong(s, 0)
<1>1. xa \in Int /\ xb \in Int /\ xa - xb \in Int
  BY ZqInt
<1>2. xa * r \in Int /\ xb * r \in Int /\ s - s = 0 /\ (xa - xb) * r = (xa * r) - (xb * r)
  BY <1>1
<1>3. Cong(s - s, (xa * r) - (xb * r))
  BY <1>2, CongPlus
<1>4. (xa * r) - (xb * r) \in Int
  BY <1>2
<1>5. Cong((xa - xb) * r, 0)
  BY <1>2, <1>3, <1>4, CongSym
<1>6. ~ Cong(xa - xb, 0)
  BY Differ
<1>7. Cong(r, 0)
  BY <1>1, <1>5, <1>6, Cancel
<1>8. Cong(xa, xa) /\ xa * 0 = 0
  BY <1>1, CongRefl
<1>9. Cong(xa * r, 0)
  BY <1>1, <1>7, <1>8, CongTimes
<1> QED BY <1>2, <1>7, <1>9, CongTrans

LEMMA InterpolatesMore ==
  ASSUME NEW n \in Nat, NEW I, NEW X, Distinct(n, I, X), NEW a \in I, NEW b \in I, a # b,
         NEW d \in Nat, d >= 1,
         Interpolates(n, I \ {a}, X, d), Interpolates(n, I \ {b}, X, d)
  PROVE  Interpolates(n, I, X, d + 1)
<1> SUFFICES ASSUME NEW v \in Weights(n, I, X), NEW c \in [1 .. d + 1 -> Int], NEW s \in Int,
                    IsSum(s, Weighted(n, I, X, v, c), n)
             PROVE  Cong(s, c[1])
  BY DEF Interpolates
<1>1. I \in SUBSET (1 .. n) /\ X \in [1 .. n -> Zq] /\ X[a] \in Zq /\ X[b] \in Zq /\ X[a] # X[b]
  BY DEF Distinct
<1>2. v \in [1 .. n -> Int] /\ d + 1 \in Nat /\ d + 1 >= 1 /\ d + 1 - 1 = d
  BY DEF Weights
<1>3. c[1] \in Int
  OBVIOUS
<1> DEFINE tail == [j \in 1 .. d |-> c[j + 1]]
           shifted == [j \in 1 .. d + 1 |-> IF j = 1 THEN 0 ELSE c[j]]
           first == [j \in 1 .. d |-> IF j = 1 THEN c[1] ELSE 0]
<1>4. tail \in [1 .. d -> Int] /\ shifted \in [1 .. d + 1 -> Int] /\ first \in [1 .. d -> Int]
  OBVIOUS
<1>5. /\ \A j \in 1 .. d : tail[j] = c[j + 1] /\ tail[j] = shifted[j + 1]
      /\ shifted[1] = 0 /\ first[1] = c[1] /\ \A j \in 2 .. d : first[j] = 0
  OBVIOUS
<1> HIDE DEF tail, shifted, first
<1>6. ASSUME NEW x \in Int
      PROVE  /\ Cong(Eval(shifted, x), Eval(tail, x) * x)
             /\ Cong(Eval(c, x), Eval(tail, x) * x + c[1])
             /\ Cong(Eval(first, x), c[1])
  <2>1. Cong(Eval(shifted, x), Eval(tail, x) * x + shifted[1])
    BY <1>4, <1>5, EvalUp
  <2>2. Eval(tail, x) \in Int
    BY <1>4, EvalType
  <2>3. Eval(tail, x) * x + 0 = Eval(tail, x) * x
    BY <2>2
  <2>4. Cong(Eval(c, x), Eval(tail, x) * x + c[1])
    BY <1>4, <1>5, EvalUp
  <2>5. Cong(Eval(first, x), c[1])
    BY <1>4, <1>5, EvalConstant
  <2> QED BY <1>5, <2>1, <2>3, <2>4, <2>5
<1> DEFINE f == Weighted(n, I, X, v, first)
           g == Weighted(n, I, X, v, shifted)
           h == Weighted(n, I, X, v, c)
           k == Weighted(n, I, X, v, tail)
\* The sums of c, x * c's tail and the constant.
<1>7. f \in [1 .. n -> Int] /\ g \in [1 .. n -> Int] /\ h \in [1 .. n -> Int] /\ k \in [1 .. n -> Int]
  BY <1>1, <1>2, <1>4, WeightedType
<1>8. PICK p \in Int, q \in Int, r \in Int : IsSum(p, f, n) /\ IsSum(q, g, n) /\ IsSum(r, k, n)
  <2> HIDE DEF f, g, k
  <2> QED BY <1>7, SumExists
<1>9. Cong(q, X[a] * (r - tail[1])) /\ Cong(q, X[b] * (r - tail[1]))
  BY <1>1, <1>2, <1>4, <1>6, <1>8, DropSum
<1>10. Cong(q, 0)
  <2>1. tail[1] \in Int /\ r - tail[1] \in Int
    BY <1>4
  <2> QED BY <1>1, <1>9, <2>1, TwoPoints
\* For the constant: its product with x is again a polynomial.
<1> DEFINE up == [j \in 1 .. d + 1 |-> IF j = 2 THEN c[1] ELSE 0]
<1>11. up \in [1 .. d + 1 -> Int] /\ up[1] = 0 /\ \A j \in 1 .. d : first[j] = up[j + 1]
  BY <1>3 DEF first
<1> HIDE DEF up
<1>12. ASSUME NEW x \in Int PROVE Cong(Eval(up, x), Eval(first, x) * x)
  <2>1. Cong(Eval(up, x), Eval(first, x) * x + up[1])
    BY <1>4, <1>11, EvalUp
  <2>2. Eval(first, x) \in Int
    BY <1>4, EvalType
  <2>3. Eval(first, x) * x + 0 = Eval(first, x) * x
    BY <2>2
  <2> QED BY <1>11, <2>1, <2>3
<1>13. Weighted(n, I, X, v, up) \in [1 .. n -> Int]
  BY <1>1, <1>2, <1>11, WeightedType
<1>14. PICK t \in Int : IsSum(t, Weighted(n, I, X, v, up), n)
  BY <1>13, SumExists
<1>15. Cong(t, X[a] * (p - first[1])) /\ Cong(t, X[b] * (p - first[1]))
  BY <1>1, <1>2, <1>4, <1>8, <1>11, <1>12, <1>14, DropSum
<1>16. Cong(p, c[1])
  <2>1. first[1] \in Int /\ p - first[1] \in Int
    BY <1>4
  <2>2. Cong(p - first[1], 0)
    BY <1>1, <1>15, <2>1, TwoPoints
  <2>3. Cong(first[1], first[1])
    BY <2>1, CongRefl
  <2>4. Cong((p - first[1]) + first[1], 0 + first[1])
    BY <2>1, <2>2, <2>3, CongPlus
  <2>5. (p - first[1]) + first[1] = p /\ 0 + first[1] = first[1]
    BY <2>1
  <2> QED BY <1>5, <2>4, <2>5
<1>17. \A j \in 1 .. n : Cong(h[j], 1 * f[j] + 1 * g[j])
  <2> SUFFICES ASSUME NEW j \in 1 .. n PROVE Cong(h[j], 1 * f[j] + 1 * g[j])
    OBVIOUS
  <2> DEFINE A == Product(Points(n, I, X, j)) * v[j]
             x == X[j]
             E == Eval(c, x)
             F == Eval(first, x)
             G == Eval(shifted, x)
             T == Eval(tail, x)
             y == c[1]
  <2>1. x \in Int /\ y \in Int
    BY <1>1, ZqInt
  <2>2. A \in Int /\ E \in Int /\ F \in Int /\ G \in Int /\ T \in Int
    <3>1. Product(Points(n, I, X, j)) \in Int /\ v[j] \in Int
      BY <1>1, <1>2, FactorsType
    <3> QED BY <1>2, <1>4, <2>1, <3>1, EvalType, ProductInt
  <2>3. Cong(G, T * x) /\ Cong(E, T * x + y) /\ Cong(F, y)
    BY <1>6, <2>1
  <2>4. IF j \in I THEN h[j] = A * E /\ f[j] = A * F /\ g[j] = A * G
        ELSE h[j] = 0 /\ f[j] = 0 /\ g[j] = 0
    BY DEF Weighted
  <2> HIDE DEF A, x, E, F, G, T, y, f, g, h
  <2>5. CASE j \in I
    <3>1. T * x \in Int /\ T * x + y \in Int /\ F + G \in Int /\ G + F = F + G
      BY <2>1, <2>2
    <3>2. Cong(G + F, T * x + y)
      BY <2>1, <2>2, <2>3, <3>1, CongPlus
    <3>3. Cong(T * x + y, F + G)
      BY <3>1, <3>2, CongSym
    <3>4. Cong(E, F + G)
      BY <2>2, <2>3, <3>1, <3>3, CongTrans
    <3>5. Cong(A, A)
      BY <2>2, CongRefl
    <3>6. Cong(A * E, A * (F + G))
      BY <2>2, <3>1, <3>4, <3>5, CongTimes
    <3>7. A * (F + G) = 1 * (A * F) + 1 * (A * G)
      BY <2>2
    <3> QED BY <2>4, <2>5, <3>6, <3>7
  <2>6. CASE j \notin I
    <3>1. Cong(0, 0) /\ 1 * 0 + 1 * 0 = 0
      BY CongRefl
    <3> QED BY <2>4, <2>6, <3>1
  <2> QED BY <2>5, <2>6
<1>18. Cong(s, 1 * p + 1 * q)
  <2>1. IsSum(s, h, n)
    OBVIOUS
  <2> HIDE DEF f, g, h
  <2>2. 1 \in Int
    OBVIOUS
  <2> QED BY <1>7, <1>8, <1>17, <2>1, <2>2, SumLinear
<1>19. Cong(p + q, c[1] + 0)
  BY <1>3, <1>10, <1>16, CongPlus
<1>20. 1 * p + 1 * q = p + q /\ c[1] + 0 = c[1] /\ p + q \in Int
  BY <1>3
<1>21. Cong(s, p + q) /\ Cong(p + q, c[1])
  BY <1>18, <1>19, <1>20
<1> QED BY <1>3, <1>20, <1>21, CongTrans

\* Interpolation, for any set of points.
LEMMA Interpolation ==
  ASSUME NEW n \in Nat, NEW X, NEW I, I # {}, Distinct(n, I, X)
  PROVE  Interpolates(n, I, X, Cardinality(I))
<1>1. IsFiniteSet(1 .. n) /\ Cardinality(1 .. n) = n
  BY FS_Interval
<1> DEFINE S == {k \in 0 .. n : \A J \in SUBSET (1 .. n) :
                   (J # {} /\ Distinct(n, J, X) /\ Cardinality(J) = k) => Interpolates(n, J, X, k)}
<1>2. \A J \in SUBSET (1 .. n) : IsFiniteSet(J) /\ Cardinality(J) \in 0 .. n
  <2> SUFFICES ASSUME NEW J \in SUBSET (1 .. n)
               PROVE  IsFiniteSet(J) /\ Cardinality(J) \in 0 .. n
    OBVIOUS
  <2>1. IsFiniteSet(J) /\ Cardinality(J) <= n
    BY <1>1, FS_Subset
  <2>2. Cardinality(J) \in Nat
    BY <2>1, FS_CardinalityType
  <2> QED BY <2>1, <2>2
<1>3. 0 \in S
  <2>1. ASSUME NEW J \in SUBSET (1 .. n), Cardinality(J) = 0 PROVE J = {}
    BY <1>2, <2>1, FS_EmptySet
  <2>2. 0 \in 0 .. n
    OBVIOUS
  <2> QED BY <2>1, <2>2
<1>4. ASSUME NEW k \in 1 .. n, k - 1 \in S PROVE k \in S
  <2> SUFFICES ASSUME NEW J \in SUBSET (1 .. n), J # {}, Distinct(n, J, X), Cardinality(J) = k
               PROVE  Interpolates(n, J, X, k)
    OBVIOUS
  <2>1. PICK a \in J : TRUE
    OBVIOUS
  <2>2. CASE J = {a}
    <3>1. k = 1
      BY <2>2, FS_Singleton
    <3>2. X \in [1 .. n -> Zq] /\ a \in 1 .. n
      BY <2>1 DEF Distinct
    <3> QED BY <2>2, <3>1, <3>2, InterpolatesOne
  <2>3. CASE J # {a}
    <3>1. PICK b \in J : b # a
      BY <2>1, <2>3
    <3>2. ASSUME NEW y \in J, J \ {y} # {} PROVE Interpolates(n, J \ {y}, X, k - 1)
      <4>1. J \ {y} \in SUBSET (1 .. n) /\ Distinct(n, J \ {y}, X)
        BY DEF Distinct
      <4>2. Cardinality(J \ {y}) = k - 1
        BY <1>2, FS_RemoveElement
      <4> QED BY <1>4, <3>2, <4>1, <4>2
    <3>3. Interpolates(n, J \ {a}, X, k - 1) /\ Interpolates(n, J \ {b}, X, k - 1)
      BY <2>1, <3>1, <3>2
    <3>4. k - 1 \in Nat /\ k - 1 >= 1 /\ (k - 1) + 1 = k
      <4>1. k # 1
        BY <1>2, <2>1, <3>1, FS_Singleton
      <4> QED BY <4>1
    <3> QED BY <2>1, <3>1, <3>3, <3>4, InterpolatesMore
  <2> QED BY <2>2, <2>3
<1>5. I \in SUBSET (1 .. n)
  BY DEF Distinct
<1> HIDE DEF S
<1>6. \A k \in 0 .. n : k \in S
  BY <1>3, <1>4, UpTo
<1>7. Cardinality(I) \in S
  BY <1>2, <1>5, <1>6
<1> QED BY <1>5, <1>7 DEF S
-----------------------------------------------------------------------------
(***************************************************************************)
(* The loop of IBE_combine and IBE_construct_master.                       *)
(***************************************************************************)
Indexed(t, index, x) == index \in [1 .. t -> DOMAIN x] /\ x \in [DOMAIN x -> Zq]

At(index, x) == [j \in DOMAIN index |-> x[index[j]]]

\* The numerator and the denominator are the products above.
LEMMA NumeratorOf ==
  ASSUME NEW t \in Nat, NEW index, NEW x, Indexed(t, index, x), NEW i \in 1 .. t
  PROVE  Numerator(index, x, i) = Product(Points(t, 1 .. t, At(index, x), i))
<1>1. Others([j \in DOMAIN index |-> x[index[j]]], i) = Points(t, 1 .. t, At(index, x), i)
  BY DEF Others, Points, At, Indexed
<1> QED BY <1>1, Zenon DEF Numerator

LEMMA DenominatorOf ==
  ASSUME NEW t \in Nat, NEW index, NEW x, Indexed(t, index, x), NEW i \in 1 .. t
  PROVE  Denominator(index, x, i) = Product(Gaps(t, 1 .. t, At(index, x), i))
<1>1. Others([j \in DOMAIN index |-> (x[index[j]] - x[index[i]]) % Q], i)
        = Gaps(t, 1 .. t, At(index, x), i)
  BY DEF Others, Gaps, At, Indexed
<1> QED BY <1>1, Zenon DEF Denominator

LEMMA TermsType ==
  ASSUME NEW t \in Nat, NEW index, NEW x, Indexed(t, index, x),
         NEW value \in [1 .. t -> Int], NEW i \in 1 .. t
  PROVE  Terms(index, x, value, i) \in SUBSET Zq
<1>1. Numerator(index, x, i) \in Int
  <2>1. At(index, x) \in [1 .. t -> Zq]
    BY DEF At, Indexed
  <2>2. Product(Points(t, 1 .. t, At(index, x), i)) \in Int
    BY <2>1, FactorsType
  <2>3. Numerator(index, x, i) = Product(Points(t, 1 .. t, At(index, x), i))
    BY NumeratorOf
  <2> QED BY <2>2, <2>3, Zenon
<1>2. ASSUME NEW v \in Zq PROVE (Numerator(index, x, i) * v * value[i]) % Q \in Zq
  <2>1. v \in Int /\ value[i] \in Int
    BY ZqInt
  <2>2. Numerator(index, x, i) * v \in Int
    BY <1>1, <2>1, ProductInt
  <2>3. Numerator(index, x, i) * v * value[i] \in Int
    BY <2>1, <2>2, ProductInt
  <2> QED BY <2>3, ModIn
<1> QED BY <1>2 DEF Terms, Inverses

\* The rounds of the loop.
SumRound(D, index, x, value, n) ==
  /\ D[0] = {0}
  /\ \A k \in 1 .. n :
       D[k] = Added(D[k - 1], Terms(index, x, value, k))

LEMMA SumsLoop ==
  ASSUME NEW t \in Nat, NEW index, NEW x, Indexed(t, index, x),
         NEW value \in [1 .. t -> Int]
  PROVE  \E D \in [0 .. t -> SUBSET Zq] :
           SumRound(D, index, x, value, t) /\ Sums(index, x, value) = D[t]
<1> DEFINE Add(A, k) == Added(A, Terms(index, x, value, k))
           Body(z) == [k \in 0 .. t |-> IF k = 0 THEN {0} ELSE Add(z[k - 1], k)]
           Step == [k \in 1 .. t |-> [A \in SUBSET Zq |-> Add(A, k)]]
<1>1. Sums(index, x, value) = (CHOOSE z : z = Body(z))[t]
  <2>1. index \in [1 .. t -> DOMAIN x]
    BY DEF Indexed
  <2>2. Len(index) = t
    BY <2>1
  <2> QED BY <2>2, Zenon DEF Sums
<1>2. ASSUME NEW k \in 1 .. t, NEW A \in SUBSET Zq PROVE Add(A, k) \in SUBSET Zq
  <2>1. Terms(index, x, value, k) \in SUBSET Zq
    BY TermsType
  <2>2. ASSUME NEW a \in A, NEW b \in Terms(index, x, value, k) PROVE (a + b) % Q \in Zq
    <3>1. a \in Int /\ b \in Int
      BY <2>1, ZqInt
    <3>2. a + b \in Int
      BY <3>1
    <3> QED BY <3>2, ModIn
  <2> QED BY <2>2 DEF Added
<1> HIDE DEF Add
<1>3. Step \in [1 .. t -> [SUBSET Zq -> SUBSET Zq]] /\ {0} \in SUBSET Zq
  <2>1. Step \in [1 .. t -> [SUBSET Zq -> SUBSET Zq]]
    BY <1>2
  <2>2. 0 \in Zq
    BY QNat DEF Zq
  <2> QED BY <2>1, <2>2
<1>4. PICK y \in [0 .. t -> SUBSET Zq] : IsLoop(y, t, {0}, Step)
  <2> HIDE DEF Step
  <2> QED BY <1>3, LoopExists
<1>5. y = Body(y)
  <2>1. ASSUME NEW k \in 0 .. t PROVE y[k] = IF k = 0 THEN {0} ELSE Add(y[k - 1], k)
    <3>1. CASE k = 0
      BY <1>4, <3>1 DEF IsLoop
    <3>2. CASE k # 0
      <4>1. k \in 1 .. t /\ k - 1 \in 0 .. t
        BY <3>2
      <4>2. y[k - 1] \in SUBSET Zq /\ y[k] = Step[k][y[k - 1]]
        BY <1>4, <4>1 DEF IsLoop
      <4> QED BY <3>2, <4>1, <4>2
    <3> QED BY <3>1, <3>2
  <2> QED BY <2>1
<1> DEFINE z == CHOOSE z : z = Body(z)
<1>6. z = Body(z)
  BY <1>5
<1> HIDE DEF z
<1>7. z[0] = {0} /\ \A k \in 1 .. t : z[k] = Add(z[k - 1], k)
  <2>1. \A k \in 0 .. t : z[k] = IF k = 0 THEN {0} ELSE Add(z[k - 1], k)
    BY <1>6, Zenon
  <2>2. 0 \in 0 .. t /\ \A k \in 1 .. t : k \in 0 .. t /\ k # 0
    OBVIOUS
  <2> QED BY <2>1, <2>2, Zenon
<1>8. z \in [0 .. t -> SUBSET Zq]
  <2> DEFINE S == {k \in 0 .. t : z[k] \in SUBSET Zq}
  <2>1. 0 \in S
    <3>1. 0 \in 0 .. t
      OBVIOUS
    <3> QED BY <1>3, <1>7, <3>1
  <2>2. ASSUME NEW k \in 1 .. t, k - 1 \in S PROVE k \in S
    <3>1. z[k - 1] \in SUBSET Zq /\ k \in 0 .. t
      BY <2>2
    <3>2. Add(z[k - 1], k) \in SUBSET Zq
      BY <1>2, <3>1, Zenon
    <3>3. z[k] \in SUBSET Zq
      BY <1>7, <3>2, Zenon
    <3> QED BY <3>1, <3>3
  <2> HIDE DEF S
  <2>3. \A k \in 0 .. t : k \in S
    BY <2>1, <2>2, UpTo
  <2>4. \A k \in 0 .. t : z[k] \in SUBSET Zq
    BY <2>3 DEF S
  <2> QED BY <1>6, <2>4
<1>9. SumRound(z, index, x, value, t)
  BY <1>7 DEF SumRound, Add
<1>10. Sums(index, x, value) = z[t]
  BY <1>1 DEF z
<1> QED BY <1>8, <1>9, <1>10

\* Whatever the loop ends with is the sum of one term for every share.
Chosen(w, y, s, n, index, x, value) ==
  /\ w[0] = 0 /\ w[n] = s
  /\ \A k \in 1 .. n : w[k] = (w[k - 1] + y[k]) % Q /\ y[k] \in Terms(index, x, value, k)

LEMMA SumsChosen ==
  ASSUME NEW t \in Nat, NEW index, NEW x, Indexed(t, index, x),
         NEW value \in [1 .. t -> Int], NEW s \in Sums(index, x, value)
  PROVE  \E w \in [0 .. t -> Int], y \in [1 .. t -> Int] :
           Chosen(w, y, s, t, index, x, value)
<1>1. PICK D \in [0 .. t -> SUBSET Zq] :
        SumRound(D, index, x, value, t) /\ Sums(index, x, value) = D[t]
  BY SumsLoop
<1> DEFINE S == {k \in 0 .. t : \A r \in D[k] :
                   \E w \in [0 .. k -> Int], y \in [1 .. k -> Int] :
                     Chosen(w, y, r, k, index, x, value)}
<1>2. 0 \in S
  <2>1. SUFFICES ASSUME NEW r \in D[0]
                 PROVE  \E w \in [0 .. 0 -> Int], y \in [1 .. 0 -> Int] :
                          Chosen(w, y, r, 0, index, x, value)
    <3>1. 0 \in 0 .. t
      OBVIOUS
    <3> QED BY <3>1
  <2>2. r = 0
    BY <1>1 DEF SumRound
  <2>3. [k \in 0 .. 0 |-> 0] \in [0 .. 0 -> Int] /\ [k \in 1 .. 0 |-> 0] \in [1 .. 0 -> Int]
    OBVIOUS
  <2>4. Chosen([k \in 0 .. 0 |-> 0], [k \in 1 .. 0 |-> 0], r, 0, index, x, value)
    BY <2>2 DEF Chosen
  <2> QED BY <2>3, <2>4
<1>3. ASSUME NEW k \in 1 .. t, k - 1 \in S PROVE k \in S
  <2>1. SUFFICES ASSUME NEW r \in D[k]
                 PROVE  \E w \in [0 .. k -> Int], y \in [1 .. k -> Int] :
                          Chosen(w, y, r, k, index, x, value)
    <3>1. k \in 0 .. t
      OBVIOUS
    <3> QED BY <3>1
  <2>2. PICK a \in D[k - 1], b \in Terms(index, x, value, k) : r = (a + b) % Q
    <3>1. r \in Added(D[k - 1], Terms(index, x, value, k))
      BY <1>1 DEF SumRound
    <3> QED BY <3>1 DEF Added
  <2>3. PICK w \in [0 .. k - 1 -> Int], y \in [1 .. k - 1 -> Int] :
          Chosen(w, y, a, k - 1, index, x, value)
    BY <1>3
  <2> DEFINE ww == [j \in 0 .. k |-> IF j = k THEN r ELSE w[j]]
             yy == [j \in 1 .. k |-> IF j = k THEN b ELSE y[j]]
  <2>4. a \in Int /\ b \in Int /\ r \in Int
    <3>1. k - 1 \in 0 .. t /\ k \in 0 .. t
      OBVIOUS
    <3>2. a \in Zq /\ r \in Zq /\ b \in Zq
      BY <3>1, TermsType
    <3> QED BY <3>2, ZqInt
  <2>5. ww \in [0 .. k -> Int] /\ yy \in [1 .. k -> Int]
    <3>1. ASSUME NEW j \in 0 .. k PROVE (IF j = k THEN r ELSE w[j]) \in Int
      <4>1. CASE j = k
        BY <2>4, <4>1
      <4>2. CASE j # k
        <5>1. j \in 0 .. k - 1
          BY <4>2
        <5> QED BY <4>2, <5>1
      <4> QED BY <4>1, <4>2
    <3>2. ASSUME NEW j \in 1 .. k PROVE (IF j = k THEN b ELSE y[j]) \in Int
      <4>1. CASE j = k
        BY <2>4, <4>1
      <4>2. CASE j # k
        <5>1. j \in 1 .. k - 1
          BY <4>2
        <5> QED BY <4>2, <5>1
      <4> QED BY <4>1, <4>2
    <3> QED BY <3>1, <3>2
  <2>6. ww[0] = 0 /\ ww[k] = r
    <3>1. 0 \in 0 .. k /\ 0 # k /\ k \in 0 .. k
      OBVIOUS
    <3>2. w[0] = 0
      BY <2>3 DEF Chosen
    <3> QED BY <3>1, <3>2
  <2>7. ASSUME NEW j \in 1 .. k
        PROVE  ww[j] = (ww[j - 1] + yy[j]) % Q /\ yy[j] \in Terms(index, x, value, j)
    <3>1. j \in 0 .. k /\ j - 1 \in 0 .. k /\ j - 1 # k
      OBVIOUS
    <3>2. ww[j - 1] = w[j - 1]
      BY <3>1
    <3>3. CASE j = k
      <4>1. w[k - 1] = a
        BY <2>3 DEF Chosen
      <4>2. ww[j] = r /\ yy[j] = b /\ ww[j - 1] = a
        BY <3>1, <3>2, <3>3, <4>1
      <4> QED BY <2>2, <3>3, <4>2
    <3>4. CASE j # k
      <4>1. j \in 1 .. k - 1
        BY <3>4
      <4>2. w[j] = (w[j - 1] + y[j]) % Q /\ y[j] \in Terms(index, x, value, j)
        BY <2>3, <4>1 DEF Chosen
      <4>3. ww[j] = w[j] /\ yy[j] = y[j]
        BY <3>1, <3>4
      <4> QED BY <3>2, <4>2, <4>3
    <3> QED BY <3>3, <3>4
  <2>8. Chosen(ww, yy, r, k, index, x, value)
    BY <2>6, <2>7 DEF Chosen
  <2> QED BY <2>5, <2>8
<1> HIDE DEF S
<1>4. \A k \in 0 .. t : k \in S
  BY <1>2, <1>3, UpTo
<1>5. t \in S
  BY <1>4
<1> QED BY <1>1, <1>5 DEF S

LEMMA SumsType ==
  ASSUME NEW t \in Nat, NEW index, NEW x, Indexed(t, index, x), NEW value \in [1 .. t -> Int]
  PROVE  Sums(index, x, value) \in SUBSET Zq
<1>1. PICK D \in [0 .. t -> SUBSET Zq] :
        SumRound(D, index, x, value, t) /\ Sums(index, x, value) = D[t]
  BY SumsLoop
<1>2. t \in 0 .. t
  OBVIOUS
<1> QED BY <1>1, <1>2

\* The term of a share, by the inverse that it was made with.
TermBy(y, v, index, x, value, k) ==
  /\ v \in Zq
  /\ Denominator(index, x, k) # 0 => (v * Denominator(index, x, k)) % Q = 1
  /\ y = (Numerator(index, x, k) * v * value[k]) % Q

(***************************************************************************)
(* The values h * c(x) at t different points x, weighted and added up by   *)
(* the loop, make h * c(0), if c has t coefficients.                       *)
(***************************************************************************)
LEMMA SumsAtZero ==
  ASSUME NEW t \in Nat, t >= 1, NEW index, NEW x, Indexed(t, index, x),
         NEW value \in [1 .. t -> Int],
         \A i, j \in 1 .. t : i # j => x[index[i]] # x[index[j]],
         NEW c \in [1 .. t -> Int], NEW h \in Int,
         \A j \in 1 .. t : Cong(value[j], h * Eval(c, x[index[j]])),
         NEW s \in Sums(index, x, value)
  PROVE  Cong(s, h * c[1])
<1>1. PICK w \in [0 .. t -> Int], y \in [1 .. t -> Int] : Chosen(w, y, s, t, index, x, value)
  BY SumsChosen
<1> DEFINE X == At(index, x)
           I == 1 .. t
<1>2. X \in [1 .. t -> Zq] /\ \A j \in 1 .. t : X[j] = x[index[j]]
  BY DEF At, Indexed
<1>3. Distinct(t, I, X)
  BY <1>2 DEF Distinct
<1>4. \A k \in 1 .. t : \E v \in Zq : TermBy(y[k], v, index, x, value, k)
  <2> SUFFICES ASSUME NEW k \in 1 .. t PROVE \E v \in Zq : TermBy(y[k], v, index, x, value, k)
    OBVIOUS
  <2>1. y[k] \in Terms(index, x, value, k)
    BY <1>1 DEF Chosen
  <2> QED BY <2>1 DEF Terms, Inverses, TermBy
<1> DEFINE v == [k \in 1 .. t |-> CHOOSE u \in Zq : TermBy(y[k], u, index, x, value, k)]
<1>5. \A k \in 1 .. t : v[k] \in Zq /\ TermBy(y[k], v[k], index, x, value, k)
  BY <1>4
<1>6. v \in [1 .. t -> Int]
  <2>1. \A k \in 1 .. t : v[k] \in Int
    BY <1>5, ZqInt
  <2> QED BY <2>1
<1> HIDE DEF v, X
<1>7. v \in Weights(t, I, X)
  <2> SUFFICES ASSUME NEW k \in 1 .. t PROVE Cong(v[k] * Product(Gaps(t, I, X, k)), 1)
    BY <1>6 DEF Weights
  <2> DEFINE G == Product(Gaps(t, I, X, k))
  <2>1. Denominator(index, x, k) = G
    BY DenominatorOf DEF X
  <2>2. ~ Cong(G, 0) /\ G \in Int
    BY <1>2, <1>3, GapsNonZero, FactorsType
  <2> DEFINE u == v[k]
  <2>3. u \in Int
    BY <1>6
  <2>4. G # 0 => (u * G) % Q = 1
    BY <1>5, <2>1 DEF TermBy
  <2> HIDE DEF G, u
  <2>5. G # 0
    <3>1. Cong(0, 0)
      BY CongRefl
    <3> QED BY <2>2, <3>1
  <2>6. u * G \in Int
    BY <2>2, <2>3
  <2>7. Cong(u * G, 1)
    BY <2>4, <2>5, <2>6, CongMod
  <2> QED BY <2>7 DEF G, u
<1> DEFINE f == Weighted(t, I, X, v, c)
<1>8. f \in [1 .. t -> Int]
  BY <1>2, <1>6, WeightedType
<1>9. PICK r \in Int : IsSum(r, f, t)
  <2> HIDE DEF f
  <2> QED BY <1>8, SumExists
<1>10. Cong(r, c[1])
  <2>1. I # {} /\ Cardinality(I) = t
    BY FS_Interval
  <2>2. Interpolates(t, I, X, Cardinality(I))
    <3> HIDE DEF I
    <3> QED BY <1>3, <2>1, Interpolation
  <2>3. Interpolates(t, I, X, t)
    BY <2>1, <2>2
  <2> QED BY <1>7, <1>9, <2>3 DEF Interpolates
<1>11. \A j \in 1 .. t : Cong(y[j], h * f[j] + 0 * f[j])
  <2> SUFFICES ASSUME NEW j \in 1 .. t PROVE Cong(y[j], h * f[j] + 0 * f[j])
    OBVIOUS
  <2> DEFINE N == Product(Points(t, I, X, j))
             u == v[j]
             E == Eval(c, X[j])
             z == value[j]
  <2>1. X[j] \in Int
    BY <1>2, ZqInt
  <2>2. N \in Int /\ E \in Int /\ u \in Int /\ z \in Int
    BY <1>2, <1>6, <2>1, FactorsType, EvalType
  <2>3. Numerator(index, x, j) = N
    BY NumeratorOf DEF X
  <2>4. y[j] = ((N * u) * z) % Q
    BY <1>5, <2>3 DEF TermBy
  <2>5. Cong(z, h * E)
    BY <1>2
  <2>6. f[j] = (N * u) * E
    BY DEF Weighted
  <2> HIDE DEF N, u, E, z, f
  <2> DEFINE A == N * u
  <2>7. A \in Int /\ y[j] = (A * z) % Q /\ f[j] = A * E
    BY <2>2, <2>4, <2>6
  <2> HIDE DEF A
  <2>8. Cong(A, A) /\ h * E \in Int
    BY <2>2, <2>7, CongRefl
  <2>9. Cong((A * z) % Q, A * (h * E))
    BY <2>2, <2>5, <2>7, <2>8, TimesMod
  <2>10. A * (h * E) = h * (A * E) + 0 * (A * E)
    <3>1. A * (h * E) = h * (A * E) /\ A * E \in Int
      BY <2>2, <2>7
    <3>2. 0 * (A * E) = 0 /\ h * (A * E) + 0 = h * (A * E)
      BY <3>1
    <3> QED BY <3>1, <3>2
  <2> QED BY <2>7, <2>9, <2>10
<1>12. IsSum(s, y, t) /\ s \in Int
  <2>1. ASSUME NEW k \in 1 .. t PROVE Cong(w[k], w[k - 1] + y[k])
    <3>1. w[k] = (w[k - 1] + y[k]) % Q
      BY <1>1 DEF Chosen
    <3>2. w[k - 1] + y[k] \in Int
      <4>1. k - 1 \in 0 .. t
        OBVIOUS
      <4> DEFINE a == w[k - 1]
                 b == y[k]
      <4>2. a \in Int /\ b \in Int
        BY <4>1
      <4> HIDE DEF a, b
      <4>3. a + b \in Int
        BY <4>2
      <4> QED BY <4>3 DEF a, b
    <3> QED BY <3>1, <3>2, CongMod
  <2>2. w[0] = 0 /\ w[t] = s /\ t \in 0 .. t /\ w \in [0 .. t -> Int]
    BY <1>1 DEF Chosen
  <2>3. s \in Int
    BY <2>2
  <2>4. \A k \in 1 .. t : Cong(w[k], w[k - 1] + y[k])
    BY <2>1
  <2>5. IsSum(s, y, t)
    BY <2>2, <2>4 DEF IsSum
  <2> QED BY <2>3, <2>5
<1> HIDE DEF f
<1>13. Cong(s, h * r + 0 * r)
  <2>1. 0 \in Int
    OBVIOUS
  <2> QED BY <1>8, <1>9, <1>11, <1>12, <2>1, SumLinear
<1> DEFINE c1 == c[1]
<1>14. c1 \in Int /\ Cong(r, c1) /\ Cong(h, h)
  BY <1>10, CongRefl
<1> HIDE DEF c1
<1>15. h * r + 0 * r = h * r /\ h * r \in Int /\ h * c1 \in Int
  BY <1>14
<1>16. Cong(h * r, h * c1)
  BY <1>14, CongTimes
<1>17. Cong(s, h * c1)
  BY <1>12, <1>13, <1>15, <1>16, CongTrans
<1> QED BY <1>17 DEF c1
-----------------------------------------------------------------------------
(***************************************************************************)
(* What is saved and loaded, and what is drawn.                            *)
(***************************************************************************)
LEMMA Int4Type ==
  ASSUME NEW n \in Nat
  PROVE  Int4(n) \in 0 .. IntBase - 1 /\ Int4(n) \in Nat /\ Int4(n) <= n
<1>1. IntBase \in Nat /\ IntBase > 0
  BY IntBaseAssumption
<1>2. n % IntBase \in 0 .. IntBase - 1 /\ n = IntBase * (n \div IntBase) + (n % IntBase)
  BY <1>1
<1>3. n \div IntBase \in Nat
  BY <1>1
<1>4. IntBase * (n \div IntBase) \in Nat
  BY <1>1, <1>3
<1> DEFINE a == IntBase * (n \div IntBase)
           b == n % IntBase
<1>5. a \in Nat /\ b \in 0 .. IntBase - 1 /\ n = a + b
  BY <1>2, <1>4
<1> HIDE DEF a, b
<1>6. b <= n /\ b \in Nat
  BY <1>1, <1>5
<1> QED BY <1>5, <1>6 DEF b, Int4

LEMMA Int4Same == ASSUME NEW n \in Nat, n < IntBase PROVE Int4(n) = n
BY IntBaseAssumption DEF Int4

LEMMA Int4Twice == ASSUME NEW n \in Nat PROVE Int4(Int4(n)) = Int4(n)
<1>1. Int4(n) \in Nat /\ Int4(n) < IntBase
  BY Int4Type, IntBaseAssumption
<1> QED BY <1>1, Int4Same

LEMMA PolynomialType ==
  ASSUME NEW m \in Zq, NEW t \in Nat, t >= 1, NEW p \in Polynomials(m, t)
  PROVE  p \in [1 .. t -> Zq] /\ p[1] = m /\ p \in Seq(Zq)
<1>1. PICK coef \in [1 .. t - 1 -> Zq] : p = <<m>> \o coef
  BY DEF Polynomials
<1>2. coef \in Seq(Zq) /\ Len(coef) = t - 1 /\ <<m>> \in Seq(Zq) /\ Len(<<m>>) = 1
  OBVIOUS
<1>3. p \in Seq(Zq) /\ Len(p) = t /\ p[1] = <<m>>[1]
  BY <1>1, <1>2, ConcatProperties
<1> QED BY <1>3

\* What gen deals, when the values are loaded from the file.
LEMMA DealtType ==
  ASSUME NEW t \in Thresholds, NEW n \in Sizes, NEW x \in [1 .. n -> Zq],
         NEW p \in Polynomials(master, t), master \in Masters
  PROVE  /\ t \in Nat /\ t >= 1 /\ n \in Nat /\ n >= 1
         /\ p \in [1 .. t -> Zq] /\ p \in [1 .. t -> Int] /\ p[1] = master /\ p \in Seq(Zq)
         /\ \A i \in 1 .. n : x[i] \in Int /\ Eval(p, x[i]) \in Zq
         /\ x \in Seq(Zq) /\ SubSeq(x, 1, Int4(n)) \in Seq(Zq)
<1>1. t \in Nat /\ t >= 1 /\ n \in Nat /\ n >= 1
  BY SplitAssumption
<1>2. p \in [1 .. t -> Zq] /\ p[1] = master /\ p \in Seq(Zq)
  <2>1. master \in Zq
    BY MastersAssumption
  <2> QED BY <1>1, <2>1, PolynomialType
<1>3. p \in [1 .. t -> Int]
  BY <1>2, ZqInt
<1>4. \A i \in 1 .. n : x[i] \in Int
  BY ZqInt
<1>5. \A i \in 1 .. n : Eval(p, x[i]) \in Zq
  BY <1>1, <1>3, <1>4, EvalType
<1>6. x \in Seq(Zq)
  BY <1>1
<1>7. SubSeq(x, 1, Int4(n)) \in Seq(Zq)
  <2>1. Int4(n) \in Nat /\ Int4(n) <= n /\ Len(x) = n
    BY <1>1, Int4Type
  <2>2. \A i \in 1 .. Int4(n) : x[i] \in Zq
    BY <1>1, <2>1
  <2> QED BY <1>6, <2>1, <2>2, SubSeqProperties
<1> QED BY <1>1, <1>2, <1>3, <1>4, <1>5, <1>6, <1>7
-----------------------------------------------------------------------------
(***************************************************************************)
(* The inductive invariant, action by action.                              *)
(***************************************************************************)
LEMMA InitKeys == Init => KeysInv
<1> SUFFICES ASSUME Init PROVE KeysInv
  OBVIOUS
<1> USE DEF Init
<1>1. Secret /\ NothingYet /\ Dealt
  BY DEF Secret, NothingYet, Dealt, Phases
<1>2. Collected
  <2>1. <<>> \in Seq(Share) /\ Len(<<>>) = 0
    OBVIOUS
  <2> QED BY <2>1 DEF Collected
<1>3. RefusedRightly /\ KeyMade
  BY DEF RefusedRightly, KeyMade
<1> QED BY <1>1, <1>2, <1>3 DEF KeysInv

LEMMA SplitKeys ==
  ASSUME KeysInv, NEW t \in Thresholds, NEW n \in Sizes, SplitMaster(t, n)
  PROVE  KeysInv'
<1> USE DEF KeysInv
<1>1. phase = "setup" /\ phase' = "split" /\ master' = master /\ kshare' = kshare /\ key' = key
  BY DEF SplitMaster
<1>2. Secret' /\ NothingYet'
  BY <1>1 DEF Secret, NothingYet, Phases
<1>3. Dealt'
  <2>1. PICK p \in Polynomials(master, t), x \in [1 .. n -> Zq] :
          /\ poly' = p
          /\ params' = [sharet |-> t, sharen |-> n, robustx |-> x]
          /\ mshare' = [i \in 1 .. n |-> [index |-> Int4(i - 1), y |-> Eval(p, x[i])]]
    BY DEF SplitMaster
  <2>2. DealtBy(t, n, x)'
    BY <1>1, <2>1 DEF DealtBy
  <2> QED BY <2>2 DEF Dealt
<1>4. Collected'
  <2>1. kshare' = <<>> /\ <<>> \in Seq(Share) /\ Len(<<>>) = 0
    BY <1>1 DEF Collected
  <2> QED BY <1>1, <2>1 DEF Collected
<1>5. RefusedRightly' /\ KeyMade'
  BY <1>1 DEF RefusedRightly, KeyMade
<1> QED BY <1>2, <1>3, <1>4, <1>5

LEMMA LoadKeys == ASSUME KeysInv, LoadParams PROVE KeysInv'
<1> USE DEF KeysInv
<1>1. /\ phase = "split" /\ phase' = "loaded" /\ master' = master /\ poly' = poly
      /\ mshare' = mshare /\ kshare' = kshare /\ key' = key
  BY DEF LoadParams
<1>2. Secret' /\ NothingYet'
  BY <1>1 DEF Secret, NothingYet, Phases
<1>3. Dealt'
  <2>1. PICK t \in Thresholds, n \in Sizes : \E x \in [1 .. n -> Zq] : DealtBy(t, n, x)
    BY <1>1 DEF Dealt
  <2>2. PICK x \in [1 .. n -> Zq] : DealtBy(t, n, x)
    BY <2>1
  <2>3. params = [sharet |-> t, sharen |-> n, robustx |-> x]
    BY <1>1, <2>2 DEF DealtBy
  <2>4. params' = [sharet |-> Int4(t), sharen |-> Int4(n), robustx |-> SubSeq(x, 1, Int4(n))]
    BY <2>3 DEF LoadParams
  <2>5. DealtBy(t, n, x)'
    BY <1>1, <2>2, <2>4 DEF DealtBy
  <2> QED BY <2>5 DEF Dealt
<1>4. Collected'
  <2>1. kshare' = <<>> /\ <<>> \in Seq(Share) /\ Len(<<>>) = 0
    BY <1>1 DEF Collected
  <2> QED BY <1>1, <2>1 DEF Collected
<1>5. RefusedRightly' /\ KeyMade'
  BY <1>1 DEF RefusedRightly, KeyMade
<1> QED BY <1>2, <1>3, <1>4, <1>5

\* What the shares of the PKGs hold.
LEMMA SharesType ==
  ASSUME KeysInv, phase # "setup"
  PROVE  /\ DOMAIN mshare \in SUBSET (Nat \ {0}) /\ params.sharet \in Nat
         /\ \A i \in DOMAIN mshare :
              /\ mshare[i].index = Int4(i - 1) /\ mshare[i].index \in Nat
              /\ mshare[i].index \in 0 .. IntBase - 1
              /\ mshare[i].y \in Zq /\ mshare[i].y \in Int
<1>1. PICK t \in Thresholds, n \in Sizes : \E x \in [1 .. n -> Zq] : DealtBy(t, n, x)
  BY DEF KeysInv, Dealt
<1>2. PICK x \in [1 .. n -> Zq] : DealtBy(t, n, x)
  BY <1>1
<1>3. /\ mshare = [i \in 1 .. n |-> [index |-> Int4(i - 1), y |-> Eval(poly, x[i])]]
      /\ params.sharet = t \/ params.sharet = Int4(t)
  BY <1>2 DEF DealtBy
<1>4. /\ t \in Nat /\ n \in Nat /\ \A i \in 1 .. n : Eval(poly, x[i]) \in Zq
  BY <1>2, DealtType DEF DealtBy, KeysInv, Secret
<1>5. params.sharet \in Nat
  BY <1>3, <1>4, Int4Type
<1>6. ASSUME NEW i \in 1 .. n
      PROVE  /\ mshare[i].index = Int4(i - 1) /\ Int4(i - 1) \in Nat
             /\ Int4(i - 1) \in 0 .. IntBase - 1 /\ mshare[i].y \in Zq /\ mshare[i].y \in Int
  <2>1. mshare[i].index = Int4(i - 1) /\ mshare[i].y = Eval(poly, x[i])
    BY <1>3
  <2>2. i - 1 \in Nat
    BY <1>4
  <2>3. Int4(i - 1) \in Nat /\ Int4(i - 1) \in 0 .. IntBase - 1
    BY <2>2, Int4Type
  <2> QED BY <1>4, <2>1, <2>3, ZqInt
<1>7. DOMAIN mshare = 1 .. n
  BY <1>3
<1> QED BY <1>4, <1>5, <1>6, <1>7

LEMMA ExtractKeys ==
  ASSUME KeysInv, NEW i \in DOMAIN mshare, NEW id \in Ids, ExtractShare(i, id)
  PROVE  KeysInv'
<1> USE DEF KeysInv
<1> DEFINE k == [from |-> i, id |-> id, index |-> Int4(mshare[i].index),
                 point |-> (mshare[i].y * PointOf(id)) % Q]
<1>1. /\ phase = "loaded" /\ phase' = phase /\ master' = master /\ poly' = poly
      /\ params' = params /\ mshare' = mshare /\ key' = key /\ kshare' = Append(kshare, k)
  BY DEF ExtractShare
<1>2. Secret' /\ NothingYet'
  BY <1>1 DEF Secret, NothingYet, Phases
<1>3. Dealt'
  BY <1>1 DEF Dealt, DealtBy
<1>4. Collected'
  <2>1. /\ i \in Nat /\ i - 1 \in Nat /\ mshare[i].index = Int4(i - 1) /\ mshare[i].index \in Nat
        /\ mshare[i].y \in Int
    <3>1. i \in Nat \ {0}
      BY <1>1, SharesType
    <3> QED BY <1>1, <3>1, SharesType
  <2>2. Int4(mshare[i].index) = mshare[i].index
    BY <2>1, Int4Twice
  <2>3. k.point \in Zq
    <3>1. PointOf(id) \in Int
      BY PointAssumption, ZqInt
    <3>2. mshare[i].y * PointOf(id) \in Int
      BY <2>1, <3>1
    <3> QED BY <3>2, ModIn
  <2>4. k \in Share
    BY <2>1, <2>2, <2>3 DEF Share
  <2>5. OwnShare(k)
    BY <1>1, <2>2 DEF OwnShare
  <2> HIDE DEF k
  <2>6. kshare \in Seq(Share)
    BY DEF Collected
  <2>7. /\ kshare' \in Seq(Share) /\ Len(kshare') = Len(kshare) + 1
        /\ \A j \in 1 .. Len(kshare) : kshare'[j] = kshare[j]
        /\ kshare'[Len(kshare) + 1] = k
    BY <1>1, <2>4, <2>6, AppendProperties
  <2>8. ASSUME NEW j \in 1 .. Len(kshare') PROVE OwnShare(kshare'[j])
    <3>1. CASE j = Len(kshare) + 1
      BY <2>5, <2>7, <3>1
    <3>2. CASE j # Len(kshare) + 1
      <4>1. j \in 1 .. Len(kshare)
        BY <2>6, <2>7, <3>2
      <4>2. OwnShare(kshare[j])
        BY <4>1 DEF Collected
      <4> QED BY <2>7, <4>1, <4>2
    <3> QED BY <3>1, <3>2
  <2>9. \A j \in 1 .. Len(kshare') : OwnShare(kshare[j])'
    <3> SUFFICES ASSUME NEW j \in 1 .. Len(kshare') PROVE OwnShare(kshare[j])'
      OBVIOUS
    <3>1. OwnShare(kshare'[j])
      BY <2>8
    <3> QED BY <1>1, <3>1 DEF OwnShare
  <2> QED BY <1>1, <2>7, <2>9 DEF Collected
<1>5. RefusedRightly' /\ KeyMade'
  BY <1>1 DEF RefusedRightly, KeyMade
<1> QED BY <1>2, <1>3, <1>4, <1>5

\* The collected shares stay as they are when an outcome is reached.
LEMMA KeptShares ==
  ASSUME KeysInv, phase = "loaded", phase' \in {"refused", "combined"},
         Len(kshare) = params.sharet, UNCHANGED <<master, poly, params, mshare, kshare>>
  PROVE  Secret' /\ NothingYet' /\ Dealt' /\ Collected'
<1> USE DEF KeysInv
<1>1. Secret' /\ NothingYet'
  BY DEF Secret, NothingYet, Phases
<1>2. Dealt'
  BY DEF Dealt, DealtBy
<1>3. Collected'
  <2>1. \A i \in 1 .. Len(kshare) : OwnShare(kshare[i])'
    BY DEF Collected, OwnShare
  <2> QED BY <2>1 DEF Collected
<1> QED BY <1>1, <1>2, <1>3

LEMMA RefuseKeys == ASSUME KeysInv, CombineRefuses PROVE KeysInv'
<1>1. Secret' /\ NothingYet' /\ Dealt' /\ Collected'
  BY KeptShares DEF CombineRefuses
<1>2. RefusedRightly'
  BY DEF CombineRefuses, RefusedRightly, Indices
<1>3. KeyMade'
  BY DEF CombineRefuses, KeyMade, KeysInv
<1> QED BY <1>1, <1>2, <1>3 DEF KeysInv

LEMMA CombineKeys == ASSUME KeysInv, Combine PROVE KeysInv'
<1>1. Secret' /\ NothingYet' /\ Dealt' /\ Collected'
  BY KeptShares DEF Combine
<1>2. RefusedRightly'
  BY DEF Combine, RefusedRightly
<1>3. KeyMade'
  <2>1. phase' = "combined" /\ params' = params /\ kshare' = kshare
    BY DEF Combine
  <2>2. Indices(kshare)' = Indices(kshare) /\ Pointed(kshare)' = Pointed(kshare)
    BY <2>1 DEF Indices, Pointed
  <2>3. key' \in Interpolations(Indices(kshare), Pointed(kshare))
    BY DEF Combine, Pointed
  <2> QED BY <2>1, <2>2, <2>3 DEF KeyMade, Interpolations, PointsAt
<1> QED BY <1>1, <1>2, <1>3 DEF KeysInv

LEMMA ConstructKeys ==
  ASSUME KeysInv, NEW s \in [1 .. params.sharet -> DOMAIN mshare], ConstructMaster(s)
  PROVE  KeysInv'
<1> USE DEF KeysInv
<1>1. /\ phase = "loaded" /\ phase' = "constructed"
      /\ UNCHANGED <<master, poly, params, mshare>>
      /\ kshare' = [i \in DOMAIN s |-> [from |-> s[i], id |-> "none",
                                        index |-> mshare[s[i]].index, point |-> mshare[s[i]].y]]
  BY DEF ConstructMaster
<1>2. Secret' /\ NothingYet'
  BY <1>1 DEF Secret, NothingYet, Phases
<1>3. Dealt'
  BY <1>1 DEF Dealt, DealtBy
<1> DEFINE t == params.sharet
<1>4. t \in Nat /\ DOMAIN s = 1 .. t
  BY <1>1, SharesType
<1> HIDE DEF t
<1>5. \A i \in 1 .. t : kshare'[i] = [from |-> s[i], id |-> "none",
                                      index |-> mshare[s[i]].index, point |-> mshare[s[i]].y]
  BY <1>1, <1>4
<1>6. Collected'
  <2>1. ASSUME NEW i \in 1 .. t PROVE kshare'[i] \in Share /\ OwnShare(kshare[i])'
    <3>1. s[i] \in DOMAIN mshare
      BY <1>4
    <3>2. s[i] \in Nat /\ mshare[s[i]].index \in Nat /\ mshare[s[i]].y \in Zq
      BY <1>1, <3>1, SharesType
    <3> DEFINE k == [from |-> s[i], id |-> "none",
                     index |-> mshare[s[i]].index, point |-> mshare[s[i]].y]
    <3>3. kshare'[i] = k
      BY <1>5
    <3>4. k \in Share
      BY <3>2 DEF Share
    <3>5. /\ k.from = s[i] /\ k.index = mshare[s[i]].index /\ k.point = mshare[s[i]].y
      OBVIOUS
    <3> HIDE DEF k
    <3>6. OwnShare(kshare[i])'
      BY <1>1, <3>1, <3>3, <3>5 DEF OwnShare
    <3> QED BY <3>3, <3>4, <3>6
  <2>2. kshare' \in [1 .. t -> Share]
    BY <1>1, <1>4, <1>5, <2>1
  <2>3. kshare' \in Seq(Share) /\ Len(kshare') = t
    BY <1>4, <2>2
  <2> QED BY <1>1, <2>1, <2>3 DEF Collected, t
<1>7. RefusedRightly'
  BY <1>1 DEF RefusedRightly
<1>8. KeyMade'
  <2>1. DOMAIN kshare' = DOMAIN s
    BY <1>1
  <2>2. Indices(kshare)' = [i \in DOMAIN s |-> mshare[s[i]].index]
    BY <1>4, <1>5, <2>1 DEF Indices
  <2>3. Pointed(kshare)' = [i \in DOMAIN s |-> mshare[s[i]].y]
    BY <1>4, <1>5, <2>1 DEF Pointed
  <2>4. key' \in Interpolations([i \in DOMAIN s |-> mshare[s[i]].index],
                                [i \in DOMAIN s |-> mshare[s[i]].y])
    BY DEF ConstructMaster
  <2> QED BY <1>1, <2>2, <2>3, <2>4 DEF KeyMade, Interpolations, PointsAt
<1> QED BY <1>2, <1>3, <1>6, <1>7, <1>8

LEMMA IdleKeys == ASSUME KeysInv, UNCHANGED vars PROVE KeysInv'
<1> USE DEF KeysInv, vars
<1>1. Secret' /\ NothingYet'
  BY DEF Secret, NothingYet
<1>2. Dealt'
  BY DEF Dealt, DealtBy
<1>3. Collected'
  <2>1. \A i \in 1 .. Len(kshare) : OwnShare(kshare[i])'
    BY DEF Collected, OwnShare
  <2> QED BY <2>1 DEF Collected
<1>4. RefusedRightly'
  BY DEF RefusedRightly, Indices
<1>5. KeyMade'
  <2>1. phase' = phase /\ params' = params /\ key' = key /\ kshare' = kshare
    OBVIOUS
  <2>2. Indices(kshare)' = Indices(kshare) /\ Pointed(kshare)' = Pointed(kshare)
    BY <2>1 DEF Indices, Pointed
  <2>3. KeyMade
    OBVIOUS
  <2> QED BY <2>1, <2>2, <2>3 DEF KeyMade, Interpolations, PointsAt
<1> QED BY <1>1, <1>2, <1>3, <1>4, <1>5

(***************************************************************************)
(* The inductive invariant holds in every reachable state.                 *)
(***************************************************************************)
THEOREM KeysInvariance == Spec => []KeysInv
<1>1. KeysInv /\ [Next]_vars => KeysInv'
  <2> SUFFICES ASSUME KeysInv, [Next]_vars PROVE KeysInv'
    OBVIOUS
  <2>1. CASE \E t \in Thresholds, n \in Sizes : SplitMaster(t, n)
    BY <2>1, SplitKeys
  <2>2. CASE LoadParams
    BY <2>2, LoadKeys
  <2>3. CASE \E i \in DOMAIN mshare, id \in Ids : ExtractShare(i, id)
    BY <2>3, ExtractKeys
  <2>4. CASE CombineRefuses
    BY <2>4, RefuseKeys
  <2>5. CASE Combine
    BY <2>5, CombineKeys
  <2>6. CASE \E s \in [1 .. params.sharet -> DOMAIN mshare] : ConstructMaster(s)
    BY <2>6, ConstructKeys
  <2>7. CASE UNCHANGED vars
    BY <2>7, IdleKeys
  <2> QED BY <2>1, <2>2, <2>3, <2>4, <2>5, <2>6, <2>7 DEF Next
<1> QED BY InitKeys, <1>1, PTL DEF Spec
-----------------------------------------------------------------------------
(***************************************************************************)
(* What follows.                                                           *)
(***************************************************************************)

\* What the loop gets is what it expects.
LEMMA LoopInputs ==
  ASSUME KeysInv, phase \in {"combined", "constructed"}
  PROVE  /\ params.sharet \in Nat
         /\ Pointed(kshare) \in [1 .. params.sharet -> Int]
         /\ DOMAIN kshare = 1 .. params.sharet
         /\ \A x \in PointsAt(Range(Indices(kshare))) :
              Indexed(params.sharet, Indices(kshare), x)
<1> DEFINE t == params.sharet
<1>1. t \in Nat
  BY SharesType
<1>2. kshare \in Seq(Share) /\ Len(kshare) = t
  BY DEF KeysInv, Collected
<1> HIDE DEF t
<1>3. DOMAIN kshare = 1 .. t /\ \A i \in 1 .. t : kshare[i] \in Share
  BY <1>1, <1>2
<1>4. \A i \in 1 .. t : kshare[i].point \in Int /\ kshare[i].index \in Nat
  <2>1. \A i \in 1 .. t : kshare[i].point \in Zq /\ kshare[i].index \in Nat
    BY <1>3 DEF Share
  <2> QED BY <2>1, ZqInt
<1>5. Pointed(kshare) \in [1 .. t -> Int]
  BY <1>3, <1>4 DEF Pointed
<1>6. ASSUME NEW x \in PointsAt(Range(Indices(kshare)))
      PROVE  Indexed(t, Indices(kshare), x)
  <2>1. x \in [Range(Indices(kshare)) -> Zq]
    BY DEF PointsAt
  <2>2. DOMAIN x = Range(Indices(kshare))
    BY <2>1
  <2>3. DOMAIN Indices(kshare) = 1 .. t
    BY <1>3 DEF Indices
  <2>4. \A i \in 1 .. t : Indices(kshare)[i] \in Range(Indices(kshare))
    BY <2>3 DEF Range
  <2>5. Indices(kshare) \in [1 .. t -> Range(Indices(kshare))]
    BY <1>3, <2>3, <2>4 DEF Indices
  <2> QED BY <2>1, <2>2, <2>5 DEF Indexed
<1> QED BY <1>1, <1>3, <1>5, <1>6 DEF t

LEMMA KeyType ==
  ASSUME KeysInv, phase \in {"combined", "constructed"}
  PROVE  key \in Zq
<1>1. key \in Interpolations(Indices(kshare), Pointed(kshare))
  BY DEF KeysInv, KeyMade
<1>2. PICK x \in PointsAt(Range(Indices(kshare))) :
        key \in Sums(Indices(kshare), x, Pointed(kshare))
  BY <1>1 DEF Interpolations
<1>3. /\ params.sharet \in Nat /\ Indexed(params.sharet, Indices(kshare), x)
      /\ Pointed(kshare) \in [1 .. params.sharet -> Int]
  BY LoopInputs
<1>4. Sums(Indices(kshare), x, Pointed(kshare)) \in SUBSET Zq
  BY <1>3, SumsType
<1> QED BY <1>2, <1>4

LEMMA KeysTyped == ASSUME KeysInv PROVE TypeOK
<1> USE DEF KeysInv
<1>1. master \in Zq
  BY MastersAssumption DEF Secret
<1>2. phase \in {"setup", "split", "loaded", "refused", "combined", "constructed"}
  BY DEF Secret, Phases
<1>3. /\ poly \in Seq(Zq)
      /\ params.sharet \in Nat /\ params.sharen \in Nat /\ params.robustx \in Seq(Zq)
  <2>1. CASE phase = "setup"
    <3>1. poly = <<>> /\ params.sharet = 0 /\ params.sharen = 0 /\ params.robustx = <<>>
      BY <2>1 DEF NothingYet
    <3>2. <<>> \in Seq(Zq)
      OBVIOUS
    <3> QED BY <3>1, <3>2
  <2>2. CASE phase # "setup"
    <3>1. PICK t \in Thresholds, n \in Sizes : \E x \in [1 .. n -> Zq] : DealtBy(t, n, x)
      BY <2>2 DEF Dealt
    <3>2. PICK x \in [1 .. n -> Zq] : DealtBy(t, n, x)
      BY <3>1
    <3>3. /\ t \in Nat /\ n \in Nat /\ poly \in Seq(Zq)
          /\ x \in Seq(Zq) /\ SubSeq(x, 1, Int4(n)) \in Seq(Zq)
      BY <3>2, DealtType DEF DealtBy, Secret
    <3>4. Int4(t) \in Nat /\ Int4(n) \in Nat
      BY <3>3, Int4Type
    <3>5. CASE phase = "split"
      BY <3>2, <3>3, <3>5 DEF DealtBy
    <3>6. CASE phase # "split"
      BY <3>2, <3>3, <3>4, <3>6 DEF DealtBy
    <3> QED BY <3>5, <3>6
  <2> QED BY <2>1, <2>2
<1>4. \A i \in DOMAIN mshare : mshare[i].index \in 0 .. IntBase - 1 /\ mshare[i].y \in Zq
  <2>1. CASE phase = "setup"
    BY <2>1 DEF NothingYet
  <2>2. CASE phase # "setup"
    BY <2>2, SharesType
  <2> QED BY <2>1, <2>2
<1>5. \A i \in DOMAIN kshare : kshare[i].index \in 0 .. IntBase - 1 /\ kshare[i].point \in Zq
  <2> SUFFICES ASSUME NEW i \in DOMAIN kshare
               PROVE  kshare[i].index \in 0 .. IntBase - 1 /\ kshare[i].point \in Zq
    OBVIOUS
  <2>1. kshare \in Seq(Share)
    BY DEF Collected
  <2>2. i \in 1 .. Len(kshare) /\ kshare[i] \in Share
    BY <2>1
  <2>3. kshare[i].from \in DOMAIN mshare /\ kshare[i].index = mshare[kshare[i].from].index
    BY <2>2 DEF Collected, OwnShare
  <2>4. kshare[i].index \in 0 .. IntBase - 1
    BY <1>4, <2>3
  <2>5. kshare[i].point \in Zq
    BY <2>2 DEF Share
  <2> QED BY <2>4, <2>5
<1>6. key \in Zq \cup {NoKey}
  <2>1. CASE phase \in {"combined", "constructed"}
    BY <2>1, KeyType
  <2>2. CASE phase \notin {"combined", "constructed"}
    BY <2>2 DEF KeyMade
  <2> QED BY <2>1, <2>2
<1> QED BY <1>1, <1>2, <1>3, <1>4, <1>5, <1>6 DEF TypeOK

(***************************************************************************)
(* The variables hold what their C counterparts can: shares and keys are   *)
(* numbers below q, indices fit into what byte_string_set_int keeps.       *)
(***************************************************************************)
THEOREM TypeCorrect == Spec => []TypeOK
<1>1. KeysInv => TypeOK
  BY KeysTyped
<1> QED BY KeysInvariance, <1>1, PTL
-----------------------------------------------------------------------------
(***************************************************************************)
(* byte_string_set_int and int_from_byte_string keep "threshold" and       *)
(* "shares": a number of more than a byte is not loaded as it was saved.   *)
(***************************************************************************)
Representable == \A k \in Thresholds \cup Sizes : k < IntBase

\* Then what a PKG's share holds is the value of the polynomial at its point.
LEMMA DealtLoaded ==
  ASSUME Representable, KeysInv, phase \notin {"setup", "split"}
  PROVE  /\ params.sharet \in Nat /\ params.sharet >= 1
         /\ poly \in [1 .. params.sharet -> Int] /\ poly[1] = master
         /\ \A i \in DOMAIN mshare :
              /\ i \in Nat /\ i >= 1 /\ i \in 1 .. Len(params.robustx)
              /\ mshare[i].index = i - 1
              /\ mshare[i].y = Eval(poly, params.robustx[i])
              /\ params.robustx[i] \in Zq
         /\ Len(params.robustx) \in Nat
<1>1. PICK t \in Thresholds, n \in Sizes : \E x \in [1 .. n -> Zq] : DealtBy(t, n, x)
  BY DEF KeysInv, Dealt
<1>2. PICK x \in [1 .. n -> Zq] : DealtBy(t, n, x)
  BY <1>1
<1>3. /\ t \in Nat /\ t >= 1 /\ n \in Nat /\ x \in Seq(Zq)
      /\ poly \in [1 .. t -> Int] /\ poly[1] = master
  BY <1>2, DealtType DEF DealtBy, KeysInv, Secret
<1>4. Int4(t) = t /\ Int4(n) = n /\ n < IntBase /\ Len(x) = n
  BY <1>3, Int4Same DEF Representable
<1>5. SubSeq(x, 1, n) = x
  BY <1>3, <1>4, SubSeqFull
<1>6. params.sharet = t /\ params.robustx = x
  BY <1>2, <1>4, <1>5 DEF DealtBy
<1>7. ASSUME NEW i \in 1 .. n PROVE mshare[i].index = i - 1 /\ mshare[i].y = Eval(poly, x[i])
  <2>1. i - 1 \in Nat /\ i - 1 < IntBase
    BY <1>3, <1>4, IntBaseAssumption
  <2>2. Int4(i - 1) = i - 1
    BY <2>1, Int4Same
  <2> QED BY <1>2, <2>2 DEF DealtBy
<1>8. DOMAIN mshare = 1 .. n
  BY <1>2 DEF DealtBy
<1> QED BY <1>3, <1>4, <1>6, <1>7, <1>8

\* At the points that the loop uses, the shares are values of the polynomial.
LEMMA LoopPoints ==
  ASSUME Representable, KeysInv, phase \in {"combined", "constructed"}, DistinctPoints,
         NEW x \in PointsAt(Range(Indices(kshare)))
  PROVE  /\ \A i, j \in 1 .. params.sharet :
              i # j => x[Indices(kshare)[i]] # x[Indices(kshare)[j]]
         /\ \A i \in 1 .. params.sharet :
              /\ mshare[kshare[i].from].y = Eval(poly, x[Indices(kshare)[i]])
              /\ x[Indices(kshare)[i]] \in Zq
              /\ OwnShare(kshare[i])
<1> DEFINE t == params.sharet
<1>1. t \in Nat /\ DOMAIN kshare = 1 .. t
  BY LoopInputs
<1>2. Len(kshare) = t
  BY DEF KeysInv, Collected
<1> HIDE DEF t
<1>3. ASSUME NEW i \in 1 .. t
      PROVE  /\ x[Indices(kshare)[i]] = params.robustx[kshare[i].from]
             /\ OwnShare(kshare[i]) /\ kshare[i].from \in DOMAIN mshare
  <2>1. OwnShare(kshare[i])
    BY <1>2, <1>3 DEF KeysInv, Collected
  <2> DEFINE f == kshare[i].from
             k == Indices(kshare)[i]
  <2>2. f \in DOMAIN mshare /\ k = mshare[f].index
    BY <1>1, <2>1 DEF OwnShare, Indices
  <2>3. f \in Nat /\ f >= 1 /\ f \in 1 .. Len(params.robustx) /\ mshare[f].index = f - 1
        /\ Len(params.robustx) \in Nat
    BY <2>2, DealtLoaded
  <2>4. k \in Range(Indices(kshare))
    BY <1>1 DEF Range, Indices
  <2> HIDE DEF f, k
  <2>5. k < Len(params.robustx) /\ k + 1 = f
    BY <2>2, <2>3
  <2>6. x[k] = params.robustx[k + 1]
    BY <2>4, <2>5 DEF PointsAt
  <2>7. x[k] = params.robustx[f]
    BY <2>5, <2>6
  <2> QED BY <2>1, <2>2, <2>7 DEF f, k
<1>4. ASSUME NEW i \in 1 .. t, NEW j \in 1 .. t, i # j
      PROVE  x[Indices(kshare)[i]] # x[Indices(kshare)[j]]
  <2>1. params.robustx[kshare[i].from] # params.robustx[kshare[j].from]
    BY <1>1, <1>4 DEF DistinctPoints
  <2> QED BY <1>3, <2>1
<1>5. ASSUME NEW i \in 1 .. t
      PROVE  /\ mshare[kshare[i].from].y = Eval(poly, x[Indices(kshare)[i]])
             /\ x[Indices(kshare)[i]] \in Zq
  <2>1. kshare[i].from \in DOMAIN mshare /\ x[Indices(kshare)[i]] = params.robustx[kshare[i].from]
    BY <1>3
  <2>2. /\ mshare[kshare[i].from].y = Eval(poly, params.robustx[kshare[i].from])
        /\ params.robustx[kshare[i].from] \in Zq
    BY <2>1, DealtLoaded
  <2> QED BY <2>1, <2>2
<1> QED BY <1>3, <1>4, <1>5 DEF t

\* The loop makes h times the master secret of points that are h times shares.
LEMMA LoopMakes ==
  ASSUME Representable, KeysInv, phase \in {"combined", "constructed"}, DistinctPoints,
         NEW h \in Int,
         \A i \in 1 .. params.sharet :
           Cong(kshare[i].point, h * mshare[kshare[i].from].y)
  PROVE  Cong(key, h * master)
<1>1. PICK x \in PointsAt(Range(Indices(kshare))) :
        key \in Sums(Indices(kshare), x, Pointed(kshare))
  BY DEF KeysInv, KeyMade, Interpolations
<1> DEFINE t == params.sharet
           index == Indices(kshare)
           value == Pointed(kshare)
<1>2. /\ t \in Nat /\ Indexed(t, index, x) /\ value \in [1 .. t -> Int]
      /\ DOMAIN kshare = 1 .. t
  BY LoopInputs
<1>3. t >= 1 /\ poly \in [1 .. t -> Int] /\ poly[1] = master
  BY DealtLoaded
<1>4. /\ \A i, j \in 1 .. t : i # j => x[index[i]] # x[index[j]]
      /\ \A i \in 1 .. t : mshare[kshare[i].from].y = Eval(poly, x[index[i]])
  BY LoopPoints
<1>5. \A i \in 1 .. t : Cong(value[i], h * Eval(poly, x[index[i]]))
  <2> SUFFICES ASSUME NEW i \in 1 .. t PROVE Cong(value[i], h * Eval(poly, x[index[i]]))
    OBVIOUS
  <2>1. value[i] = kshare[i].point
    BY <1>2 DEF Pointed
  <2>2. Cong(kshare[i].point, h * mshare[kshare[i].from].y)
    OBVIOUS
  <2>3. mshare[kshare[i].from].y = Eval(poly, x[index[i]])
    BY <1>4
  <2> QED BY <2>1, <2>2, <2>3
<1>6. key \in Sums(index, x, value)
  BY <1>1
<1> HIDE DEF t, index, value
<1>7. Cong(key, h * poly[1])
  BY <1>2, <1>3, <1>4, <1>5, <1>6, SumsAtZero
<1> QED BY <1>3, <1>7

(***************************************************************************)
(* Any t PKGs with different points make the key that IBE_extract makes of *)
(* the master secret, for every prime q, t, n and every id: the loop of    *)
(* IBE_combine interpolates at 0.                                          *)
(***************************************************************************)
THEOREM AlwaysQuorumMakesKey == ASSUME Representable PROVE Spec => []QuorumMakesKey
<1>1. ASSUME KeysInv PROVE QuorumMakesKey
  <2> SUFFICES ASSUME NEW id \in Ids, phase = "combined", DistinctPoints,
                      \A i \in DOMAIN kshare : kshare[i].id = id
               PROVE  key = (master * PointOf(id)) % Q
    BY DEF QuorumMakesKey
  <2> DEFINE h == PointOf(id)
  <2>1. h \in Int
    BY PointAssumption, ZqInt
  <2>2. params.sharet \in Nat /\ DOMAIN kshare = 1 .. params.sharet /\ Len(kshare) = params.sharet
    BY <1>1, LoopInputs DEF KeysInv, Collected
  <2>3. ASSUME NEW i \in 1 .. params.sharet
        PROVE  Cong(kshare[i].point, h * mshare[kshare[i].from].y)
    <3>1. OwnShare(kshare[i])
      BY <1>1, <2>2 DEF KeysInv, Collected
    <3> DEFINE y == mshare[kshare[i].from].y
    <3>2. kshare[i].point = (y * h) % Q
      BY <2>2, <3>1 DEF OwnShare
    <3>3. y \in Int
      BY <1>1, <3>1, SharesType DEF OwnShare
    <3> HIDE DEF y, h
    <3>4. y * h \in Int /\ y * h = h * y
      BY <2>1, <3>3
    <3>5. Cong((y * h) % Q, y * h)
      BY <3>4, CongMod
    <3> QED BY <3>2, <3>4, <3>5 DEF y
  <2>4. Cong(key, h * master)
    BY <1>1, <2>1, <2>3, LoopMakes
  <2>5. key \in Zq /\ master \in Zq
    BY <1>1, KeyType, MastersAssumption DEF KeysInv, Secret
  <2> HIDE DEF h
  <2>6. /\ key \in Int /\ master \in Int /\ h * master \in Int
        /\ h * master = master * h
    BY <2>1, <2>5, ZqInt
  <2>7. Cong(master * h, (master * h) % Q) /\ (master * h) % Q \in Zq /\ (master * h) % Q \in Int
    BY <2>6, CongMod, ModIn
  <2>8. Cong(key, (master * h) % Q)
    BY <2>4, <2>6, <2>7, CongTrans
  <2>9. key = (master * h) % Q
    BY <2>5, <2>7, <2>8, CongSame
  <2> QED BY <2>9 DEF h
<1> QED BY KeysInvariance, <1>1, PTL

(***************************************************************************)
(* Any t different PKGs with different points make the master secret       *)
(* itself: IBE_construct_master interpolates at 0.                         *)
(***************************************************************************)
THEOREM AlwaysQuorumMakesMaster == ASSUME Representable PROVE Spec => []QuorumMakesMaster
<1>1. ASSUME KeysInv PROVE QuorumMakesMaster
  <2> SUFFICES ASSUME phase = "constructed", DistinctPoints PROVE key = master
    BY DEF QuorumMakesMaster
  <2>1. ASSUME NEW i \in 1 .. params.sharet
        PROVE  Cong(kshare[i].point, 1 * mshare[kshare[i].from].y)
    <3>1. OwnShare(kshare[i])
      BY <1>1 DEF KeysInv, Collected
    <3> DEFINE y == mshare[kshare[i].from].y
    <3>2. kshare[i].point = y
      BY <3>1 DEF OwnShare
    <3>3. y \in Int
      BY <1>1, <3>1, SharesType DEF OwnShare
    <3> HIDE DEF y
    <3>4. 1 * y = y /\ Cong(y, y)
      BY <3>3, CongRefl
    <3> QED BY <3>2, <3>4 DEF y
  <2>2. 1 \in Int
    OBVIOUS
  <2>3. Cong(key, 1 * master)
    BY <1>1, <2>1, <2>2, LoopMakes
  <2>4. key \in Zq /\ master \in Zq
    BY <1>1, KeyType, MastersAssumption DEF KeysInv, Secret
  <2>5. 1 * master = master
    BY <2>4, ZqInt
  <2> QED BY <2>3, <2>4, <2>5, CongSame
<1> QED BY KeysInvariance, <1>1, PTL

(***************************************************************************)
(* Whatever t and n, also those that byte_string_set_int cuts off:         *)
(* IBE_combine refuses t shares only if the numbers of two of their PKGs   *)
(* are the same to it, as those of PKGs 0 and 256 are.                     *)
(***************************************************************************)
Alike(k, l) == Int4(k.from - 1) = Int4(l.from - 1)

THEOREM RefusedOnlyAlike ==
  Spec => [](phase = "refused" =>
               \E i, j \in DOMAIN kshare : i # j /\ Alike(kshare[i], kshare[j]))
<1>1. ASSUME KeysInv, phase = "refused"
      PROVE  \E i, j \in DOMAIN kshare : i # j /\ Alike(kshare[i], kshare[j])
  <2>1. kshare \in Seq(Share) /\ \A i \in 1 .. Len(kshare) : OwnShare(kshare[i])
    BY <1>1 DEF KeysInv, Collected
  <2>2. DOMAIN kshare = 1 .. Len(kshare) /\ DOMAIN Indices(kshare) = DOMAIN kshare
    BY <2>1 DEF Indices
  <2>3. PICK i \in DOMAIN kshare, j \in DOMAIN kshare : i # j /\ kshare[i].index = kshare[j].index
    BY <1>1, <2>2 DEF KeysInv, RefusedRightly, IsInjective, Indices
  <2>4. PICK n \in Sizes : \E t \in Thresholds : \E x \in [1 .. n -> Zq] : DealtBy(t, n, x)
    BY <1>1 DEF KeysInv, Dealt
  <2>5. ASSUME NEW k \in DOMAIN mshare PROVE mshare[k].index = Int4(k - 1)
    BY <2>4, <2>5 DEF DealtBy
  <2>6. ASSUME NEW k \in DOMAIN kshare PROVE kshare[k].index = Int4(kshare[k].from - 1)
    <3>1. OwnShare(kshare[k])
      BY <2>1, <2>2
    <3> QED BY <2>5, <3>1, Zenon DEF OwnShare
  <2> QED BY <2>3, <2>6, Zenon DEF Alike
<1> QED BY KeysInvariance, <1>1, PTL

(***************************************************************************)
(* IBE_combine refuses no t shares of different PKGs: their indices differ *)
(* because none of them is cut off.                                        *)
(***************************************************************************)
THEOREM AlwaysQuorumServes == ASSUME Representable PROVE Spec => []QuorumServes
<1>1. ASSUME KeysInv PROVE QuorumServes
  <2> SUFFICES ASSUME phase = "refused", DistinctPKGs PROVE FALSE
    BY DEF QuorumServes
  <2>1. kshare \in Seq(Share) /\ \A i \in 1 .. Len(kshare) : OwnShare(kshare[i])
    BY <1>1 DEF KeysInv, Collected
  <2>2. DOMAIN kshare = 1 .. Len(kshare) /\ DOMAIN Indices(kshare) = DOMAIN kshare
    BY <2>1 DEF Indices
  <2>3. PICK i \in DOMAIN kshare, j \in DOMAIN kshare : i # j /\ kshare[i].index = kshare[j].index
    BY <1>1, <2>2 DEF KeysInv, RefusedRightly, IsInjective, Indices
  <2> DEFINE f == kshare[i].from
             g == kshare[j].from
  <2>4. /\ f \in DOMAIN mshare /\ kshare[i].index = mshare[f].index
        /\ g \in DOMAIN mshare /\ kshare[j].index = mshare[g].index
    BY <2>1, <2>2 DEF OwnShare
  <2>5. f \in Nat /\ g \in Nat /\ mshare[f].index = f - 1 /\ mshare[g].index = g - 1
    BY <1>1, <2>4, DealtLoaded
  <2>6. f # g
    BY <2>3 DEF DistinctPKGs
  <2> HIDE DEF f, g
  <2>7. f - 1 = g - 1
    BY <2>3, <2>4, <2>5, Zenon
  <2>8. f \in Nat /\ g \in Nat
    BY <2>5
  <2> QED BY <2>6, <2>7, <2>8
<1> QED BY KeysInvariance, <1>1, PTL
-----------------------------------------------------------------------------
(***************************************************************************)
(* d points and d values: there is a polynomial of d coefficients.         *)
(***************************************************************************)
LEMMA LinearAlgebra ==
  ASSUME NEW z \in Int, NEW x \in Int, NEW a \in Int, NEW u \in Int, NEW q \in Int,
         NEW c \in Int, NEW T \in Int, NEW v \in Int,
         Cong(z, (x - a) * u + q), Cong(c, T - a * q), Cong(v, u * x + q)
  PROVE  Cong(z * x + c, (x - a) * v + T)
<1> DEFINE g == x - a
<1>1. g \in Int /\ x = g + a
  OBVIOUS
<1> HIDE DEF g
<1>2. Cong(z, g * u + q)
  BY DEF g
<1>3. /\ g * u \in Int /\ g * u + q \in Int /\ z * x \in Int /\ (g * u + q) * x \in Int
      /\ a * q \in Int /\ T - a * q \in Int /\ u * x + q \in Int /\ g * v \in Int
      /\ g * (u * x + q) \in Int
  BY <1>1
<1>4. Cong(x, x) /\ Cong(g, g) /\ Cong(T, T)
  BY <1>1, CongRefl
<1>5. Cong(z * x, (g * u + q) * x)
  BY <1>2, <1>3, <1>4, CongTimes
<1>6. Cong(z * x + c, (g * u + q) * x + (T - a * q))
  BY <1>3, <1>5, CongPlus
<1>7. (g * u + q) * x + (T - a * q) = g * (u * x + q) + T
  <2>1. (g * u + q) * x = (g * u) * x + q * x /\ (g * u) * x = g * (u * x)
    BY <1>1
  <2>2. q * x = (q * g) + (q * a) /\ q * a = a * q /\ q * g = g * q
    BY <1>1
  <2>3. g * (u * x + q) = g * (u * x) + g * q
    BY <1>1
  <2> DEFINE A == g * (u * x)
             B == g * q
             C == a * q
  <2>4. A \in Int /\ B \in Int /\ C \in Int
    BY <1>1
  <2>5. (g * u + q) * x = A + (B + C) /\ g * (u * x + q) = A + B
    BY <2>1, <2>2, <2>3
  <2> HIDE DEF A, B
  <2>6. (A + (B + C)) + (T - C) = (A + B) + T
    <3> HIDE DEF C
    <3> QED BY <2>4
  <2> QED BY <2>5, <2>6
<1>8. Cong(g * v, g * (u * x + q))
  BY <1>1, <1>3, <1>4, CongTimes
<1>9. Cong(g * v + T, g * (u * x + q) + T)
  BY <1>3, <1>4, <1>8, CongPlus
<1>10. g * v + T \in Int /\ g * (u * x + q) + T \in Int /\ z * x + c \in Int
  BY <1>3
<1>11. Cong(g * (u * x + q) + T, g * v + T)
  BY <1>9, <1>10, CongSym
<1>12. Cong(z * x + c, g * (u * x + q) + T)
  BY <1>6, <1>7
<1>13. Cong(z * x + c, g * v + T)
  BY <1>10, <1>11, <1>12, CongTrans
<1> QED BY <1>13 DEF g

\* The coefficients of (x - a) * q + y.
Times(n, q, a, y) ==
  [j \in 1 .. n + 1 |-> ((IF j = 1 THEN y ELSE q[j - 1])
                           - a * (IF j = n + 1 THEN 0 ELSE q[j])) % Q]

LEMMA TimesLinear ==
  ASSUME NEW n \in Nat, NEW q \in [1 .. n -> Int], NEW a \in Int, NEW y \in Int, NEW x \in Int
  PROVE  /\ Times(n, q, a, y) \in [1 .. n + 1 -> Zq]
         /\ Cong(Eval(Times(n, q, a, y), x), (x - a) * Eval(q, x) + y)
<1> DEFINE m == n + 1
           c == Times(n, q, a, y)
           Low(j) == IF j = 1 THEN y ELSE q[j - 1]
           High(j) == IF j = m THEN 0 ELSE q[j]
<1>1. m \in Nat /\ m = n + 1
  OBVIOUS
<1>2. \A j \in 1 .. m : Low(j) \in Int /\ High(j) \in Int
  OBVIOUS
<1>3. \A j \in 1 .. m : c[j] = (Low(j) - a * High(j)) % Q
  BY DEF Times
<1> HIDE DEF Low, High
<1>4. ASSUME NEW j \in 1 .. m
      PROVE  /\ (Low(j) - a * High(j)) % Q \in Zq
             /\ c[j] \in Zq /\ c[j] \in Int /\ Cong(c[j], Low(j) - a * High(j))
  <2>1. Low(j) - a * High(j) \in Int
    <3>1. a * High(j) \in Int
      BY <1>2, ProductInt
    <3> QED BY <1>2, <3>1
  <2> QED BY <1>3, <2>1, ModIn, CongMod
<1>5. c \in [1 .. m -> Zq] /\ c \in [1 .. m -> Int]
  <2>1. c = [j \in 1 .. m |-> (Low(j) - a * High(j)) % Q]
    BY DEF Times, Low, High
  <2> HIDE DEF c
  <2>2. c \in [1 .. m -> Zq]
    BY <1>4, <2>1
  <2>3. \A j \in 1 .. m : c[j] \in Int
    BY <1>4
  <2> QED BY <2>2, <2>3
<1> HIDE DEF c
<1>6. PICK z \in [0 .. m -> Zq] : HornerRound(z, c, x, m) /\ Eval(c, x) = z[m]
  BY <1>1, <1>5, EvalLoop
<1>7. PICK u \in [0 .. n -> Zq] : HornerRound(u, q, x, n) /\ Eval(q, x) = u[n]
  BY EvalLoop
<1> DEFINE S == {k \in 0 .. m : k >= 1 => Cong(z[k], (x - a) * u[k - 1] + Low(m - k + 1))}
<1>8. 0 \in S
  BY <1>1
<1>9. ASSUME NEW k \in 1 .. m, k - 1 \in S PROVE k \in S
  <2>1. m - k + 1 \in 1 .. m /\ k \in 0 .. m /\ k - 1 \in 0 .. m /\ k - 1 \in 0 .. n
    BY <1>1
  <2> DEFINE z0 == z[k - 1]
             cc == c[m - k + 1]
             T == Low(m - k + 1)
             h == High(m - k + 1)
             v == u[k - 1]
             w == IF k = 1 THEN 0 ELSE u[k - 2]
  <2>2. z0 \in Int /\ cc \in Int /\ T \in Int /\ h \in Int /\ v \in Int /\ w \in Int
    <3>1. z0 \in Int /\ v \in Int
      BY <1>6, <1>7, <2>1, ZqInt
    <3>2. cc \in Int /\ T \in Int /\ h \in Int
      BY <1>2, <1>4, <2>1
    <3>3. k # 1 => k - 2 \in 0 .. n
      BY <1>1
    <3>4. w \in Int
      BY <1>7, <3>3, ZqInt
    <3> QED BY <3>1, <3>2, <3>4
  <2>3. z[k] = (z0 * x + cc) % Q
    BY <1>6 DEF HornerRound
  <2>4. Cong(cc, T - a * h)
    BY <1>4, <2>1
  <2>5. Cong(v, w * x + h) /\ Cong(z0, (x - a) * w + h)
    <3>1. CASE k = 1
      <4>1. v = 0 /\ z0 = 0 /\ w = 0 /\ m - k + 1 = m
        BY <1>1, <1>6, <1>7, <3>1 DEF HornerRound
      <4>2. h = 0
        BY <4>1 DEF High
      <4>3. 0 * x + 0 = 0 /\ (x - a) * 0 + 0 = 0 /\ Cong(0, 0)
        BY CongRefl
      <4> QED BY <4>1, <4>2, <4>3
    <3>2. CASE k # 1
      <4>1. /\ k - 1 \in 1 .. n /\ (k - 1) - 1 = k - 2 /\ n - (k - 1) + 1 = m - k + 1
            /\ m - (k - 1) + 1 = (m - k + 1) + 1 /\ m - k + 1 # m /\ k - 1 >= 1
            /\ (m - k + 1) + 1 # 1 /\ ((m - k + 1) + 1) - 1 = m - k + 1
        BY <1>1, <3>2
      <4>2. h = q[m - k + 1] /\ w = u[k - 2]
        BY <3>2, <4>1 DEF High
      <4>3. v = (w * x + h) % Q
        BY <1>7, <4>1, <4>2 DEF HornerRound
      <4>4. Cong(v, w * x + h)
        <5>1. w \in Int /\ h \in Int /\ x \in Int
          BY <2>2
        <5> HIDE DEF v, w, h
        <5>2. w * x + h \in Int
          BY <5>1
        <5> QED BY <4>3, <5>2, CongMod
      <4>5. Low(m - (k - 1) + 1) = h
        BY <4>1, <4>2 DEF Low
      <4>6. Cong(z0, (x - a) * w + h)
        BY <1>9, <4>1, <4>2, <4>5
      <4> QED BY <4>4, <4>6
    <3> QED BY <3>1, <3>2
  <2>6. SUFFICES Cong((z0 * x + cc) % Q, (x - a) * v + T)
    BY <2>1, <2>3
  <2> HIDE DEF z0, cc, T, h, v, w
  <2>7. Cong(z0 * x + cc, (x - a) * v + T)
    BY <2>2, <2>4, <2>5, LinearAlgebra
  <2>8. z0 * x + cc \in Int /\ (x - a) * v + T \in Int
    <3>1. z0 * x \in Int /\ x - a \in Int
      BY <2>2
    <3>2. (x - a) * v \in Int
      BY <2>2, <3>1, ProductInt
    <3> QED BY <2>2, <3>1, <3>2
  <2>9. Cong((z0 * x + cc) % Q, z0 * x + cc) /\ (z0 * x + cc) % Q \in Int
    BY <2>8, CongMod, ModIn
  <2> QED BY <2>7, <2>8, <2>9, CongTrans
<1> HIDE DEF S
<1>10. \A k \in 0 .. m : k \in S
  BY <1>1, <1>8, <1>9, UpTo
<1>11. m \in S /\ m >= 1 /\ m - m + 1 = 1 /\ m - 1 = n
  BY <1>1, <1>10
<1>12. Low(1) = y
  BY DEF Low
<1>13. Cong(z[m], (x - a) * u[n] + y)
  <2>1. Cong(z[m], (x - a) * u[m - 1] + Low(m - m + 1))
    BY <1>11 DEF S
  <2> QED BY <1>11, <1>12, <2>1
<1>14. Cong(Eval(c, x), (x - a) * Eval(q, x) + y)
  BY <1>6, <1>7, <1>13
<1> QED BY <1>5, <1>14 DEF c

Through(K, X, Y, d) == \E c \in [1 .. d -> Zq] : \A i \in K : Eval(c, X[i]) = Y[i]

Apart(K, X) == X \in [K -> Zq] /\ \A i, j \in K : i # j => X[i] # X[j]

\* One point more: (x - X[a]) * q + Y[a], where q goes through the slopes.
LEMMA OnePointMore ==
  ASSUME NEW K, NEW X, Apart(K, X), NEW Y \in [K -> Zq], NEW a \in K, NEW d \in Nat,
         \A Z \in [K \ {a} -> Zq] : Through(K \ {a}, [i \in K \ {a} |-> X[i]], Z, d)
  PROVE  Through(K, X, Y, d + 1)
<1> DEFINE J == K \ {a}
           xa == X[a]
           ya == Y[a]
           Inv(i) == CHOOSE v \in Zq : Cong(v * (X[i] - xa), 1)
           Z == [i \in J |-> (Inv(i) * (Y[i] - ya)) % Q]
<1>1. \A i \in K : X[i] \in Zq /\ X[i] \in Int /\ Y[i] \in Zq /\ Y[i] \in Int
  BY ZqInt DEF Apart
<1>2. ASSUME NEW i \in J PROVE Inv(i) \in Zq /\ Inv(i) \in Int /\ Cong(Inv(i) * (X[i] - xa), 1)
  <2>1. X[i] # xa /\ X[i] \in Zq /\ xa \in Zq /\ X[i] - xa \in Int
    BY <1>1 DEF Apart
  <2>2. ~ Cong(X[i] - xa, 0)
    BY <2>1, Differ
  <2>3. \E v \in Zq : Cong(v * (X[i] - xa), 1)
    BY <2>1, <2>2, InverseExists
  <2>4. Inv(i) \in Zq /\ Cong(Inv(i) * (X[i] - xa), 1)
    BY <2>3
  <2> QED BY <2>4, ZqInt
<1> HIDE DEF Inv
<1>3. Z \in [J -> Zq]
  <2>1. ASSUME NEW i \in J PROVE (Inv(i) * (Y[i] - ya)) % Q \in Zq
    <3>1. Y[i] - ya \in Int
      BY <1>1
    <3>2. Inv(i) * (Y[i] - ya) \in Int
      BY <1>2, <3>1, ProductInt
    <3> QED BY <3>2, ModIn
  <2> QED BY <2>1
<1>4. PICK q \in [1 .. d -> Zq] : \A i \in J : Eval(q, X[i]) = Z[i]
  <2>1. Through(J, [i \in J |-> X[i]], Z, d)
    BY <1>3
  <2>2. \A i \in J : [k \in J |-> X[k]][i] = X[i]
    OBVIOUS
  <2> HIDE DEF Z
  <2> QED BY <2>1, <2>2 DEF Through
<1>5. q \in [1 .. d -> Int]
  BY ZqInt
<1> DEFINE c == Times(d, q, xa, ya)
<1>6. xa \in Int /\ ya \in Int
  BY <1>1
<1>7. c \in [1 .. d + 1 -> Zq]
  <2>1. 0 \in Int
    OBVIOUS
  <2> QED BY <1>5, <1>6, <2>1, TimesLinear
<1>8. ASSUME NEW i \in K PROVE Cong(Eval(c, X[i]), (X[i] - xa) * Eval(q, X[i]) + ya)
  BY <1>1, <1>5, <1>6, TimesLinear
<1>9. \A j \in 1 .. d + 1 : c[j] \in Int
  BY <1>7, ZqInt
<1>10. c \in [1 .. d + 1 -> Int] /\ d + 1 \in Nat
  BY <1>7, <1>9
<1> HIDE DEF c
<1>11. ASSUME NEW i \in K PROVE Eval(c, X[i]) = Y[i]
  <2> DEFINE x == X[i]
             y == Y[i]
             E == Eval(q, x)
             F == Eval(c, x)
  <2>1. x \in Int /\ y \in Int /\ y \in Zq
    BY <1>1
  <2>2. E \in Int /\ F \in Zq /\ F \in Int
    BY <1>5, <1>10, <2>1, EvalType
  <2>3. Cong(F, (x - xa) * E + ya)
    BY <1>8
  <2>4. Cong((x - xa) * E + ya, y)
    <3>1. CASE i = a
      <4>1. x = xa /\ y = ya
        BY <3>1
      <4> HIDE DEF x, y, E
      <4>2. (x - xa) * E + ya = y
        <5>1. x - xa = 0
          BY <1>6, <4>1
        <5>2. 0 * E = 0
          BY <2>2
        <5> QED BY <1>6, <4>1, <5>1, <5>2
      <4> QED BY <2>1, <4>2, CongRefl
    <3>2. CASE i # a
      <4> DEFINE v == Inv(i)
      <4>1. i \in J
        BY <3>2
      <4>2. v \in Int /\ Cong(v * (x - xa), 1) /\ E = (v * (y - ya)) % Q
        BY <1>2, <1>4, <4>1
      <4> HIDE DEF x, y, E, v
      <4> DEFINE g == x - xa
                 h == y - ya
      <4>3. g \in Int /\ h \in Int /\ h + ya = y
        BY <1>6, <2>1
      <4>4. Cong(v * g, 1) /\ E = (v * h) % Q
        BY <4>2
      <4> HIDE DEF g, h
      <4>5. /\ v * h \in Int /\ v * g \in Int /\ g * E \in Int /\ g * (v * h) \in Int
            /\ (v * g) * h \in Int /\ g * (v * h) = (v * g) * h /\ 1 * h = h
        BY <2>2, <4>2, <4>3
      <4>6. Cong(E, v * h) /\ Cong(g, g) /\ Cong(h, h) /\ Cong(ya, ya)
        BY <1>6, <4>3, <4>4, <4>5, CongMod, CongRefl
      <4>7. Cong(g * E, g * (v * h))
        BY <2>2, <4>3, <4>5, <4>6, CongTimes
      <4>8. Cong((v * g) * h, 1 * h)
        BY <4>3, <4>4, <4>5, <4>6, CongTimes
      <4>9. Cong(g * E, h)
        BY <4>3, <4>5, <4>7, <4>8, CongTrans
      <4>10. Cong(g * E + ya, h + ya)
        BY <1>6, <4>3, <4>5, <4>6, <4>9, CongPlus
      <4> QED BY <4>3, <4>10 DEF g
    <3> QED BY <3>1, <3>2
  <2> HIDE DEF x, y, E, F
  <2>5. (x - xa) * E + ya \in Int
    <3>1. x - xa \in Int
      BY <1>6, <2>1
    <3>2. (x - xa) * E \in Int
      BY <2>2, <3>1, ProductInt
    <3> QED BY <1>6, <3>2
  <2>6. Cong(F, y)
    BY <2>1, <2>2, <2>3, <2>4, <2>5, CongTrans
  <2>7. F = y
    BY <2>1, <2>2, <2>6, CongSame
  <2> QED BY <2>7 DEF F, x, y
<1> QED BY <1>7, <1>11 DEF Through

LEMMA Interpolant ==
  ASSUME NEW K, IsFiniteSet(K), NEW X, Apart(K, X), NEW Y \in [K -> Zq]
  PROVE  Through(K, X, Y, Cardinality(K))
<1> DEFINE n == Cardinality(K)
           S == {k \in 0 .. n : \A J \in SUBSET K : Cardinality(J) = k =>
                   \A Z \in [J -> Zq] : Through(J, [i \in J |-> X[i]], Z, k)}
<1>1. n \in Nat
  BY FS_CardinalityType
<1>2. \A J \in SUBSET K : IsFiniteSet(J)
  BY FS_Subset
<1>3. \A i \in K : X[i] \in Zq
  BY DEF Apart
<1>4. 0 \in S
  <2> SUFFICES ASSUME NEW J \in SUBSET K, Cardinality(J) = 0, NEW Z \in [J -> Zq]
               PROVE  Through(J, [i \in J |-> X[i]], Z, 0)
    <3>1. 0 \in 0 .. n
      BY <1>1
    <3> QED BY <3>1
  <2>1. J = {}
    BY <1>2, FS_EmptySet
  <2>2. [j \in 1 .. 0 |-> 0] \in [1 .. 0 -> Zq]
    OBVIOUS
  <2> QED BY <2>1, <2>2 DEF Through
<1>5. ASSUME NEW k \in 1 .. n, k - 1 \in S PROVE k \in S
  <2> SUFFICES ASSUME NEW J \in SUBSET K, Cardinality(J) = k, NEW Z \in [J -> Zq]
               PROVE  Through(J, [i \in J |-> X[i]], Z, k)
    <3>1. k \in 0 .. n
      BY <1>1
    <3> QED BY <3>1
  <2>1. k \in Nat /\ k # 0 /\ k - 1 \in Nat /\ (k - 1) + 1 = k
    BY <1>1
  <2>2. J # {}
    BY <2>1, FS_EmptySet
  <2>3. PICK a \in J : TRUE
    BY <2>2
  <2> DEFINE XJ == [i \in J |-> X[i]]
  <2>4. J \ {a} \in SUBSET K /\ Cardinality(J \ {a}) = k - 1
    BY <1>2, <2>1, FS_RemoveElement
  <2>5. Apart(J, XJ)
    BY <1>3 DEF Apart
  <2>6. [i \in J \ {a} |-> XJ[i]] = [i \in J \ {a} |-> X[i]]
    OBVIOUS
  <2>7. \A W \in [J \ {a} -> Zq] : Through(J \ {a}, [i \in J \ {a} |-> X[i]], W, k - 1)
    BY <1>5, <2>4
  <2> HIDE DEF XJ
  <2>8. \A W \in [J \ {a} -> Zq] : Through(J \ {a}, [i \in J \ {a} |-> XJ[i]], W, k - 1)
    BY <2>6, <2>7
  <2>9. Through(J, XJ, Z, (k - 1) + 1)
    BY <2>1, <2>5, <2>8, OnePointMore
  <2> QED BY <2>1, <2>9 DEF XJ
<1> HIDE DEF S
<1>6. \A k \in 0 .. n : k \in S
  BY <1>1, <1>4, <1>5, UpTo
<1>7. n \in S
  BY <1>1, <1>6
<1>8. [i \in K |-> X[i]] = X
  BY DEF Apart
<1>9. Through(K, [i \in K |-> X[i]], Y, n)
  BY <1>7 DEF S
<1> QED BY <1>8, <1>9

(***************************************************************************)
(* The shares of t - 1 PKGs with different points other than 0 are those   *)
(* of some polynomial with any constant term at all: whatever the master   *)
(* secret, they could have been dealt.                                     *)
(***************************************************************************)
THEOREM AlwaysFewerTellNothing == Spec => []FewerTellNothing
<1>1. ASSUME KeysInv PROVE FewerTellNothing
  <2> SUFFICES ASSUME phase = "split", NEW S \in SUBSET DOMAIN mshare,
                      Cardinality(S) = params.sharet - 1,
                      \A i \in S : params.robustx[i] # 0,
                      \A i, j \in S : i # j => params.robustx[i] # params.robustx[j],
                      NEW m \in Zq
               PROVE  \E p \in Polynomials(m, params.sharet) :
                        \A i \in S : Eval(p, params.robustx[i]) = mshare[i].y
    BY DEF FewerTellNothing, TellsNothing
  <2>1. PICK t \in Thresholds, n \in Sizes : \E x \in [1 .. n -> Zq] : DealtBy(t, n, x)
    BY <1>1 DEF KeysInv, Dealt
  <2>2. PICK x \in [1 .. n -> Zq] : DealtBy(t, n, x)
    BY <2>1
  <2>3. t \in Nat /\ t >= 1 /\ n \in Nat
    BY SplitAssumption
  <2>4. params.sharet = t /\ params.robustx = x /\ DOMAIN mshare = 1 .. n
    BY <2>2 DEF DealtBy
  <2>5. \A i \in S : i # 0 /\ i \in 1 .. n /\ mshare[i].y \in Zq
    <3>1. \A i \in DOMAIN mshare : mshare[i].y \in Zq
      BY <1>1, SharesType
    <3> QED BY <2>3, <2>4, <3>1
  <2> DEFINE K == S \cup {0}
             X == [i \in K |-> IF i = 0 THEN 0 ELSE x[i]]
             Y == [i \in K |-> IF i = 0 THEN m ELSE mshare[i].y]
  <2>6. IsFiniteSet(K) /\ Cardinality(K) = t
    <3>1. IsFiniteSet(1 .. n)
      BY <2>3, FS_Interval
    <3>2. IsFiniteSet(S)
      BY <2>4, <3>1, FS_Subset
    <3>3. Cardinality(S) = t - 1 /\ 0 \notin S
      BY <2>4, <2>5
    <3>4. IsFiniteSet(S \cup {0}) /\ Cardinality(S \cup {0}) = Cardinality(S) + 1
      BY <3>2, <3>3, FS_AddElement, Zenon
    <3> QED BY <2>3, <3>3, <3>4
  <2>7. 0 \in Zq
    BY QNat DEF Zq
  <2>8. Apart(K, X)
    <3>1. X \in [K -> Zq]
      BY <2>5, <2>7
    <3>2. ASSUME NEW i \in K, NEW j \in K, i # j PROVE X[i] # X[j]
      <4>1. CASE i = 0
        BY <2>4, <2>5, <3>2, <4>1
      <4>2. CASE j = 0
        BY <2>4, <2>5, <3>2, <4>2
      <4>3. CASE i # 0 /\ j # 0
        BY <2>4, <3>2, <4>3
      <4> QED BY <4>1, <4>2, <4>3
    <3> QED BY <3>1, <3>2 DEF Apart
  <2>9. Y \in [K -> Zq]
    BY <2>5
  <2>10. PICK c \in [1 .. t -> Zq] : \A i \in K : Eval(c, X[i]) = Y[i]
    <3> HIDE DEF K, X, Y
    <3>1. Through(K, X, Y, Cardinality(K))
      BY <2>6, <2>8, <2>9, Interpolant
    <3> QED BY <2>6, <3>1 DEF Through
  <2>11. Eval(c, 0) = m /\ \A i \in S : Eval(c, x[i]) = mshare[i].y
    <3>1. 0 \in K /\ X[0] = 0 /\ Y[0] = m
      OBVIOUS
    <3>2. \A i \in S : i \in K /\ X[i] = x[i] /\ Y[i] = mshare[i].y
      BY <2>5
    <3> HIDE DEF K, X, Y
    <3> QED BY <2>10, <3>1, <3>2
  <2> DEFINE tail == [j \in 1 .. t - 1 |-> c[j + 1]]
  <2>12. tail \in [1 .. t - 1 -> Zq] /\ \A j \in 1 .. t - 1 : tail[j] = c[j + 1]
    BY <2>3
  <2> HIDE DEF tail
  <2>13. c[1] = m
    <3>1. c[1] \in Zq /\ 1 \in 1 .. t
      BY <2>3
    <3>2. c \in [1 .. t -> Int] /\ tail \in [1 .. t - 1 -> Int] /\ 0 \in Int /\ t - 1 \in Nat
      BY <2>3, <2>12, ZqInt
    <3>3. Cong(Eval(c, 0), Eval(tail, 0) * 0 + c[1])
      BY <2>3, <2>12, <3>2, EvalSplit
    <3>4. Eval(tail, 0) \in Int
      BY <3>2, EvalType
    <3>5. Eval(tail, 0) * 0 + c[1] = c[1]
      BY <3>1, <3>4, ZqInt
    <3>6. Cong(m, c[1])
      BY <2>11, <3>3, <3>5
    <3> QED BY <3>1, <3>6, CongSame
  <2>14. c = <<m>> \o tail
    <3>1. tail \in Seq(Zq) /\ Len(tail) = t - 1 /\ <<m>> \in Seq(Zq) /\ Len(<<m>>) = 1
      BY <2>3, <2>12
    <3>2. c \in Seq(Zq) /\ Len(c) = t
      BY <2>3
    <3>3. /\ <<m>> \o tail \in Seq(Zq) /\ Len(<<m>> \o tail) = t
          /\ \A i \in 1 .. t : (<<m>> \o tail)[i] = IF i <= 1 THEN <<m>>[i] ELSE tail[i - 1]
      <4>1. Len(<<m>>) + Len(tail) = t
        BY <2>3, <3>1
      <4> QED BY <3>1, <4>1, ConcatProperties
    <3>4. ASSUME NEW i \in 1 .. t PROVE c[i] = (<<m>> \o tail)[i]
      <4>1. CASE i = 1
        BY <2>13, <3>3, <4>1
      <4>2. CASE i # 1
        <5>1. i - 1 \in 1 .. t - 1 /\ (i - 1) + 1 = i /\ ~ (i <= 1)
          BY <2>3, <4>2
        <5>2. (<<m>> \o tail)[i] = tail[i - 1]
          BY <3>3, <5>1
        <5>3. tail[i - 1] = c[(i - 1) + 1]
          BY <2>12, <5>1
        <5> QED BY <5>1, <5>2, <5>3
      <4> QED BY <4>1, <4>2
    <3> QED BY <3>2, <3>3, <3>4, SeqEqual
  <2>15. c \in Polynomials(m, params.sharet)
    BY <2>4, <2>12, <2>14 DEF Polynomials
  <2> QED BY <2>4, <2>11, <2>15
<1> QED BY KeysInvariance, <1>1, PTL
-----------------------------------------------------------------------------
(***************************************************************************)
(* The rest is about the operators of Curve and Fp2, for any prime p.      *)
(* First, arithmetic modulo p.                                             *)
(***************************************************************************)
E == INSTANCE Curve

Same(a, b, p) == \E k \in Int : a - b = p * k

Prime(p) == p \in Nat /\ p > 1 /\ \A d \in 2 .. p - 1 : p % d # 0

LEMMA SameRefl == ASSUME NEW p \in Int, NEW a \in Int PROVE Same(a, a, p)
<1>1. 0 \in Int /\ a - a = p * 0
  OBVIOUS
<1> QED BY <1>1 DEF Same

LEMMA SameSym ==
  ASSUME NEW p \in Int, NEW a \in Int, NEW b \in Int, Same(a, b, p)
  PROVE  Same(b, a, p)
<1>1. PICK k \in Int : a - b = p * k
  BY DEF Same
<1>2. -k \in Int /\ b - a = p * (-k)
  BY <1>1
<1> QED BY <1>2 DEF Same

LEMMA SameTrans ==
  ASSUME NEW p \in Int, NEW a \in Int, NEW b \in Int, NEW c \in Int, Same(a, b, p), Same(b, c, p)
  PROVE  Same(a, c, p)
<1>1. PICK k \in Int : a - b = p * k
  BY DEF Same
<1>2. PICK l \in Int : b - c = p * l
  BY DEF Same
<1>3. k + l \in Int /\ a - c = p * (k + l)
  BY <1>1, <1>2
<1> QED BY <1>3 DEF Same

LEMMA SamePlus ==
  ASSUME NEW p \in Int, NEW a \in Int, NEW b \in Int, NEW c \in Int, NEW d \in Int,
         Same(a, b, p), Same(c, d, p)
  PROVE  Same(a + c, b + d, p) /\ Same(a - c, b - d, p)
<1>1. PICK k \in Int : a - b = p * k
  BY DEF Same
<1>2. PICK l \in Int : c - d = p * l
  BY DEF Same
<1>3. k + l \in Int /\ (a + c) - (b + d) = p * (k + l)
  BY <1>1, <1>2
<1>4. k - l \in Int /\ (a - c) - (b - d) = p * (k - l)
  BY <1>1, <1>2
<1> QED BY <1>3, <1>4 DEF Same

LEMMA SameTimes ==
  ASSUME NEW p \in Int, NEW a \in Int, NEW b \in Int, NEW c \in Int, NEW d \in Int,
         Same(a, b, p), Same(c, d, p)
  PROVE  Same(a * c, b * d, p)
<1>1. PICK k \in Int : a - b = p * k
  BY DEF Same
<1>2. PICK l \in Int : c - d = p * l
  BY DEF Same
<1>3. k * c + b * l \in Int
  OBVIOUS
<1>4. a * c - b * d = (a - b) * c + b * (c - d)
  OBVIOUS
<1>5. (p * k) * c + b * (p * l) = p * (k * c + b * l)
  OBVIOUS
<1>6. a * c - b * d = p * (k * c + b * l)
  BY <1>1, <1>2, <1>4, <1>5
<1> QED BY <1>3, <1>6 DEF Same

\* What is a combination of zeros is zero.
Combination(e, c, a, d, b) == e = c * a + d * b

LEMMA Combined ==
  ASSUME NEW p \in Int, NEW e \in Int,
         NEW a \in Int, NEW b \in Int, NEW c \in Int, NEW d \in Int,
         Same(a, 0, p), Same(b, 0, p), Combination(e, c, a, d, b)
  PROVE  Same(e, 0, p)
<1>1. PICK k \in Int : a - 0 = p * k
  BY DEF Same
<1>2. PICK l \in Int : b - 0 = p * l
  BY DEF Same
<1>3. c * k + d * l \in Int /\ c * (p * k) + d * (p * l) = p * (c * k + d * l) /\ a = p * k /\ b = p * l
  BY <1>1, <1>2
<1>4. e - 0 = p * (c * k + d * l)
  BY <1>3 DEF Combination
<1> QED BY <1>3, <1>4 DEF Same

LEMMA SameZero ==
  ASSUME NEW p \in Int, NEW a \in Int, NEW b \in Int
  PROVE  Same(a, b, p) <=> Same(a - b, 0, p)
<1>1. (a - b) - 0 = a - b
  OBVIOUS
<1> QED BY <1>1 DEF Same

LEMMA RangeOf ==
  ASSUME NEW p \in Nat, p > 0, NEW a \in Int
  PROVE  a % p \in 0 .. p - 1 /\ a % p \in Int
OBVIOUS

LEMMA SameMod ==
  ASSUME NEW p \in Nat, p > 0, NEW a \in Int
  PROVE  Same(a % p, a, p) /\ Same(a, a % p, p)
<1>1. a % p \in Int /\ a \div p \in Int /\ a = p * (a \div p) + (a % p)
  OBVIOUS
<1> DEFINE r == a % p
           d == a \div p
<1>2. r \in Int /\ d \in Int /\ a = p * d + r
  BY <1>1
<1> HIDE DEF r, d
<1>3. a - r = p * d
  BY <1>2
<1>4. Same(a, r, p)
  BY <1>2, <1>3 DEF Same
<1>5. Same(r, a, p)
  BY <1>2, <1>4, SameSym
<1> QED BY <1>4, <1>5 DEF r

LEMMA AtLeast == ASSUME NEW p \in Nat, NEW k \in Int, k >= 1 PROVE p * k >= p
<1>1. k - 1 \in Nat /\ p * k = p * (k - 1) + p
  OBVIOUS
<1>2. p * (k - 1) >= 0 /\ p * (k - 1) \in Int
  BY <1>1
<1> QED BY <1>1, <1>2

LEMMA SameSmall ==
  ASSUME NEW p \in Nat, NEW a \in 0 .. p - 1, NEW b \in 0 .. p - 1, Same(a, b, p)
  PROVE  a = b
<1>1. PICK k \in Int : a - b = p * k
  BY DEF Same
<1>2. CASE k >= 1
  <2>1. p * k >= p
    BY <1>2, AtLeast
  <2> QED BY <1>1, <2>1
<1>3. CASE k <= -1
  <2>1. -k \in Int /\ -k >= 1 /\ p * (-k) = -(p * k)
    BY <1>3
  <2>2. p * (-k) >= p
    BY <2>1, AtLeast
  <2> QED BY <1>1, <2>1, <2>2
<1>4. CASE k = 0
  BY <1>1, <1>4
<1> QED BY <1>2, <1>3, <1>4

LEMMA ModSameIff ==
  ASSUME NEW p \in Nat, p > 0, NEW a \in Int, NEW b \in Int
  PROVE  Same(a, b, p) <=> a % p = b % p
<1>1. /\ Same(a % p, a, p) /\ Same(b, b % p, p) /\ Same(a, a % p, p) /\ Same(b % p, b, p)
      /\ a % p \in 0 .. p - 1 /\ b % p \in 0 .. p - 1 /\ a % p \in Int /\ b % p \in Int
  BY SameMod, RangeOf
<1>2. ASSUME Same(a, b, p) PROVE a % p = b % p
  <2>1. Same(a % p, b, p)
    BY <1>1, <1>2, SameTrans
  <2>2. Same(a % p, b % p, p)
    BY <1>1, <2>1, SameTrans
  <2> QED BY <1>1, <2>2, SameSmall
<1>3. ASSUME a % p = b % p PROVE Same(a, b, p)
  BY <1>1, <1>3, SameTrans
<1> QED BY <1>2, <1>3

LEMMA DivideBy ==
  ASSUME NEW a \in Nat, NEW m \in Nat, m > 0
  PROVE  a = m * (a \div m) + (a % m) /\ a \div m \in Int /\ a % m \in 0 .. m - 1
OBVIOUS

\* What is not 0 modulo the prime p has an inverse.
LEMMA HasInverse ==
  ASSUME NEW p \in Nat, Prime(p), NEW a \in Int, ~ Same(a, 0, p)
  PROVE  \E v \in 1 .. p - 1 : Same(a * v, 1, p)
<1> DEFINE S == {m \in 1 .. p - 1 : \E v \in Int : Same(a * v, m, p)}
<1>p. p \in Nat /\ p > 1 /\ p > 0 /\ p \in Int
  BY DEF Prime
<1>1. a % p \in S
  <2>1. a % p \in 0 .. p - 1 /\ Same(a, a % p, p) /\ a % p \in Int
    BY <1>p, RangeOf, SameMod
  <2>2. a % p # 0
    BY <2>1
  <2>3. a % p \in 1 .. p - 1
    BY <1>p, <2>1, <2>2
  <2>4. a * 1 = a
    OBVIOUS
  <2> QED BY <2>1, <2>3, <2>4
<1>2. PICK m \in S : \A y \in S : m <= y
  <2>1. S \in SUBSET Nat
    BY <1>p
  <2> HIDE DEF S
  <2> QED BY <1>1, <2>1, Least
<1>3. PICK v \in Int : Same(a * v, m, p)
  BY <1>2
<1>4. m \in 1 .. p - 1 /\ m \in Nat /\ m \in Int /\ m > 0
  BY <1>2, <1>p
<1>5. m = 1
  <2> SUFFICES ASSUME m # 1 PROVE FALSE
    OBVIOUS
  <2>1. m \in 2 .. p - 1
    BY <1>4, <1>p
  <2>2. p % m # 0
    BY <2>1 DEF Prime
  <2> DEFINE r == p % m
             d == p \div m
  <2>3. p = m * d + r /\ d \in Int /\ r \in 0 .. m - 1
    BY <1>4, <1>p, DivideBy
  <2>4. r # 0
    BY <2>2
  <2> HIDE DEF r, d, S
  <2>5. r \in 1 .. p - 1 /\ r < m /\ r \in Int
    BY <1>4, <2>3, <2>4, <1>p
  <2>6. Same(a * v - m, 0, p) /\ a * v \in Int
    BY <1>p, <1>3, <1>4, SameZero
  \* r = p - m d = a (-v d) + p + d (a v - m)
  <2>7. Same(p, 0, p)
    <3>1. p - 0 = p * 1 /\ 1 \in Int
      BY <1>p
    <3> QED BY <3>1 DEF Same
  <2> DEFINE w == -(v * d)
             e == a * w - r
             z == a * v - m
  <2>8. w \in Int /\ a * w \in Int /\ e \in Int /\ z \in Int /\ -d \in Int /\ -1 \in Int
    BY <1>4, <2>3, <2>5
  <2>9. e = (-d) * z + (-1) * p
    <3>1. r = p - m * d
      BY <1>4, <2>3, <2>5, <1>p
    <3>2. a * w = - (d * (a * v)) /\ (-d) * z = - (d * (a * v)) + d * m
      BY <1>4, <2>3
    <3>3. d * m = m * d /\ d * m \in Int /\ d * (a * v) \in Int
      BY <1>4, <2>3
    <3> QED BY <1>p, <3>1, <3>2, <3>3
  <2>10. Same(a * w, r, p)
    <3>1. Same(z, 0, p)
      BY <2>6
    <3>2. Combination(e, -d, z, -1, p)
      BY <2>9 DEF Combination
    <3> HIDE DEF e, z, w
    <3>3. Same(e, 0, p)
      BY <1>p, <2>7, <2>8, <3>1, <3>2, Combined
    <3> QED BY <1>p, <2>5, <2>8, <3>3, SameZero DEF e
  <2> HIDE DEF w
  <2>11. r \in S
    BY <2>5, <2>8, <2>10 DEF S
  <2>12. m <= r
    BY <1>2, <2>11
  <2> QED BY <1>4, <2>5, <2>12
<1> DEFINE w == v % p
<1>6. w \in 0 .. p - 1 /\ w \in Int /\ Same(w, v, p) /\ Same(a, a, p)
  BY <1>p, RangeOf, SameMod, SameRefl
<1> HIDE DEF w
<1>7. Same(a * w, a * v, p) /\ a * w \in Int /\ a * v \in Int
  BY <1>p, <1>6, SameTimes
<1>8. Same(a * w, 1, p)
  BY <1>p, <1>3, <1>5, <1>7, SameTrans
<1>9. w # 0
  <2> SUFFICES ASSUME w = 0 PROVE FALSE
    OBVIOUS
  <2>1. a * w = 0
    OBVIOUS
  <2>2. 0 \in 0 .. p - 1 /\ 1 \in 0 .. p - 1
    BY <1>p
  <2> QED BY <1>p, <1>8, <2>1, <2>2, SameSmall
<1>10. w \in 1 .. p - 1
  BY <1>p, <1>6, <1>9
<1> QED BY <1>8, <1>10

LEMMA ModOne ==
  ASSUME NEW p \in Nat, p > 1, NEW a \in Int
  PROVE  Same(a, 1, p) <=> a % p = 1
<1>1. p > 0 /\ 1 % p = 1 /\ 1 \in Int
  OBVIOUS
<1> QED BY <1>1, ModSameIff

\* mpz_invert as the model has it.
LEMMA ZpInverse ==
  ASSUME NEW p \in Nat, Prime(p), NEW x \in Int, ~ Same(x, 0, p)
  PROVE  /\ E!zp_inv(x, p) \in 1 .. p - 1 /\ E!zp_inv(x, p) \in Int
         /\ Same(x * E!zp_inv(x, p), 1, p)
<1>p. p \in Nat /\ p > 1 /\ p > 0 /\ p \in Int /\ 1 % p = 1
  BY DEF Prime
<1>1. \E y \in 1 .. p - 1 : (x * y) % p = 1
  <2>1. PICK v \in 1 .. p - 1 : Same(x * v, 1, p)
    BY HasInverse
  <2>2. v \in Int /\ x * v \in Int
    BY <1>p
  <2> DEFINE u == x * v
  <2>3. u \in Int /\ Same(u, 1, p)
    BY <2>1, <2>2
  <2> HIDE DEF u
  <2>4. u % p = 1
    BY <1>p, <2>3, ModOne
  <2> QED BY <2>4 DEF u
<1>2. E!zp_inv(x, p) \in 1 .. p - 1 /\ (x * E!zp_inv(x, p)) % p = 1
  BY <1>1 DEF E!zp_inv
<1>3. E!zp_inv(x, p) \in Int /\ x * E!zp_inv(x, p) \in Int
  BY <1>p, <1>2
<1>4. Same(x * E!zp_inv(x, p), 1, p)
  <2> DEFINE u == x * E!zp_inv(x, p)
  <2>1. u \in Int /\ u % p = 1
    BY <1>2, <1>3
  <2> HIDE DEF u
  <2>2. Same(u, 1, p)
    BY <1>p, <2>1, ModOne
  <2> QED BY <2>2 DEF u
<1> QED BY <1>2, <1>3, <1>4

\* A factor that is not 0 can be cancelled.
LEMMA CancelFactor ==
  ASSUME NEW p \in Nat, Prime(p), NEW a \in Int, NEW b \in Int, Same(a * b, 0, p), ~ Same(a, 0, p)
  PROVE  Same(b, 0, p)
<1>p. p \in Int
  BY DEF Prime
<1>1. PICK v \in 1 .. p - 1 : Same(a * v, 1, p)
  BY HasInverse
<1>2. v \in Int /\ a * v \in Int /\ a * b \in Int /\ -b \in Int /\ a * v - 1 \in Int
  BY <1>p
<1>3. Same(a * v - 1, 0, p)
  BY <1>p, <1>1, <1>2, SameZero
<1> DEFINE z == a * v - 1
           m == a * b
           n == -b
<1>4. z \in Int /\ m \in Int /\ n \in Int
  BY <1>2
<1>5. Combination(b, v, m, n, z)
  BY <1>2 DEF Combination
<1>6. Same(z, 0, p) /\ Same(m, 0, p)
  BY <1>3
<1> HIDE DEF z, m, n
<1> QED BY <1>p, <1>2, <1>4, <1>5, <1>6, Combined

Combination4(e, c1, a1, c2, a2, c3, a3, c4, a4) == e = c1 * a1 + c2 * a2 + c3 * a3 + c4 * a4

LEMMA Combined4 ==
  ASSUME NEW p \in Int, NEW e \in Int,
         NEW a1 \in Int, NEW a2 \in Int, NEW a3 \in Int, NEW a4 \in Int,
         NEW c1 \in Int, NEW c2 \in Int, NEW c3 \in Int, NEW c4 \in Int,
         Same(a1, 0, p), Same(a2, 0, p), Same(a3, 0, p), Same(a4, 0, p),
         Combination4(e, c1, a1, c2, a2, c3, a3, c4, a4)
  PROVE  Same(e, 0, p)
<1> DEFINE f == c1 * a1 + c2 * a2
           g == c3 * a3 + c4 * a4
<1>1. f \in Int /\ g \in Int /\ 1 \in Int
  OBVIOUS
<1>2. Combination(f, c1, a1, c2, a2) /\ Combination(g, c3, a3, c4, a4)
  BY DEF Combination
<1>3. Combination(e, 1, f, 1, g)
  BY DEF Combination, Combination4
<1> HIDE DEF f, g
<1>4. Same(f, 0, p) /\ Same(g, 0, p)
  BY <1>1, <1>2, Combined
<1> QED BY <1>1, <1>3, <1>4, Combined
-----------------------------------------------------------------------------
(***************************************************************************)
(* Chords and tangents of y^2 = x^3 + 1.                                   *)
(***************************************************************************)
OnE(x, y, p) == Same(y * y, x * x * x + 1, p)

\* (X, Y) is the reflected third point on the line with slope s through (x, y),
\* which meets the curve at u also.
IsThird(X, Y, s, x, y, u, p) == Same(X, s * s - x - u, p) /\ Same(Y, (x - X) * s - y, p)

LEMMA LineCloses ==
  ASSUME NEW p \in Int, NEW x \in Int, NEW y \in Int, NEW u \in Int, NEW s \in Int,
         NEW X \in Int, NEW Y \in Int,
         Same(2 * y * s + s * s * (u - x), x * x + x * u + u * u, p),
         OnE(x, y, p), IsThird(X, Y, s, x, y, u, p)
  PROVE  OnE(X, Y, p)
<1> DEFINE z1 == (2 * y * s + s * s * (u - x)) - (x * x + x * u + u * u)
           z2 == y * y - (x * x * x + 1)
           z3 == X - (s * s - x - u)
           z4 == Y - ((x - X) * s - y)
           e  == Y * Y - (X * X * X + 1)
           c1 == X - x
           c3 == (x - X) * (X - u)
           c4 == z4 - 2 * (y + s * (X - x))
<1>1. /\ z1 \in Int /\ z2 \in Int /\ z3 \in Int /\ z4 \in Int /\ e \in Int
      /\ 1 \in Int /\ c1 \in Int /\ c3 \in Int /\ c4 \in Int
  OBVIOUS
<1>2. Same(z1, 0, p)
  <2>1. 2 * y * s + s * s * (u - x) \in Int /\ x * x + x * u + u * u \in Int
    OBVIOUS
  <2> QED BY <2>1, SameZero
<1>3. Same(z2, 0, p)
  <2>1. y * y \in Int /\ x * x * x + 1 \in Int
    OBVIOUS
  <2> QED BY <2>1, SameZero DEF OnE
<1>4. Same(z3, 0, p) /\ Same(z4, 0, p)
  <2>1. s * s - x - u \in Int /\ (x - X) * s - y \in Int
    OBVIOUS
  <2> QED BY <2>1, SameZero DEF IsThird
<1>5. Combination4(e, c1, z1, 1, z2, c3, z3, c4, z4)
  BY DEF Combination4
<1>6. Same(e, 0, p)
  <2> HIDE DEF z1, z2, z3, z4, e, c1, c3, c4
  <2> QED BY <1>1, <1>2, <1>3, <1>4, <1>5, Combined4
<1>7. y * y \in Int /\ Y * Y \in Int /\ X * X * X + 1 \in Int
  OBVIOUS
<1> QED BY <1>6, <1>7, SameZero DEF OnE

LEMMA ChordCloses ==
  ASSUME NEW p \in Nat, Prime(p), NEW x \in Int, NEW y \in Int, NEW u \in Int, NEW v \in Int,
         NEW s \in Int, NEW X \in Int, NEW Y \in Int,
         ~ Same(u - x, 0, p), Same(s * (u - x), v - y, p),
         OnE(x, y, p), OnE(u, v, p), IsThird(X, Y, s, x, y, u, p)
  PROVE  OnE(X, Y, p)
<1> DEFINE d  == u - x
           z1 == s * (u - x) - (v - y)
           z2 == y * y - (x * x * x + 1)
           z3 == v * v - (u * u * u + 1)
           b  == (2 * y * s + s * s * (u - x)) - (x * x + x * u + u * u)
           e  == d * b
           c1 == z1 + 2 * v
<1>1. /\ z1 \in Int /\ z2 \in Int /\ z3 \in Int /\ d \in Int /\ b \in Int /\ e \in Int
      /\ 1 \in Int /\ -1 \in Int /\ 0 \in Int /\ c1 \in Int
  OBVIOUS
<1>2. Same(z1, 0, p)
  <2>1. s * (u - x) \in Int /\ v - y \in Int
    OBVIOUS
  <2> QED BY <2>1, SameZero
<1>3. Same(z2, 0, p) /\ Same(z3, 0, p)
  <2>1. y * y \in Int /\ x * x * x + 1 \in Int /\ v * v \in Int /\ u * u * u + 1 \in Int
    OBVIOUS
  <2> QED BY <2>1, SameZero DEF OnE
<1>4. Combination4(e, c1, z1, -1, z2, 1, z3, 0, z3)
  BY DEF Combination4
<1>5. Same(d * b, 0, p)
  <2> HIDE DEF z1, z2, z3, e, c1
  <2>1. Same(e, 0, p)
    BY <1>1, <1>2, <1>3, <1>4, Combined4
  <2> QED BY <2>1 DEF e
<1>6. Same(b, 0, p)
  <2>1. ~ Same(d, 0, p)
    OBVIOUS
  <2> HIDE DEF d, b
  <2> QED BY <1>1, <1>5, <2>1, CancelFactor
<1>7. 2 * y * s + s * s * (u - x) \in Int /\ x * x + x * u + u * u \in Int
  OBVIOUS
<1>8. Same(2 * y * s + s * s * (u - x), x * x + x * u + u * u, p)
  BY <1>6, <1>7, SameZero
<1>9. p \in Int
  OBVIOUS
<1> QED BY <1>8, <1>9, LineCloses

Fp(p) == 0 .. p - 1

\* A point with these coordinates, as the model has it.
AffinePoints(p) == [x : Fp(p), y : Fp(p)]

LEMMA IntMod == ASSUME NEW p \in Nat, p > 0, NEW a \in Int PROVE a % p \in Fp(p) /\ a % p \in Int
BY RangeOf DEF Fp

LEMMA FpInt == ASSUME NEW p \in Nat, NEW a \in Fp(p) PROVE a \in Int
BY DEF Fp

\* Some line with the slope n/d makes this of the point.
MadeBy(t, X, Y, n, d, x, y, u, p) ==
  /\ Same(t * d, n, p) /\ IsThird(X, Y, t, x, y, u, p)
  /\ E!ZzThird(n, d, E!Affine(x, y), u, p) = E!Affine(X, Y)

\* The slope, and what the model makes of it.
LEMMA ThirdPoint ==
  ASSUME NEW p \in Nat, Prime(p), NEW n \in Int, NEW d \in Int, NEW x \in Int, NEW y \in Int,
         NEW u \in Int, ~ Same(d, 0, p)
  PROVE  \E s \in Int, X \in Fp(p), Y \in Fp(p) :
           MadeBy(s, X, Y, n, d, x, y, u, p)
<1> DEFINE i == E!zp_inv(d, p)
           s == (n * i) % p
           X == (s * s - x - u) % p
           Y == ((x - X) * s - y) % p
<1>p. p > 0 /\ p > 1 /\ p \in Int
  BY DEF Prime
<1>1. i \in Int /\ Same(d * i, 1, p)
  BY ZpInverse
<1>2. s \in Fp(p) /\ s \in Int /\ Same(s, n * i, p) /\ n * i \in Int
  <2>1. n * i \in Int
    BY <1>1
  <2> DEFINE m == n * i
  <2> HIDE DEF m, i
  <2>2. m % p \in Fp(p) /\ m % p \in Int /\ Same(m % p, m, p)
    BY <1>p, <2>1, IntMod, SameMod DEF m
  <2> QED BY <2>1, <2>2 DEF m
<1>3. X \in Fp(p) /\ X \in Int /\ Same(X, s * s - x - u, p)
  <2> DEFINE m == s * s - x - u
  <2> HIDE DEF s
  <2>1. m \in Int
    BY <1>2
  <2> HIDE DEF m
  <2>2. m % p \in Fp(p) /\ m % p \in Int /\ Same(m % p, m, p)
    BY <1>p, <2>1, IntMod, SameMod
  <2> QED BY <2>2 DEF m
<1>4. Y \in Fp(p) /\ Y \in Int /\ Same(Y, (x - X) * s - y, p)
  <2> DEFINE m == (x - X) * s - y
  <2> HIDE DEF s, X
  <2>1. m \in Int
    BY <1>2, <1>3
  <2> HIDE DEF m
  <2>2. m % p \in Fp(p) /\ m % p \in Int /\ Same(m % p, m, p)
    BY <1>p, <2>1, IntMod, SameMod
  <2> QED BY <2>2 DEF m
<1>5. Same(s * d, n, p)
  <2> HIDE DEF i, s
  <2> DEFINE e == s * d - n
             z1 == s - n * i
             z2 == d * i - 1
  <2>1. e \in Int /\ z1 \in Int /\ z2 \in Int /\ s * d \in Int /\ n * i \in Int /\ d * i \in Int
    BY <1>1, <1>2
  <2>2. Same(z1, 0, p) /\ Same(z2, 0, p)
    BY <1>p, <1>1, <1>2, <2>1, SameZero
  <2>3. Combination(e, d, z1, n, z2)
    BY <1>1, <1>2 DEF Combination
  <2>4. Same(e, 0, p)
    <3> HIDE DEF e, z1, z2
    <3> QED BY <1>p, <2>1, <2>2, <2>3, Combined
  <2> QED BY <1>p, <2>1, <2>4, SameZero
<1>6. d % p # 0
  <2>1. 0 % p = 0 /\ 0 \in Int
    BY <1>p
  <2> QED BY <1>p, <2>1, ModSameIff
<1>7. E!ZzThird(n, d, E!Affine(x, y), u, p) = E!Affine(X, Y)
  BY <1>6 DEF E!ZzThird, E!Affine
<1> HIDE DEF s, X, Y
<1> QED BY <1>2, <1>3, <1>4, <1>5, <1>7 DEF IsThird, MadeBy

\* Whoever finds a point with such a slope has found the model's.
LEMMA ThirdUnique ==
  ASSUME NEW p \in Nat, Prime(p), NEW n \in Int, NEW d \in Int, NEW x \in Int, NEW y \in Int,
         NEW u \in Int, NEW s \in Int, NEW X \in Fp(p), NEW Y \in Fp(p),
         ~ Same(d, 0, p), Same(s * d, n, p), IsThird(X, Y, s, x, y, u, p)
  PROVE  E!ZzThird(n, d, E!Affine(x, y), u, p) = E!Affine(X, Y)
<1>p. p > 0 /\ p > 1 /\ p \in Int
  BY DEF Prime
<1>1. PICK t \in Int, V \in Fp(p), W \in Fp(p) :
           MadeBy(t, V, W, n, d, x, y, u, p)
  BY ThirdPoint
<1>a. /\ Same(t * d, n, p) /\ IsThird(V, W, t, x, y, u, p)
      /\ E!ZzThird(n, d, E!Affine(x, y), u, p) = E!Affine(V, W)
  BY <1>1 DEF MadeBy
<1>2. X \in Int /\ Y \in Int /\ V \in Int /\ W \in Int
  BY FpInt
<1>3. Same(s - t, 0, p)
  <2> DEFINE e == d * (s - t)
             z1 == s * d - n
             z2 == t * d - n
             f == s - t
  <2>1. e \in Int /\ z1 \in Int /\ z2 \in Int /\ f \in Int /\ s * d \in Int /\ t * d \in Int /\ 1 \in Int /\ -1 \in Int
    OBVIOUS
  <2>2. Same(z1, 0, p) /\ Same(z2, 0, p)
    BY <1>p, <1>a, <2>1, SameZero
  <2>3. Combination(e, 1, z1, -1, z2)
    BY DEF Combination
  <2>4. Same(e, 0, p)
    <3> HIDE DEF e, z1, z2
    <3> QED BY <1>p, <2>1, <2>2, <2>3, Combined
  <2>5. Same(d * f, 0, p)
    BY <2>4
  <2> HIDE DEF f
  <2>6. Same(f, 0, p)
    BY <2>1, <2>5, CancelFactor
  <2> QED BY <2>6 DEF f
<1>4. Same(X - V, 0, p)
  <2> DEFINE e == X - V
             z1 == X - (s * s - x - u)
             z2 == V - (t * t - x - u)
             z3 == s - t
             c3 == s + t
  <2>1. e \in Int /\ z1 \in Int /\ z2 \in Int /\ z3 \in Int /\ c3 \in Int /\ 1 \in Int /\ -1 \in Int /\ 0 \in Int
        /\ s * s - x - u \in Int /\ t * t - x - u \in Int
    BY <1>2
  <2>2. Same(z1, 0, p) /\ Same(z2, 0, p) /\ Same(z3, 0, p)
    BY <1>p, <1>a, <1>2, <1>3, <2>1, SameZero DEF IsThird
  <2>3. Combination4(e, 1, z1, -1, z2, c3, z3, 0, z3)
    BY <1>2 DEF Combination4
  <2>4. Same(e, 0, p)
    <3> HIDE DEF e, z1, z2, z3, c3
    <3> QED BY <1>p, <2>1, <2>2, <2>3, Combined4
  <2> QED BY <2>4
<1>5. Same(Y - W, 0, p)
  <2> DEFINE e == Y - W
             z1 == Y - ((x - X) * s - y)
             z2 == W - ((x - V) * t - y)
             z3 == s - t
             z4 == X - V
             c3 == x - X
             c4 == -t
  <2>1. e \in Int /\ z1 \in Int /\ z2 \in Int /\ z3 \in Int /\ z4 \in Int /\ c3 \in Int /\ c4 \in Int /\ 1 \in Int /\ -1 \in Int
        /\ (x - X) * s - y \in Int /\ (x - V) * t - y \in Int
    BY <1>2
  <2>2. Same(z1, 0, p) /\ Same(z2, 0, p) /\ Same(z3, 0, p) /\ Same(z4, 0, p)
    BY <1>p, <1>a, <1>2, <1>3, <1>4, <2>1, SameZero DEF IsThird
  <2>3. Combination4(e, 1, z1, -1, z2, c3, z3, c4, z4)
    BY <1>2 DEF Combination4
  <2>4. Same(e, 0, p)
    <3> HIDE DEF e, z1, z2, z3, z4, c3, c4
    <3> QED BY <1>p, <2>1, <2>2, <2>3, Combined4
  <2> QED BY <2>4
<1>6. X = V /\ Y = W
  <2>1. Same(X, V, p) /\ Same(Y, W, p)
    BY <1>p, <1>2, <1>4, <1>5, SameZero
  <2> QED BY <2>1, SameSmall DEF Fp
<1> QED BY <1>a, <1>6

LEMMA ThirdLost ==
  ASSUME NEW p \in Nat, Prime(p), NEW n \in Int, NEW d \in Int, NEW A, NEW u, Same(d, 0, p)
  PROVE  E!ZzThird(n, d, A, u, p) = E!Lost
<1>1. p > 0 /\ 0 \in Int /\ 0 % p = 0
  BY DEF Prime
<1>2. d % p = 0
  BY <1>1, ModSameIff
<1> QED BY <1>2 DEF E!ZzThird

LEMMA PointOf2 ==
  ASSUME NEW p \in Nat, NEW A \in AffinePoints(p)
  PROVE  /\ A = E!Affine(A.x, A.y) /\ A.x \in Fp(p) /\ A.y \in Fp(p) /\ A.x \in Int /\ A.y \in Int
         /\ A # E!Lost
BY DEF AffinePoints, Fp, E!Affine, E!Lost

LEMMA PointFrom ==
  ASSUME NEW p \in Nat, NEW x \in Fp(p), NEW y \in Fp(p)
  PROVE  E!Affine(x, y) \in AffinePoints(p) /\ E!Affine(x, y).x = x /\ E!Affine(x, y).y = y
BY DEF AffinePoints, Fp, E!Affine

\* The third point is lost or a point again.
LEMMA ThirdType ==
  ASSUME NEW p \in Nat, Prime(p), NEW n \in Int, NEW d \in Int, NEW A \in AffinePoints(p), NEW u \in Int
  PROVE  E!ZzThird(n, d, A, u, p) \in AffinePoints(p) \cup {E!Lost}
<1>1. CASE Same(d, 0, p)
  BY <1>1, ThirdLost
<1>2. CASE ~ Same(d, 0, p)
  <2>1. A = E!Affine(A.x, A.y) /\ A.x \in Int /\ A.y \in Int
    BY PointOf2
  <2>2. PICK s \in Int, X \in Fp(p), Y \in Fp(p) : MadeBy(s, X, Y, n, d, A.x, A.y, u, p)
    BY <1>2, <2>1, ThirdPoint
  <2>3. E!ZzThird(n, d, A, u, p) = E!Affine(X, Y)
    BY <2>1, <2>2 DEF MadeBy
  <2> QED BY <2>3, PointFrom
<1> QED BY <1>1, <1>2
-----------------------------------------------------------------------------
(***************************************************************************)
(* point_special_p says what it should.                                    *)
(***************************************************************************)
LEMMA ZpAdd ==
  ASSUME NEW p \in Nat, NEW x \in Fp(p), NEW y \in Fp(p)
  PROVE  E!zp_add(x, y, p) \in Fp(p) /\ Same(E!zp_add(x, y, p), x + y, p)
<1>1. x \in Int /\ y \in Int /\ p \in Int /\ 0 <= x /\ x < p /\ 0 <= y /\ y < p
  BY DEF Fp
<1>2. CASE x + y >= p
  <2>1. E!zp_add(x, y, p) = x + y - p /\ (x + y - p) - (x + y) = p * (-1) /\ -1 \in Int
    BY <1>1, <1>2 DEF E!zp_add
  <2>2. Same(x + y - p, x + y, p)
    BY <2>1 DEF Same
  <2> QED BY <1>1, <1>2, <2>1, <2>2 DEF Fp
<1>3. CASE ~ (x + y >= p)
  <2>1. E!zp_add(x, y, p) = x + y /\ x + y \in Int
    BY <1>1, <1>3 DEF E!zp_add
  <2>2. Same(x + y, x + y, p)
    BY <1>1, <2>1, SameRefl
  <2> QED BY <1>1, <1>3, <2>1, <2>2 DEF Fp
<1> QED BY <1>2, <1>3

Special(A, p) == E!point_special_p(E!OnF_p(A), p)

LEMMA SpecialIsOnE ==
  ASSUME NEW p \in Nat, Prime(p), NEW A, A.x \in Int, A.y \in Int
  PROVE  Special(A, p) <=> OnE(A.x, A.y, p)
<1> DEFINE x == A.x
           y == A.y
           P == E!OnF_p(A)
           w == (x * x) % p
           h == (w * x) % p
           l == (y * y) % p
           r == E!zp_add(h, 1, p)
<1>p. p > 0 /\ p > 1 /\ p \in Int /\ 0 % p = 0 /\ 1 \in Fp(p) /\ 1 \in Int
  BY DEF Prime, Fp
<1>0. x \in Int /\ y \in Int
  OBVIOUS
<1>1. P = [x |-> [a |-> x, b |-> 0], y |-> [a |-> y, b |-> 0], infinity |-> FALSE]
  BY DEF E!OnF_p, E!Point, E!Real
<1>2. w \in Fp(p) /\ w \in Int /\ Same(w, x * x, p) /\ x * x \in Int
  <2> DEFINE m == x * x
  <2>1. m \in Int
    BY <1>0
  <2> HIDE DEF m
  <2> QED BY <1>p, <2>1, IntMod, SameMod DEF m
<1>3. l \in Fp(p) /\ l \in Int /\ Same(l, y * y, p) /\ y * y \in Int
  <2> DEFINE m == y * y
  <2>1. m \in Int
    BY <1>0
  <2> HIDE DEF m
  <2> QED BY <1>p, <2>1, IntMod, SameMod DEF m
<1>4. h \in Fp(p) /\ h \in Int /\ Same(h, w * x, p) /\ w * x \in Int
  <2> HIDE DEF w
  <2> DEFINE m == w * x
  <2>1. m \in Int
    BY <1>0, <1>2
  <2> HIDE DEF m
  <2> QED BY <1>p, <2>1, IntMod, SameMod DEF m
<1>5. r \in Fp(p) /\ r \in Int /\ Same(r, h + 1, p)
  <2> HIDE DEF h
  <2> QED BY <1>p, <1>4, ZpAdd, FpInt
<1>6. E!fp2_sqr(P.y, p) = [a |-> l, b |-> 0]
  <2>1. (y - 0) * (y + 0) = y * y /\ 2 * y * 0 = 0
    BY <1>0
  <2> QED BY <1>p, <1>1, <2>1 DEF E!fp2_sqr
<1>7. E!fp2_sqr(P.x, p) = [a |-> w, b |-> 0]
  <2>1. (x - 0) * (x + 0) = x * x /\ 2 * x * 0 = 0
    BY <1>0
  <2> QED BY <1>p, <1>1, <2>1 DEF E!fp2_sqr
<1>8. E!fp2_mul(E!fp2_sqr(P.x, p), P.x, p) = [a |-> h, b |-> 0]
  <2> HIDE DEF w
  <2>1. w * x - 0 * 0 = w * x /\ w * 0 + 0 * x = 0
    BY <1>0, <1>2
  <2> QED BY <1>p, <1>1, <1>7, <2>1 DEF E!fp2_mul
<1>9. E!fp2_add([a |-> h, b |-> 0], E!One, p) = [a |-> r, b |-> 0]
  <2>1. E!zp_add(0, 0, p) = 0
    BY <1>p DEF E!zp_add
  <2> QED BY <2>1 DEF E!fp2_add, E!One
<1>10. Special(A, p) <=> l = r
  <2>1. E!point_valid_p(P, p) <=> [a |-> l, b |-> 0] = [a |-> r, b |-> 0]
    <3> HIDE DEF l, r, h
    <3> QED BY <1>1, <1>6, <1>8, <1>9 DEF E!point_valid_p
  <2> HIDE DEF l, r, h
  <2> QED BY <1>1, <2>1 DEF Special, E!point_special_p
<1>11. Same(r, x * x * x + 1, p)
  <2> HIDE DEF r, h, w
  <2>1. Same(w * x, (x * x) * x, p)
    BY <1>p, <1>0, <1>2, SameTimes, SameRefl
  <2>2. (x * x) * x \in Int /\ h + 1 \in Int /\ (x * x) * x + 1 \in Int
    BY <1>0, <1>2, <1>4
  <2>3. Same(h, (x * x) * x, p)
    BY <1>p, <1>4, <2>1, <2>2, SameTrans
  <2>4. Same(h + 1, (x * x) * x + 1, p)
    BY <1>p, <1>4, <2>2, <2>3, SamePlus, SameRefl
  <2> QED BY <1>p, <1>5, <2>2, <2>4, SameTrans
<1>12. l = r <=> Same(y * y, x * x * x + 1, p)
  <2> HIDE DEF l, r, w, h
  <2>1. x * x * x + 1 \in Int
    BY <1>0
  <2>2. ASSUME l = r PROVE Same(y * y, x * x * x + 1, p)
    <3>1. Same(y * y, l, p)
      BY <1>p, <1>3, SameSym
    <3> QED BY <1>p, <1>3, <1>11, <2>1, <2>2, <3>1, SameTrans
  <2>3. ASSUME Same(y * y, x * x * x + 1, p) PROVE l = r
    <3>1. Same(l, x * x * x + 1, p) /\ Same(x * x * x + 1, r, p)
      BY <1>p, <1>3, <1>5, <1>11, <2>1, <2>3, SameTrans, SameSym
    <3>2. Same(l, r, p)
      BY <1>p, <1>3, <1>5, <2>1, <3>1, SameTrans
    <3> QED BY <1>3, <1>5, <3>2, SameSmall DEF Fp
  <2> QED BY <2>2, <2>3
<1> QED BY <1>10, <1>12 DEF OnE

\* The chord through two points of E.
LEMMA AddOnE ==
  ASSUME NEW p \in Nat, NEW A \in AffinePoints(p), NEW B,
         Prime(p), B.x \in Int, B.y \in Int, B # E!Lost, OnE(A.x, A.y, p), OnE(B.x, B.y, p)
  PROVE  LET S == E!zzp_point_add(A, B, p) IN S = E!Lost \/ (S \in AffinePoints(p) /\ OnE(S.x, S.y, p))
<1> DEFINE n == B.y - A.y
           d == B.x - A.x
           S == E!zzp_point_add(A, B, p)
<1>1. /\ A = E!Affine(A.x, A.y) /\ A.x \in Int /\ A.y \in Int /\ A # E!Lost
      /\ B.x \in Int /\ B.y \in Int /\ B # E!Lost /\ n \in Int /\ d \in Int
  BY PointOf2
<1>2. S = E!ZzThird(n, d, A, B.x, p)
  BY <1>1 DEF E!zzp_point_add
<1>3. CASE Same(d, 0, p)
  <2> HIDE DEF n, d
  <2>1. S = E!Lost
    BY <1>1, <1>2, <1>3, ThirdLost
  <2> QED BY <2>1
<1>4. CASE ~ Same(d, 0, p)
  <2>1. PICK s \in Int, X \in Fp(p), Y \in Fp(p) : MadeBy(s, X, Y, n, d, A.x, A.y, B.x, p)
    <3> HIDE DEF n, d
    <3> QED BY <1>1, <1>4, ThirdPoint
  <2>2. S = E!Affine(X, Y) /\ Same(s * d, n, p) /\ IsThird(X, Y, s, A.x, A.y, B.x, p)
    BY <1>1, <1>2, <2>1 DEF MadeBy
  <2>3. X \in Int /\ Y \in Int
    BY FpInt
  <2>4. OnE(X, Y, p)
    BY <1>1, <1>4, <2>2, <2>3, ChordCloses
  <2> QED BY <2>2, <2>4, PointFrom
<1> QED BY <1>3, <1>4

\* The tangent at a point of E.
LEMMA DoubleOnE ==
  ASSUME NEW p \in Nat, Prime(p), NEW A \in AffinePoints(p), OnE(A.x, A.y, p)
  PROVE  LET S == E!zzp_point_double(A, p) IN S = E!Lost \/ (S \in AffinePoints(p) /\ OnE(S.x, S.y, p))
<1> DEFINE x == A.x
           y == A.y
           m == 3 * A.x * A.x
           n == m % p
           d == 2 * A.y
           S == E!zzp_point_double(A, p)
<1>p. p > 0 /\ p \in Int
  BY DEF Prime
<1>1. /\ A = E!Affine(A.x, A.y) /\ A.x \in Int /\ A.y \in Int /\ A # E!Lost
      /\ m \in Int /\ d \in Int
  BY PointOf2
<1>2. n \in Int /\ Same(n, m, p)
  <2> HIDE DEF m
  <2> QED BY <1>p, <1>1, IntMod, SameMod
<1>3. S = E!ZzThird(n, d, A, A.x, p)
  BY <1>1 DEF E!zzp_point_double
<1>4. CASE Same(d, 0, p)
  <2> HIDE DEF n, d
  <2>1. S = E!Lost
    BY <1>1, <1>2, <1>3, <1>4, ThirdLost
  <2> QED BY <2>1
<1>5. CASE ~ Same(d, 0, p)
  <2>1. PICK s \in Int, X \in Fp(p), Y \in Fp(p) : MadeBy(s, X, Y, n, d, A.x, A.y, A.x, p)
    <3> HIDE DEF n, d
    <3> QED BY <1>1, <1>2, <1>5, ThirdPoint
  <2>2. S = E!Affine(X, Y) /\ Same(s * d, n, p) /\ IsThird(X, Y, s, A.x, A.y, A.x, p)
    BY <1>1, <1>3, <2>1 DEF MadeBy
  <2>3. X \in Int /\ Y \in Int /\ s * d \in Int
    BY <1>1, FpInt
  <2>4. Same(s * d, m, p)
    <3> HIDE DEF n, d, m
    <3> QED BY <1>p, <1>1, <1>2, <2>2, <2>3, SameTrans
  <2>5. 2 * y * s + s * s * (x - x) = s * d /\ x * x + x * x + x * x = m
    BY <1>1
  <2>6. Same(2 * y * s + s * s * (x - x), x * x + x * x + x * x, p)
    BY <2>4, <2>5
  <2>7. OnE(X, Y, p)
    BY <1>p, <1>1, <2>2, <2>3, <2>6, LineCloses
  <2> QED BY <2>2, <2>7, PointFrom
<1> QED BY <1>4, <1>5

LEMMA NegatedOnE ==
  ASSUME NEW p \in Nat, Prime(p), NEW A \in AffinePoints(p), OnE(A.x, A.y, p)
  PROVE  LET N == E!Negated(A, p)
         IN  N.x = A.x /\ N.x \in Int /\ N.y \in Int /\ OnE(N.x, N.y, p)
<1> DEFINE x == A.x
           y == A.y
<1>1. x \in Int /\ y \in Int /\ A # E!Lost /\ p \in Int /\ A = [x |-> x, y |-> y]
  BY PointOf2 DEF E!Affine
<1>2. E!Negated(A, p) = [x |-> x, y |-> p - y]
  BY <1>1 DEF E!Negated
<1>3. (p - y) * (p - y) \in Int /\ y * y \in Int /\ x * x * x + 1 \in Int /\ p - y \in Int
  BY <1>1
<1>4. Same((p - y) * (p - y), y * y, p)
  <2>1. (p - y) * (p - y) - y * y = p * (p - 2 * y) /\ p - 2 * y \in Int
    BY <1>1
  <2> QED BY <2>1 DEF Same
<1>5. OnE(x, p - y, p)
  BY <1>1, <1>3, <1>4, SameTrans DEF OnE
<1> QED BY <1>1, <1>2, <1>3, <1>5

(***************************************************************************)
(* Chord, tangent and sign do not leave the curve, for any prime p: what   *)
(* zzp_point_add and zzp_point_double make of points that point_special_p  *)
(* accepts is accepted again, or nothing that they could compute.          *)
(***************************************************************************)
THEOREM StaysOnCurve ==
  ASSUME NEW p \in Nat, Prime(p), NEW A \in AffinePoints(p), NEW B \in AffinePoints(p),
         E!point_special_p(E!OnF_p(A), p), E!point_special_p(E!OnF_p(B), p)
  PROVE  /\ \A S \in {E!zzp_point_add(A, B, p), E!zzp_point_double(A, p)} :
              S # E!Lost => S \in AffinePoints(p) /\ E!point_special_p(E!OnF_p(S), p)
         /\ E!point_special_p(E!OnF_p(E!Negated(A, p)), p)
<1>1. A.x \in Int /\ A.y \in Int /\ B.x \in Int /\ B.y \in Int
  BY PointOf2
<1>2. OnE(A.x, A.y, p) /\ OnE(B.x, B.y, p)
  BY <1>1, SpecialIsOnE DEF Special
<1>3. ASSUME NEW S \in {E!zzp_point_add(A, B, p), E!zzp_point_double(A, p)}, S # E!Lost
      PROVE  S \in AffinePoints(p) /\ E!point_special_p(E!OnF_p(S), p)
  <2>1. S \in AffinePoints(p) /\ OnE(S.x, S.y, p)
    BY <1>1, <1>2, <1>3, PointOf2, AddOnE, DoubleOnE
  <2>2. S.x \in Int /\ S.y \in Int
    BY <2>1, PointOf2
  <2> QED BY <2>1, <2>2, SpecialIsOnE DEF Special
<1>4. E!point_special_p(E!OnF_p(E!Negated(A, p)), p)
  <2>1. E!Negated(A, p).x \in Int /\ E!Negated(A, p).y \in Int
        /\ OnE(E!Negated(A, p).x, E!Negated(A, p).y, p)
    BY <1>2, NegatedOnE
  <2> QED BY <2>1, SpecialIsOnE DEF Special
<1> QED BY <1>3, <1>4

\* Zeros add up, and a multiple of one is one.
LEMMA ZeroPlus ==
  ASSUME NEW p \in Int, NEW a \in Int, NEW b \in Int, Same(a, 0, p), Same(b, 0, p)
  PROVE  Same(a + b, 0, p) /\ Same(a - b, 0, p)
<1>1. Same(a + b, 0 + 0, p) /\ Same(a - b, 0 - 0, p)
  BY SamePlus
<1> QED BY <1>1

LEMMA ZeroTimes ==
  ASSUME NEW p \in Int, NEW a \in Int, NEW c \in Int, Same(a, 0, p)
  PROVE  Same(c * a, 0, p)
<1>1. Same(c, c, p)
  BY SameRefl
<1>2. Same(c * a, c * 0, p) /\ c * 0 = 0
  BY <1>1, SameTimes
<1> QED BY <1>2

LEMMA AddCommutesCase ==
  ASSUME NEW p \in Nat, Prime(p), NEW A \in AffinePoints(p), NEW B \in AffinePoints(p)
  PROVE  E!zzp_point_add(A, B, p) = E!zzp_point_add(B, A, p)
<1> DEFINE n == B.y - A.y
           d == B.x - A.x
           m == A.y - B.y
           c == A.x - B.x
<1>p. p \in Int
  OBVIOUS
<1>1. /\ A = E!Affine(A.x, A.y) /\ A.x \in Int /\ A.y \in Int /\ A # E!Lost
      /\ B = E!Affine(B.x, B.y) /\ B.x \in Int /\ B.y \in Int /\ B # E!Lost
      /\ n \in Int /\ d \in Int /\ m \in Int /\ c \in Int /\ -1 \in Int
  BY PointOf2
<1>2. E!zzp_point_add(A, B, p) = E!ZzThird(n, d, A, B.x, p)
  BY <1>1 DEF E!zzp_point_add
<1>3. E!zzp_point_add(B, A, p) = E!ZzThird(m, c, B, A.x, p)
  BY <1>1 DEF E!zzp_point_add
<1>4. c = (-1) * d /\ d = (-1) * c
  BY <1>1
<1>5. CASE Same(d, 0, p)
  <2>1. Same(c, 0, p)
    <3> HIDE DEF c, d
    <3>1. Same((-1) * d, 0, p)
      BY <1>p, <1>1, <1>5, ZeroTimes
    <3> QED BY <1>4, <3>1
  <2> HIDE DEF n, d, m, c
  <2>2. E!ZzThird(n, d, A, B.x, p) = E!Lost /\ E!ZzThird(m, c, B, A.x, p) = E!Lost
    BY <1>1, <1>5, <2>1, ThirdLost
  <2> QED BY <1>2, <1>3, <2>2
<1>6. CASE ~ Same(d, 0, p)
  <2>1. ~ Same(c, 0, p)
    <3> HIDE DEF c, d
    <3>1. SUFFICES ASSUME Same(c, 0, p) PROVE FALSE
      OBVIOUS
    <3>2. Same((-1) * c, 0, p)
      BY <1>p, <1>1, <3>1, ZeroTimes
    <3> QED BY <1>4, <1>6, <3>2
  <2>2. PICK s \in Int, X \in Fp(p), Y \in Fp(p) : MadeBy(s, X, Y, n, d, A.x, A.y, B.x, p)
    <3> HIDE DEF n, d
    <3> QED BY <1>1, <1>6, ThirdPoint
  <2>3. /\ E!ZzThird(n, d, A, B.x, p) = E!Affine(X, Y)
        /\ Same(s * d, n, p) /\ IsThird(X, Y, s, A.x, A.y, B.x, p)
    BY <1>1, <2>2 DEF MadeBy
  <2>4. X \in Int /\ Y \in Int
    BY FpInt
  <2> DEFINE z1 == s * d - n
             z2 == s * c - m
             z3 == Y - ((A.x - X) * s - A.y)
             z4 == Y - ((B.x - X) * s - B.y)
  <2>5. /\ z1 \in Int /\ z2 \in Int /\ z3 \in Int /\ z4 \in Int /\ s * d \in Int /\ s * c \in Int
        /\ (A.x - X) * s - A.y \in Int /\ (B.x - X) * s - B.y \in Int
    BY <1>1, <2>4
  <2>6. Same(z1, 0, p) /\ Same(z3, 0, p)
    BY <1>p, <1>1, <2>3, <2>4, <2>5, SameZero DEF IsThird
  <2>7. z2 = (-1) * z1 /\ z4 = z3 - z1
    BY <1>1, <2>4
  <2>8. Same(z2, 0, p) /\ Same(z4, 0, p)
    <3> HIDE DEF z1, z2, z3, z4
    <3>1. Same((-1) * z1, 0, p) /\ Same(z3 - z1, 0, p)
      BY <1>p, <1>1, <2>5, <2>6, ZeroTimes, ZeroPlus
    <3> QED BY <2>7, <3>1
  <2>9. Same(s * c, m, p) /\ Same(Y, (B.x - X) * s - B.y, p)
    BY <1>p, <1>1, <2>4, <2>5, <2>8, SameZero
  <2>10. IsThird(X, Y, s, B.x, B.y, A.x, p)
    <3>1. s * s - A.x - B.x = s * s - B.x - A.x
      BY <1>1
    <3> QED BY <2>3, <2>9, <3>1 DEF IsThird
  <2>11. E!ZzThird(m, c, B, A.x, p) = E!Affine(X, Y)
    <3> HIDE DEF m, c
    <3>1. E!ZzThird(m, c, E!Affine(B.x, B.y), A.x, p) = E!Affine(X, Y)
      BY <1>1, <2>1, <2>9, <2>10, ThirdUnique
    <3> QED BY <1>1, <3>1
  <2> QED BY <1>2, <1>3, <2>3, <2>11
<1> QED BY <1>5, <1>6

\* zzp_point_add takes the slope from its first point to its second: the sum is
\* the same from either end.
THEOREM AddCommutes ==
  ASSUME NEW p \in Nat, Prime(p),
         NEW A \in AffinePoints(p) \cup {E!Lost}, NEW B \in AffinePoints(p) \cup {E!Lost}
  PROVE  E!zzp_point_add(A, B, p) = E!zzp_point_add(B, A, p)
<1>1. CASE E!Lost \in {A, B}
  BY <1>1 DEF E!zzp_point_add
<1>2. CASE E!Lost \notin {A, B}
  BY <1>2, AddCommutesCase
<1> QED BY <1>1, <1>2
-----------------------------------------------------------------------------
(***************************************************************************)
(* Projective coordinates.                                                 *)
(***************************************************************************)
ProjPoints(p) == [x : Fp(p), y : Fp(p), z : Fp(p)]

\* (x, y) is the point that (X, Y, Z) stands for.
StandsFor(X, Y, Z, x, y, p) == Same(x * Z * Z, X, p) /\ Same(y * Z * Z * Z, Y, p)

LEMMA ZeroOrNot ==
  ASSUME NEW p \in Nat, NEW z \in Fp(p)
  PROVE  Same(z, 0, p) <=> z = 0
<1>1. z \in 0 .. p - 1 /\ 0 \in 0 .. p - 1 /\ z \in Int /\ p \in Int
  BY DEF Fp
<1> QED BY <1>1, SameSmall, SameRefl

LEMMA ModZero ==
  ASSUME NEW p \in Nat, p > 0, NEW a \in Int
  PROVE  a % p = 0 <=> Same(a, 0, p)
<1>1. 0 % p = 0 /\ 0 \in Int
  OBVIOUS
<1> QED BY <1>1, ModSameIff

LEMMA UnprojPoint ==
  ASSUME NEW p \in Nat, Prime(p), NEW R \in ProjPoints(p), R.z # 0
  PROVE  \E x \in Fp(p), y \in Fp(p) :
           E!Unproj(R, p) = E!Affine(x, y) /\ StandsFor(R.x, R.y, R.z, x, y, p)
<1> DEFINE X == R.x
           Y == R.y
           Z == R.z
           i == E!zp_inv(Z, p)
           j == (i * i) % p
           k == (j * i) % p
           x == (X * j) % p
           y == (Y * k) % p
<1>p. p > 0 /\ p \in Int
  BY DEF Prime
<1>0. X \in Int /\ Y \in Int /\ Z \in Int /\ Z \in Fp(p)
  BY DEF ProjPoints, Fp
<1>1. i \in Int /\ Same(Z * i, 1, p)
  <2>1. ~ Same(Z, 0, p)
    BY <1>0, ZeroOrNot
  <2> HIDE DEF Z
  <2> QED BY <1>0, <2>1, ZpInverse
<1> HIDE DEF i, X, Y, Z
<1>2. j \in Int /\ Same(j, i * i, p) /\ i * i \in Int
  <2> DEFINE m == i * i
  <2>1. m \in Int
    BY <1>1
  <2> HIDE DEF m
  <2> QED BY <1>p, <2>1, IntMod, SameMod DEF m
<1> HIDE DEF j
<1>3. k \in Int /\ Same(k, j * i, p) /\ j * i \in Int
  <2> DEFINE m == j * i
  <2>1. m \in Int
    BY <1>1, <1>2
  <2> HIDE DEF m
  <2> QED BY <1>p, <2>1, IntMod, SameMod DEF m
<1> HIDE DEF k
<1>4. x \in Fp(p) /\ x \in Int /\ Same(x, X * j, p) /\ X * j \in Int
  <2> DEFINE m == X * j
  <2>1. m \in Int
    BY <1>0, <1>2
  <2> HIDE DEF m
  <2> QED BY <1>p, <2>1, IntMod, SameMod DEF m
<1>5. y \in Fp(p) /\ y \in Int /\ Same(y, Y * k, p) /\ Y * k \in Int
  <2> DEFINE m == Y * k
  <2>1. m \in Int
    BY <1>0, <1>3
  <2> HIDE DEF m
  <2> QED BY <1>p, <2>1, IntMod, SameMod DEF m
<1> HIDE DEF x, y
<1> DEFINE z1 == Z * i - 1
           z2 == j - i * i
           z3 == k - j * i
           z4 == x - X * j
           z5 == y - Y * k
           e  == x * Z * Z - X
           f  == y * Z * Z * Z - Y
<1>6. /\ z1 \in Int /\ z2 \in Int /\ z3 \in Int /\ z4 \in Int /\ z5 \in Int /\ e \in Int /\ f \in Int
      /\ Z * i \in Int
  BY <1>0, <1>1, <1>2, <1>3, <1>4, <1>5
<1>7. Same(z1, 0, p) /\ Same(z2, 0, p) /\ Same(z3, 0, p) /\ Same(z4, 0, p) /\ Same(z5, 0, p)
  BY <1>p, <1>0, <1>1, <1>2, <1>3, <1>4, <1>5, <1>6, SameZero
<1>8. Same(e, 0, p)
  \* x Z Z = X j Z Z = X i i Z Z = X
  <2> DEFINE c1 == X * (Z * i + 1)
             c2 == X * Z * Z
             c4 == Z * Z
  <2>1. c1 \in Int /\ c2 \in Int /\ c4 \in Int /\ 0 \in Int
    BY <1>0, <1>1
  <2>2. Combination4(e, c1, z1, c2, z2, c4, z4, 0, z1)
    BY <1>0, <1>1, <1>2, <1>4 DEF Combination4
  <2> HIDE DEF e, z1, z2, z3, z4, z5, c1, c2, c4
  <2> QED BY <1>p, <1>6, <1>7, <2>1, <2>2, Combined4
<1>9. Same(f, 0, p)
  <2> DEFINE q  == Z * i
             c1 == Y * (q * q + q + 1)
             c2 == Y * i * Z * Z * Z
             c3 == Y * Z * Z * Z
             c5 == Z * Z * Z
  <2>1. c1 \in Int /\ c2 \in Int /\ c3 \in Int /\ c5 \in Int
    BY <1>0, <1>1
  <2>2. Combination4(f, c1, z1, c2, z2, c3, z3, c5, z5)
    BY <1>0, <1>1, <1>2, <1>3, <1>5 DEF Combination4
  <2> HIDE DEF f, z1, z2, z3, z4, z5, c1, c2, c3, c5
  <2> QED BY <1>p, <1>6, <1>7, <2>1, <2>2, Combined4
<1>10. StandsFor(X, Y, Z, x, y, p)
  <2>1. x * Z * Z \in Int /\ y * Z * Z * Z \in Int
    BY <1>0, <1>4, <1>5
  <2> QED BY <1>p, <1>0, <1>8, <1>9, <2>1, SameZero DEF StandsFor
<1>11. E!Unproj(R, p) = E!Affine(x, y)
  BY DEF E!Unproj, x, y, k, j, i, X, Y, Z
<1> QED BY <1>4, <1>5, <1>10, <1>11 DEF X, Y, Z

\* The same from below: nothing else is the point.
LEMMA UnprojUnique ==
  ASSUME NEW p \in Nat, NEW R \in ProjPoints(p), NEW x \in Fp(p), NEW y \in Fp(p),
         Prime(p), R.z # 0, StandsFor(R.x, R.y, R.z, x, y, p)
  PROVE  E!Unproj(R, p) = E!Affine(x, y)
<1>1. PICK v \in Fp(p), w \in Fp(p) :
        E!Unproj(R, p) = E!Affine(v, w) /\ StandsFor(R.x, R.y, R.z, v, w, p)
  BY UnprojPoint
<1> DEFINE Z == R.z
           e == x - v
           f == y - w
           z1 == x * Z * Z - R.x
           z2 == v * Z * Z - R.x
           z3 == y * Z * Z * Z - R.y
           z4 == w * Z * Z * Z - R.y
<1>p. p \in Int
  OBVIOUS
<1>2. /\ Z \in Int /\ R.x \in Int /\ R.y \in Int /\ Z \in Fp(p) /\ x \in Int /\ y \in Int /\ v \in Int /\ w \in Int
  BY DEF ProjPoints, Fp
<1>3. /\ z1 \in Int /\ z2 \in Int /\ z3 \in Int /\ z4 \in Int /\ e \in Int /\ f \in Int
      /\ x * Z * Z \in Int /\ v * Z * Z \in Int /\ y * Z * Z * Z \in Int /\ w * Z * Z * Z \in Int
  BY <1>2
<1>4. Same(z1, 0, p) /\ Same(z2, 0, p) /\ Same(z3, 0, p) /\ Same(z4, 0, p)
  BY <1>p, <1>1, <1>2, <1>3, SameZero DEF StandsFor
<1>5. z1 - z2 = Z * (Z * e) /\ z3 - z4 = Z * (Z * (Z * f))
  <2> HIDE DEF Z
  <2> QED BY <1>2
<1>6. Same(z1 - z2, 0, p) /\ Same(z3 - z4, 0, p)
  <2> HIDE DEF z1, z2, z3, z4
  <2> QED BY <1>p, <1>3, <1>4, ZeroPlus
<1>7. ~ Same(Z, 0, p)
  BY <1>2, ZeroOrNot
<1>8. Same(e, 0, p)
  <2>1. Same(Z * (Z * e), 0, p)
    BY <1>5, <1>6
  <2> HIDE DEF Z, e
  <2>2. Z * e \in Int
    BY <1>2, <1>3
  <2>3. Same(Z * e, 0, p)
    BY <1>2, <1>7, <2>1, <2>2, CancelFactor
  <2> QED BY <1>2, <1>3, <1>7, <2>3, CancelFactor
<1>9. Same(f, 0, p)
  <2>1. Same(Z * (Z * (Z * f)), 0, p)
    BY <1>5, <1>6
  <2> HIDE DEF Z, f
  <2>2. Z * f \in Int /\ Z * (Z * f) \in Int
    BY <1>2, <1>3
  <2>3. Same(Z * (Z * f), 0, p)
    BY <1>2, <1>7, <2>1, <2>2, CancelFactor
  <2>4. Same(Z * f, 0, p)
    BY <1>2, <1>7, <2>2, <2>3, CancelFactor
  <2> QED BY <1>2, <1>3, <1>7, <2>4, CancelFactor
<1>10. x = v /\ y = w
  <2>1. Same(x, v, p) /\ Same(y, w, p)
    BY <1>p, <1>2, <1>8, <1>9, SameZero
  <2> QED BY <2>1, SameSmall DEF Fp
<1> QED BY <1>1, <1>10

LEMMA UnprojLost == ASSUME NEW p \in Nat, NEW R, R.z = 0 PROVE E!Unproj(R, p) = E!Lost
BY DEF E!Unproj
-----------------------------------------------------------------------------
\* A value of the model that is reduced at once.
LEMMA Reduced ==
  ASSUME NEW p \in Nat, NEW a \in Int, p > 0
  PROVE  a % p \in Int /\ a % p \in Fp(p) /\ Same((a % p) - a, 0, p)
<1>1. a % p \in Int /\ a % p \in Fp(p) /\ Same(a % p, a, p)
  BY IntMod, SameMod
<1> DEFINE r == a % p
<1> HIDE DEF r
<1>2. r \in Int /\ Same(r, a, p) /\ p \in Int
  BY <1>1 DEF r
<1>3. Same(r - a, 0, p)
  BY <1>2, SameZero
<1> QED BY <1>1, <1>3 DEF r

(***************************************************************************)
(* Doubling: with w = 2 y z^4 the new z is w, x w^2 and y w^3 the new x    *)
(* and y, for the x and y of the affine formula.                           *)
(***************************************************************************)
DoubleRound(X, Y, z, p, t1, t5, t2, X2, Y2, Z2) ==
  /\ Same(t1 - 3 * X * X, 0, p) /\ Same(t5 - Y * Y, 0, p) /\ Same(t2 - 4 * t5 * X, 0, p)
  /\ Same(X2 - (t1 * t1 - 2 * t2), 0, p)
  /\ Same(Y2 - ((t2 - X2) * t1 - 8 * t5 * t5), 0, p)
  /\ Same(Z2 - 2 * Y * z, 0, p)

LEMMA DoubleAlgebra ==
  ASSUME NEW p \in Int, NEW X \in Int, NEW Y \in Int, NEW z \in Int,
         NEW t1 \in Int, NEW t5 \in Int, NEW t2 \in Int, NEW X2 \in Int, NEW Y2 \in Int, NEW Z2 \in Int,
         NEW x \in Int, NEW y \in Int, NEW s \in Int, NEW x2 \in Int, NEW y2 \in Int,
         DoubleRound(X, Y, z, p, t1, t5, t2, X2, Y2, Z2),
         StandsFor(X, Y, z, x, y, p),
         Same(s * (2 * y) - 3 * x * x, 0, p), IsThird(x2, y2, s, x, y, x, p)
  PROVE  StandsFor(X2, Y2, Z2, x2, y2, p)
<1> DEFINE a1 == x * z * z - X
           a2 == y * z * z * z - Y
           a3 == s * (2 * y) - 3 * x * x
           a4 == x2 - (s * s - x - x)
           a5 == y2 - ((x - x2) * s - y)
           b1 == t1 - 3 * X * X
           b2 == t5 - Y * Y
           b3 == t2 - 4 * t5 * X
           b4 == X2 - (t1 * t1 - 2 * t2)
           b5 == Y2 - ((t2 - X2) * t1 - 8 * t5 * t5)
           b6 == Z2 - 2 * Y * z
           v  == z * z * z * z
           w  == 2 * y * v
           d1 == t1 - s * w
           d5 == t5 - y * y * z * z * v
           d2 == t2 - x * w * w
           d6 == Z2 - w
           d4 == X2 - x2 * w * w
           d3 == Y2 - y2 * w * w * w
<1>1. /\ a1 \in Int /\ a2 \in Int /\ a3 \in Int /\ a4 \in Int /\ a5 \in Int
      /\ b1 \in Int /\ b2 \in Int /\ b3 \in Int /\ b4 \in Int /\ b5 \in Int /\ b6 \in Int
  OBVIOUS
<1>2. v \in Int /\ w \in Int
  OBVIOUS
<1>3. d1 \in Int /\ d5 \in Int /\ d2 \in Int /\ d6 \in Int /\ d4 \in Int /\ d3 \in Int
  <2> HIDE DEF v, w
  <2> QED BY <1>2
<1>4. Same(a1, 0, p) /\ Same(a2, 0, p)
  <2>1. x * z * z \in Int /\ y * z * z * z \in Int
    OBVIOUS
  <2> QED BY <2>1, SameZero DEF StandsFor
<1>5. Same(a3, 0, p) /\ Same(a4, 0, p) /\ Same(a5, 0, p)
  <2>1. s * s - x - x \in Int /\ (x - x2) * s - y \in Int
    OBVIOUS
  <2> QED BY <2>1, SameZero DEF IsThird
<1>6. Same(b1, 0, p) /\ Same(b2, 0, p) /\ Same(b3, 0, p) /\ Same(b4, 0, p) /\ Same(b5, 0, p) /\ Same(b6, 0, p)
  BY DEF DoubleRound
\* t1 = 3 X^2 = 3 x^2 z^4 = s w
<1>7. Same(d1, 0, p)
  <2> DEFINE c2 == (-3) * (X + x * z * z)
             c3 == -v
  <2>1. c2 \in Int /\ c3 \in Int /\ 0 \in Int /\ 1 \in Int
    BY <1>2
  <2>2. Combination4(d1, 1, b1, c2, a1, c3, a3, 0, a1)
    BY DEF Combination4
  <2> HIDE DEF d1, b1, a1, a3, c2, c3
  <2> QED BY <1>1, <1>3, <1>4, <1>5, <1>6, <2>1, <2>2, Combined4
<1>8. Same(d5, 0, p)
  <2> DEFINE c2 == -(Y + y * z * z * z)
  <2>1. c2 \in Int /\ 1 \in Int
    OBVIOUS
  <2>2. Combination(d5, 1, b2, c2, a2)
    BY DEF Combination
  <2> HIDE DEF d5, b2, a2, c2
  <2> QED BY <1>1, <1>3, <1>4, <1>6, <2>1, <2>2, Combined
\* t2 = 4 Y^2 X = x w^2
<1>9. Same(d2, 0, p)
  <2> DEFINE c2 == (-4) * t5
             c3 == 4 * x * z * z
  <2>1. c2 \in Int /\ c3 \in Int /\ 0 \in Int /\ 1 \in Int
    OBVIOUS
  <2>2. Combination4(d2, 1, b3, c2, a1, c3, d5, 0, a1)
    BY DEF Combination4
  <2> HIDE DEF d2, b3, a1, d5, c2, c3
  <2> QED BY <1>1, <1>3, <1>4, <1>6, <1>8, <2>1, <2>2, Combined4
<1>10. Same(d6, 0, p)
  <2> DEFINE c2 == (-2) * z
  <2>1. c2 \in Int /\ 1 \in Int
    OBVIOUS
  <2>2. Combination(d6, 1, b6, c2, a2)
    BY DEF Combination
  <2> HIDE DEF d6, b6, a2, c2
  <2> QED BY <1>1, <1>3, <1>4, <1>6, <2>1, <2>2, Combined
\* X2 = t1^2 - 2 t2 = (s^2 - 2 x) w^2 = x2 w^2
<1>11. Same(d4, 0, p)
  <2> DEFINE c2 == t1 + s * w
             c4 == -(w * w)
  <2>1. c2 \in Int /\ c4 \in Int /\ 1 \in Int /\ -2 \in Int
    <3> HIDE DEF w
    <3> QED BY <1>2
  <2>2. Combination4(d4, 1, b4, c2, d1, -2, d2, c4, a4)
    <3> HIDE DEF w
    <3> QED BY <1>2 DEF Combination4
  <2> HIDE DEF d4, b4, d1, d2, a4, c2, c4
  <2> QED BY <1>1, <1>3, <1>5, <1>6, <1>7, <1>9, <2>1, <2>2, Combined4
\* Y2 = (t2 - X2) t1 - 8 t5^2 = (x - x2) w^2 s w - y w^3 = y2 w^3
<1>12. Same(d3, 0, p)
  <2> DEFINE e1 == (t2 - X2) * t1 - (x - x2) * s * w * w * w
             e2 == 8 * t5 * t5 - y * w * w * w
             e3 == e1 - e2
             c1 == (x - x2) * w * w
             c2 == -t1
             c3 == 8 * (t5 + y * y * z * z * v)
             c4 == -(w * w * w)
  <2>1. e1 \in Int /\ e2 \in Int /\ c1 \in Int /\ c2 \in Int /\ c4 \in Int /\ 1 \in Int /\ 0 \in Int
    <3> HIDE DEF w
    <3> QED BY <1>2
  <2>2. c3 \in Int
    <3> HIDE DEF v
    <3> QED BY <1>2
  <2>3. Combination4(e1, t1, d2, c2, d4, c1, d1, 0, d1)
    <3> HIDE DEF w
    <3> QED BY <1>2 DEF Combination4
  <2>4. Combination(e2, c3, d5, 0, d5)
    BY DEF Combination
  <2>5. Same(e1, 0, p) /\ Same(e2, 0, p)
    <3> HIDE DEF e1, e2, d1, d2, d4, d5, c1, c2, c3
    <3> QED BY <1>3, <1>7, <1>8, <1>9, <1>11, <2>1, <2>2, <2>3, <2>4, Combined4, Combined
  <2>6. Combination4(d3, 1, b5, 1, e1, -1, e2, c4, a5)
    <3> HIDE DEF w
    <3> QED BY <1>2 DEF Combination4
  <2>7. -1 \in Int
    OBVIOUS
  <2> HIDE DEF d3, b5, e1, e2, a5, c4
  <2> QED BY <1>1, <1>3, <1>5, <1>6, <2>1, <2>5, <2>6, <2>7, Combined4
<1>13. Same(x2 * Z2 * Z2, X2, p)
  <2> DEFINE e == x2 * Z2 * Z2 - X2
             c1 == x2 * (Z2 + w)
  <2>1. e \in Int /\ c1 \in Int /\ -1 \in Int /\ x2 * Z2 * Z2 \in Int
    <3> HIDE DEF w
    <3> QED BY <1>2
  <2>2. Combination(e, c1, d6, -1, d4)
    <3> HIDE DEF w
    <3> QED BY <1>2 DEF Combination
  <2>3. Same(e, 0, p)
    <3> HIDE DEF e, d6, d4, c1
    <3> QED BY <1>3, <1>10, <1>11, <2>1, <2>2, Combined
  <2> QED BY <2>1, <2>3, SameZero
<1>14. Same(y2 * Z2 * Z2 * Z2, Y2, p)
  <2> DEFINE e == y2 * Z2 * Z2 * Z2 - Y2
             c1 == y2 * (Z2 * Z2 + Z2 * w + w * w)
  <2>1. e \in Int /\ c1 \in Int /\ -1 \in Int /\ y2 * Z2 * Z2 * Z2 \in Int
    <3> HIDE DEF w
    <3> QED BY <1>2
  <2>2. Combination(e, c1, d6, -1, d3)
    <3> HIDE DEF w
    <3> QED BY <1>2 DEF Combination
  <2>3. Same(e, 0, p)
    <3> HIDE DEF e, d6, d3, c1
    <3> QED BY <1>3, <1>10, <1>12, <2>1, <2>2, Combined
  <2> QED BY <2>1, <2>3, SameZero
<1> QED BY <1>13, <1>14 DEF StandsFor

\* What proj_double computes, step by step.
DoubledFrom(R, t1, t5, t2, D, p) ==
  /\ D \in ProjPoints(p) /\ D = E!proj_double(R, p)
  /\ DoubleRound(R.x, R.y, R.z, p, t1, t5, t2, D.x, D.y, D.z)

LEMMA DoubledValues ==
  ASSUME NEW p \in Nat, Prime(p), NEW R \in ProjPoints(p)
  PROVE  \E t1 \in Int, t5 \in Int, t2 \in Int, D \in ProjPoints(p) : DoubledFrom(R, t1, t5, t2, D, p)
<1> DEFINE X == R.x
           Y == R.y
           z == R.z
           m1 == 3 * X * X
           t1 == m1 % p
           m5 == Y * Y
           t5 == m5 % p
           m2 == 4 * t5 * X
           t2 == m2 % p
           mx == t1 * t1 - 2 * t2
           X2 == mx % p
           my == (t2 - X2) * t1 - 8 * t5 * t5
           Y2 == my % p
           mz == 2 * Y * z
           Z2 == mz % p
           D  == [x |-> X2, y |-> Y2, z |-> Z2]
<1>p. p > 0 /\ p \in Int
  BY DEF Prime
<1>1. X \in Int /\ Y \in Int /\ z \in Int
  BY DEF ProjPoints, Fp
<1> HIDE DEF X, Y, z
<1>2. t1 \in Int /\ Same(t1 - m1, 0, p)
  <2>1. m1 \in Int
    BY <1>1
  <2> HIDE DEF m1
  <2> QED BY <1>p, <2>1, Reduced
<1>3. t5 \in Int /\ Same(t5 - m5, 0, p)
  <2>1. m5 \in Int
    BY <1>1
  <2> HIDE DEF m5
  <2> QED BY <1>p, <2>1, Reduced
<1> HIDE DEF t1, t5
<1>4. t2 \in Int /\ Same(t2 - m2, 0, p)
  <2>1. m2 \in Int
    BY <1>1, <1>3
  <2> HIDE DEF m2
  <2> QED BY <1>p, <2>1, Reduced
<1> HIDE DEF t2
<1>5. X2 \in Int /\ X2 \in Fp(p) /\ Same(X2 - mx, 0, p)
  <2>1. mx \in Int
    BY <1>2, <1>4
  <2> HIDE DEF mx
  <2> QED BY <1>p, <2>1, Reduced
<1> HIDE DEF X2
<1>6. Y2 \in Fp(p) /\ Same(Y2 - my, 0, p)
  <2>1. my \in Int
    BY <1>2, <1>3, <1>4, <1>5
  <2> HIDE DEF my
  <2> QED BY <1>p, <2>1, Reduced
<1> HIDE DEF Y2
<1>7. Z2 \in Fp(p) /\ Same(Z2 - mz, 0, p)
  <2>1. mz \in Int
    BY <1>1
  <2> HIDE DEF mz
  <2> QED BY <1>p, <2>1, Reduced
<1> HIDE DEF Z2
<1>8. D \in ProjPoints(p) /\ D.x = X2 /\ D.y = Y2 /\ D.z = Z2
  BY <1>5, <1>6, <1>7 DEF ProjPoints
<1>9. D = E!proj_double(R, p)
  BY DEF E!proj_double, X, Y, z, t1, t5, t2, X2, Y2, Z2
<1>10. DoubleRound(X, Y, z, p, t1, t5, t2, X2, Y2, Z2)
  BY <1>2, <1>3, <1>4, <1>5, <1>6, <1>7 DEF DoubleRound
<1>11. DoubledFrom(R, t1, t5, t2, D, p)
  <2> HIDE DEF D
  <2>1. DoubleRound(R.x, R.y, R.z, p, t1, t5, t2, D.x, D.y, D.z)
    BY <1>8, <1>10 DEF X, Y, z
  <2> QED BY <1>8, <1>9, <2>1 DEF DoubledFrom
<1> HIDE DEF D
<1> QED BY <1>2, <1>3, <1>4, <1>8, <1>11

(***************************************************************************)
(* proj_double doubles the point that its argument stands for, and loses   *)
(* it exactly where zzp_point_double does.                                 *)
(***************************************************************************)
THEOREM ProjDoubleIsDouble ==
  ASSUME NEW p \in Nat, Prime(p), NEW R \in ProjPoints(p)
  PROVE  /\ E!proj_double(R, p) \in ProjPoints(p)
         /\ E!Unproj(E!proj_double(R, p), p) = E!zzp_point_double(E!Unproj(R, p), p)
<1>1. PICK t1 \in Int, t5 \in Int, t2 \in Int, D \in ProjPoints(p) : DoubledFrom(R, t1, t5, t2, D, p)
  BY DoubledValues
<1>2. /\ D = E!proj_double(R, p)
      /\ DoubleRound(R.x, R.y, R.z, p, t1, t5, t2, D.x, D.y, D.z)
  BY <1>1 DEF DoubledFrom
<1>p. p > 0 /\ p \in Int
  BY DEF Prime
<1>3. /\ R.x \in Int /\ R.y \in Int /\ R.z \in Int /\ R.z \in Fp(p)
      /\ D.x \in Int /\ D.y \in Int /\ D.z \in Int /\ D.z \in Fp(p)
  BY DEF ProjPoints, Fp
\* The new z is 2 y z.
<1>4. Same(D.z - 2 * R.y * R.z, 0, p) /\ 2 * R.y * R.z \in Int
  BY <1>2, <1>3 DEF DoubleRound
<1>5. CASE R.z = 0
  <2>1. D.z - 2 * R.y * R.z = D.z
    BY <1>3, <1>5
  <2>2. D.z = 0
    BY <1>3, <1>4, <2>1, ZeroOrNot
  <2>3. E!Unproj(D, p) = E!Lost /\ E!Unproj(R, p) = E!Lost
    BY <1>5, <2>2, UnprojLost
  <2> QED BY <1>2, <2>3 DEF E!zzp_point_double
<1>6. CASE R.z # 0
  <2>1. PICK x \in Fp(p), y \in Fp(p) :
          E!Unproj(R, p) = E!Affine(x, y) /\ StandsFor(R.x, R.y, R.z, x, y, p)
    BY <1>6, UnprojPoint
  <2> DEFINE A == E!Affine(x, y)
             m == 3 * x * x
             n == m % p
             d == 2 * y
             S == E!zzp_point_double(A, p)
  <2>2. /\ x \in Int /\ y \in Int /\ A \in AffinePoints(p) /\ A.x = x /\ A.y = y
        /\ A # E!Lost /\ m \in Int /\ d \in Int
    BY FpInt, PointFrom, PointOf2
  <2>3. n \in Int /\ Same(n, m, p)
    <3> HIDE DEF m
    <3> QED BY <1>p, <2>2, IntMod, SameMod
  <2>4. S = E!ZzThird(n, d, A, x, p)
    BY <2>2 DEF E!zzp_point_double
  <2>5. ~ Same(R.z, 0, p)
    BY <1>3, <1>6, ZeroOrNot
  \* y z^3 is Y: 2 Y z is 0 if and only if 2 y is.
  <2> DEFINE z  == R.z
             a2 == y * z * z * z - R.y
             g  == z * (z * (z * (z * d)))
  <2>6. z \in Int /\ g \in Int /\ a2 \in Int /\ y * z * z * z \in Int
    BY <1>3, <2>2
  <2>7. Same(a2, 0, p)
    BY <1>p, <1>3, <2>1, <2>6, SameZero DEF StandsFor
  <2>8. Same(D.z - g, 0, p)
    <3> DEFINE e  == D.z - g
               b  == D.z - 2 * R.y * R.z
               c2 == (-2) * z
    <3>1. e \in Int /\ b \in Int /\ c2 \in Int /\ 1 \in Int
      BY <1>3, <2>6
    <3>2. Combination(e, 1, b, c2, a2)
      BY <1>3, <2>2 DEF Combination
    <3> HIDE DEF e, b, c2, a2
    <3>3. Same(b, 0, p)
      BY <1>4 DEF b
    <3>4. Same(e, 0, p)
      BY <1>p, <2>6, <2>7, <3>1, <3>2, <3>3, Combined
    <3> QED BY <3>4 DEF e
  <2>9. CASE Same(d, 0, p)
    <3> HIDE DEF z, d, n
    <3>1. z * d \in Int /\ z * (z * d) \in Int /\ z * (z * (z * d)) \in Int
      BY <2>2, <2>6
    <3>2. Same(z * d, 0, p)
      BY <1>p, <2>2, <2>6, <2>9, ZeroTimes
    <3>3. Same(z * (z * d), 0, p)
      BY <1>p, <2>6, <3>1, <3>2, ZeroTimes
    <3>4. Same(z * (z * (z * d)), 0, p)
      BY <1>p, <2>6, <3>1, <3>3, ZeroTimes
    <3>5. Same(g, 0, p)
      BY <1>p, <2>6, <3>1, <3>4, ZeroTimes
    <3>6. D.z - g \in Int /\ D.z = (D.z - g) + g
      <4> HIDE DEF g
      <4> QED BY <1>3, <2>6
    <3>7. Same((D.z - g) + g, 0, p)
      <4> HIDE DEF g
      <4> QED BY <1>p, <2>6, <2>8, <3>5, <3>6, ZeroPlus
    <3>8. D.z = 0
      BY <1>3, <3>6, <3>7, ZeroOrNot
    <3>9. E!Unproj(D, p) = E!Lost
      BY <3>8, UnprojLost
    <3>10. S = E!Lost
      BY <2>2, <2>3, <2>4, <2>9, ThirdLost
    <3> QED BY <1>2, <2>1, <3>9, <3>10
  <2>10. CASE ~ Same(d, 0, p)
    <3>1. PICK s \in Int, x2 \in Fp(p), y2 \in Fp(p) : MadeBy(s, x2, y2, n, d, x, y, x, p)
      <4> HIDE DEF n, d
      <4> QED BY <2>2, <2>3, <2>10, ThirdPoint
    <3>2. S = E!Affine(x2, y2) /\ Same(s * d, n, p) /\ IsThird(x2, y2, s, x, y, x, p)
      BY <2>4, <3>1 DEF MadeBy
    <3>3. x2 \in Int /\ y2 \in Int /\ s * d \in Int
      BY <2>2, FpInt
    <3>4. Same(s * (2 * y) - 3 * x * x, 0, p)
      <4> HIDE DEF n, d, m
      <4>1. Same(s * d, m, p)
        BY <1>p, <2>2, <2>3, <3>2, <3>3, SameTrans
      <4>2. Same(s * d - m, 0, p)
        BY <1>p, <2>2, <3>3, <4>1, SameZero
      <4> QED BY <4>2 DEF d, m
    <3>5. StandsFor(D.x, D.y, D.z, x2, y2, p)
      BY <1>p, <1>2, <1>3, <2>1, <2>2, <3>2, <3>3, <3>4, DoubleAlgebra
    <3>6. D.z # 0
      <4>1. SUFFICES ASSUME D.z = 0 PROVE FALSE
        OBVIOUS
      <4>2. D.z - g = (-1) * g /\ g = (-1) * (D.z - g) /\ D.z - g \in Int
        <5> HIDE DEF g
        <5> QED BY <2>6, <4>1
      <4>3. Same((-1) * (D.z - g), 0, p)
        <5> DEFINE h == D.z - g
        <5> HIDE DEF h
        <5>1. h \in Int /\ Same(h, 0, p) /\ -1 \in Int
          BY <2>8, <4>2 DEF h
        <5>2. Same((-1) * h, 0, p)
          BY <1>p, <5>1, ZeroTimes
        <5> QED BY <5>2 DEF h
      <4>4. Same(g, 0, p)
        BY <4>2, <4>3
      <4> HIDE DEF z, d
      <4>5. z * d \in Int /\ z * (z * d) \in Int /\ z * (z * (z * d)) \in Int
        BY <2>2, <2>6
      <4>6. ~ Same(z, 0, p)
        BY <2>5 DEF z
      <4>7. Same(z * (z * (z * d)), 0, p)
        BY <2>6, <4>4, <4>5, <4>6, CancelFactor
      <4>8. Same(z * (z * d), 0, p)
        BY <2>6, <4>5, <4>6, <4>7, CancelFactor
      <4>9. Same(z * d, 0, p)
        BY <2>6, <4>5, <4>6, <4>8, CancelFactor
      <4>10. Same(d, 0, p)
        BY <2>2, <2>6, <4>6, <4>9, CancelFactor
      <4> QED BY <2>10, <4>10
    <3>7. E!Unproj(D, p) = E!Affine(x2, y2)
      BY <3>5, <3>6, UnprojUnique
    <3> QED BY <1>2, <2>1, <3>2, <3>7
  <2> QED BY <2>9, <2>10
<1> QED BY <1>1, <1>2, <1>5, <1>6

(***************************************************************************)
(* Adding (a, b): with w = (x - a) z^3 the new z is w, and x' w^2, y' w^3  *)
(* are the new x and y, for the x' and y' of the affine formula.           *)
(***************************************************************************)
MixRound(X, Y, z, a, b, p, zz, l2, t, l5, m3, X3, l9, m8, h, Y3, Zn) ==
  /\ Same(zz - z * z, 0, p)
  /\ Same(l2 - zz * a, 0, p)
  /\ Same(t - zz * z, 0, p)
  /\ Same(l5 - t * b, 0, p)
  /\ Same(m3 - (X - l2) * (X - l2), 0, p)
  /\ Same(X3 - ((Y - l5) * (Y - l5) - m3 * (X + l2)), 0, p)
  /\ Same(l9 - ((X + l2) * m3 - 2 * X3), 0, p)
  /\ Same(m8 - (Y + l5) * m3, 0, p)
  /\ Same(h - (l9 * (Y - l5) - m8 * (X - l2)), 0, p)
  /\ Same(2 * Y3 - h, 0, p)
  /\ Same(Zn - z * (X - l2), 0, p)

LEMMA MixAlgebra ==
  ASSUME NEW p \in Nat, NEW X \in Int, NEW Y \in Int, NEW z \in Int, NEW a \in Int, NEW b \in Int,
         NEW zz \in Int, NEW l2 \in Int, NEW t \in Int, NEW l5 \in Int, NEW m3 \in Int, NEW X3 \in Int,
         NEW l9 \in Int, NEW m8 \in Int, NEW h \in Int, NEW Y3 \in Int, NEW Zn \in Int,
         NEW x \in Int, NEW y \in Int, NEW s \in Int, NEW x3 \in Int, NEW y3 \in Int,
         Prime(p), p > 2, MixRound(X, Y, z, a, b, p, zz, l2, t, l5, m3, X3, l9, m8, h, Y3, Zn),
         StandsFor(X, Y, z, x, y, p),
         Same(s * (a - x) - (b - y), 0, p), IsThird(x3, y3, s, x, y, a, p)
  PROVE  StandsFor(X3, Y3, Zn, x3, y3, p)
<1> DEFINE a1  == x * z * z - X
           a2  == y * z * z * z - Y
           a3  == s * (a - x) - (b - y)
           a4  == x3 - (s * s - x - a)
           a5  == y3 - ((x - x3) * s - y)
           b1  == zz - z * z
           b2  == l2 - zz * a
           b3  == t - zz * z
           b4  == l5 - t * b
           b5  == m3 - (X - l2) * (X - l2)
           b6  == X3 - ((Y - l5) * (Y - l5) - m3 * (X + l2))
           b7  == l9 - ((X + l2) * m3 - 2 * X3)
           b8  == m8 - (Y + l5) * m3
           b9  == h - (l9 * (Y - l5) - m8 * (X - l2))
           b10 == 2 * Y3 - h
           b11 == Zn - z * (X - l2)
           f   == (x - a) * z * z
           w   == f * z
           q   == x + a - 2 * x3
<1> DEFINE k2  == l2 - a * z * z
           k1  == t - z * z * z
           k5  == l5 - b * z * z * z
           k3  == (X - l2) - f
           k6  == (Y - l5) - s * w
           k7  == (X + l2) - (x + a) * z * z
           k8  == (Y + l5) - (y + b) * z * z * z
           k9  == m3 - f * f
           k10 == m3 * (X + l2) - (x + a) * w * w
           k11 == X3 - x3 * w * w
           k12 == l9 - q * w * w
           k13 == l9 * (Y - l5) - q * s * w * w * w
           k14 == m8 - (y + b) * z * z * z * f * f
           k15 == m8 * (X - l2) - (y + b) * w * w * w
           k16 == (l9 * (Y - l5) - m8 * (X - l2)) - 2 * y3 * w * w * w
           k17 == 2 * (Y3 - y3 * w * w * w)
           k18 == Zn - w
<1>p. p \in Int /\ 0 \in Int /\ 1 \in Int /\ -1 \in Int /\ -2 \in Int
  OBVIOUS
<1>1. f \in Int /\ w \in Int /\ q \in Int /\ z * z * z \in Int
  OBVIOUS
<1>2. a1 \in Int /\ a2 \in Int /\ a3 \in Int /\ a4 \in Int /\ a5 \in Int
  OBVIOUS
<1>3. /\ b1 \in Int /\ b2 \in Int /\ b3 \in Int /\ b4 \in Int /\ b5 \in Int /\ b6 \in Int
      /\ b7 \in Int /\ b8 \in Int /\ b9 \in Int /\ b10 \in Int /\ b11 \in Int
  OBVIOUS
<1>4. Same(a1, 0, p) /\ Same(a2, 0, p) /\ Same(a3, 0, p)
  <2>1. x * z * z \in Int /\ y * z * z * z \in Int
    OBVIOUS
  <2> QED BY <2>1, SameZero DEF StandsFor
<1>5. Same(a4, 0, p) /\ Same(a5, 0, p)
  <2>1. s * s - x - a \in Int /\ (x - x3) * s - y \in Int
    OBVIOUS
  <2> QED BY <2>1, SameZero DEF IsThird
<1>6. /\ Same(b1, 0, p) /\ Same(b2, 0, p) /\ Same(b3, 0, p) /\ Same(b4, 0, p) /\ Same(b5, 0, p) /\ Same(b6, 0, p)
      /\ Same(b7, 0, p) /\ Same(b8, 0, p) /\ Same(b9, 0, p) /\ Same(b10, 0, p) /\ Same(b11, 0, p)
  BY DEF MixRound
<1>7. k2 \in Int /\ Same(k2, 0, p)
  <2> DEFINE c2 == a
  <2>1. k2 \in Int /\ c2 \in Int
    <3> HIDE DEF f, w, q
    <3> QED BY <1>1
  <2>2. Combination(k2, 1, b2, c2, b1)
    BY DEF Combination
  <2> HIDE DEF k2, b2, b1, c2
  <2> QED BY <1>p, <1>3, <1>6, <2>1, <2>2, Combined
<1>8. k1 \in Int /\ Same(k1, 0, p)
  <2> DEFINE c2 == z
  <2>1. k1 \in Int /\ c2 \in Int
    <3> HIDE DEF f, w, q
    <3> QED BY <1>1
  <2>2. Combination(k1, 1, b3, c2, b1)
    BY DEF Combination
  <2> HIDE DEF k1, b3, b1, c2
  <2> QED BY <1>p, <1>3, <1>6, <2>1, <2>2, Combined
<1>9. k5 \in Int /\ Same(k5, 0, p)
  <2> DEFINE c2 == b
  <2>1. k5 \in Int /\ c2 \in Int
    <3> HIDE DEF f, w, q
    <3> QED BY <1>1
  <2>2. Combination(k5, 1, b4, c2, k1)
    BY DEF Combination
  <2> HIDE DEF k5, b4, k1, c2
  <2> QED BY <1>p, <1>3, <1>6, <1>8, <2>1, <2>2, Combined
\* X - l2 = (x - a) z^2, Y - l5 = (y - b) z^3 = s w
<1>10. k3 \in Int /\ Same(k3, 0, p)
  <2>1. k3 \in Int
    <3> HIDE DEF f, w, q
    <3> QED BY <1>1
  <2>2. Combination(k3, -1, a1, -1, k2)
    BY DEF Combination
  <2> HIDE DEF k3, a1, k2
  <2> QED BY <1>p, <1>2, <1>4, <1>7, <2>1, <2>2, Combined
<1>11. k6 \in Int /\ Same(k6, 0, p)
  <2> DEFINE c3 == z * z * z
  <2>1. k6 \in Int /\ c3 \in Int
    <3> HIDE DEF f, w, q
    <3> QED BY <1>1
  <2>2. Combination4(k6, -1, a2, -1, k5, c3, a3, 0, a2)
    BY DEF Combination4
  <2> HIDE DEF k6, a2, k5, a3, c3
  <2> QED BY <1>p, <1>2, <1>4, <1>9, <2>1, <2>2, Combined4
<1>12. k7 \in Int /\ Same(k7, 0, p)
  <2>1. k7 \in Int
    <3> HIDE DEF f, w, q
    <3> QED BY <1>1
  <2>2. Combination(k7, -1, a1, 1, k2)
    BY DEF Combination
  <2> HIDE DEF k7, a1, k2
  <2> QED BY <1>p, <1>2, <1>4, <1>7, <2>1, <2>2, Combined
<1>13. k8 \in Int /\ Same(k8, 0, p)
  <2>1. k8 \in Int
    <3> HIDE DEF f, w, q
    <3> QED BY <1>1
  <2>2. Combination(k8, -1, a2, 1, k5)
    BY DEF Combination
  <2> HIDE DEF k8, a2, k5
  <2> QED BY <1>p, <1>2, <1>4, <1>9, <2>1, <2>2, Combined
<1>14. k9 \in Int /\ Same(k9, 0, p)
  <2> DEFINE c2 == (X - l2) + f
  <2>1. k9 \in Int /\ c2 \in Int
    <3> HIDE DEF f, w, q
    <3> QED BY <1>1
  <2>2. Combination(k9, 1, b5, c2, k3)
    BY DEF Combination
  <2> HIDE DEF k9, b5, k3, c2
  <2> QED BY <1>p, <1>3, <1>6, <1>10, <2>1, <2>2, Combined
\* x: s^2 w^2 - (x + a) w^2 = x3 w^2
<1>15. k10 \in Int /\ Same(k10, 0, p)
  <2> DEFINE c1 == X + l2
             c2 == f * f
  <2>1. k10 \in Int /\ c1 \in Int /\ c2 \in Int
    <3> HIDE DEF f, w, q
    <3> QED BY <1>1
  <2>2. Combination(k10, c1, k9, c2, k7)
    BY DEF Combination
  <2> HIDE DEF k10, k9, k7, c1, c2
  <2> QED BY <1>p, <1>12, <1>14, <2>1, <2>2, Combined
<1>16. k11 \in Int /\ Same(k11, 0, p)
  <2> DEFINE c2 == (Y - l5) + s * w
             c4 == -(w * w)
  <2>1. k11 \in Int /\ c2 \in Int /\ c4 \in Int
    <3> HIDE DEF f, w, q
    <3> QED BY <1>1
  <2>2. Combination4(k11, 1, b6, c2, k6, -1, k10, c4, a4)
    BY DEF Combination4
  <2> HIDE DEF k11, b6, k6, k10, a4, c2, c4
  <2> QED BY <1>p, <1>2, <1>3, <1>5, <1>6, <1>11, <1>15, <2>1, <2>2, Combined4
\* y: (x + a - 2 x3) w^2 s w - (y + b) w^3 = 2 y3 w^3
<1>17. k12 \in Int /\ Same(k12, 0, p)
  <2>1. k12 \in Int
    <3> HIDE DEF f, w, q
    <3> QED BY <1>1
  <2>2. Combination4(k12, 1, b7, 1, k10, -2, k11, 0, b7)
    BY DEF Combination4
  <2> HIDE DEF k12, b7, k10, k11
  <2> QED BY <1>p, <1>3, <1>6, <1>15, <1>16, <2>1, <2>2, Combined4
<1>18. k13 \in Int /\ Same(k13, 0, p)
  <2> DEFINE c1 == Y - l5
             c2 == q * w * w
  <2>1. k13 \in Int /\ c1 \in Int /\ c2 \in Int
    <3> HIDE DEF f, w, q
    <3> QED BY <1>1
  <2>2. Combination(k13, c1, k12, c2, k6)
    BY DEF Combination
  <2> HIDE DEF k13, k12, k6, c1, c2
  <2> QED BY <1>p, <1>11, <1>17, <2>1, <2>2, Combined
<1>19. k14 \in Int /\ Same(k14, 0, p)
  <2> DEFINE c2 == m3
             c3 == (y + b) * z * z * z
  <2>1. k14 \in Int /\ c2 \in Int /\ c3 \in Int
    <3> HIDE DEF f, w, q
    <3> QED BY <1>1
  <2>2. Combination4(k14, 1, b8, c2, k8, c3, k9, 0, b8)
    BY DEF Combination4
  <2> HIDE DEF k14, b8, k8, k9, c2, c3
  <2> QED BY <1>p, <1>3, <1>6, <1>13, <1>14, <2>1, <2>2, Combined4
<1>20. k15 \in Int /\ Same(k15, 0, p)
  <2> DEFINE c1 == X - l2
             c2 == (y + b) * z * z * z * f * f
  <2>1. k15 \in Int /\ c1 \in Int /\ c2 \in Int
    <3> HIDE DEF f, w, q
    <3> QED BY <1>1
  <2>2. Combination(k15, c1, k14, c2, k3)
    BY DEF Combination
  <2> HIDE DEF k15, k14, k3, c1, c2
  <2> QED BY <1>p, <1>10, <1>19, <2>1, <2>2, Combined
<1>21. k16 \in Int /\ Same(k16, 0, p)
  <2> DEFINE c3 == w * w * w
             c4 == (-2) * w * w * w
  <2>1. k16 \in Int /\ c3 \in Int /\ c4 \in Int
    <3> HIDE DEF f, w, q
    <3> QED BY <1>1
  <2>2. Combination4(k16, 1, k13, -1, k15, c3, a3, c4, a5)
    BY DEF Combination4
  <2> HIDE DEF k16, k13, k15, a3, a5, c3, c4
  <2> QED BY <1>p, <1>2, <1>4, <1>5, <1>18, <1>20, <2>1, <2>2, Combined4
<1>22. k17 \in Int /\ Same(k17, 0, p)
  <2>1. k17 \in Int
    <3> HIDE DEF f, w, q
    <3> QED BY <1>1
  <2>2. Combination4(k17, 1, b10, 1, b9, 1, k16, 0, b10)
    BY DEF Combination4
  <2> HIDE DEF k17, b10, b9, k16
  <2> QED BY <1>p, <1>3, <1>6, <1>21, <2>1, <2>2, Combined4
<1>23. k18 \in Int /\ Same(k18, 0, p)
  <2> DEFINE c2 == z
  <2>1. k18 \in Int /\ c2 \in Int
    <3> HIDE DEF f, w, q
    <3> QED BY <1>1
  <2>2. Combination(k18, 1, b11, c2, k3)
    BY DEF Combination
  <2> HIDE DEF k18, b11, k3, c2
  <2> QED BY <1>p, <1>3, <1>6, <1>10, <2>1, <2>2, Combined
\* 2 has an inverse.
<1>24. Same(Y3 - y3 * w * w * w, 0, p)
  <2> DEFINE e == Y3 - y3 * w * w * w
  <2>1. e \in Int
    <3> HIDE DEF w
    <3> QED BY <1>1
  <2>2. ~ Same(2, 0, p)
    <3>1. 2 \in 0 .. p - 1 /\ 0 \in 0 .. p - 1 /\ 2 # 0
      BY <1>p
    <3> QED BY <3>1, SameSmall
  <2>3. k17 = 2 * e
    OBVIOUS
  <2> HIDE DEF e, k17
  <2>4. Same(2 * e, 0, p)
    BY <1>22, <2>3
  <2>5. Same(e, 0, p)
    BY <1>p, <2>1, <2>2, <2>4, CancelFactor
  <2> QED BY <2>5 DEF e
<1>25. Same(x3 * Zn * Zn, X3, p)
  <2> DEFINE e  == x3 * Zn * Zn - X3
             c1 == x3 * (Zn + w)
  <2>1. e \in Int /\ c1 \in Int /\ x3 * Zn * Zn \in Int
    <3> HIDE DEF w
    <3> QED BY <1>1
  <2>2. Combination(e, c1, k18, -1, k11)
    <3> HIDE DEF w
    <3> QED BY <1>1 DEF Combination
  <2>3. Same(e, 0, p)
    <3> HIDE DEF e, k18, k11, c1
    <3> QED BY <1>p, <1>23, <1>16, <2>1, <2>2, Combined
  <2> QED BY <1>p, <2>1, <2>3, SameZero
<1>26. Same(y3 * Zn * Zn * Zn, Y3, p)
  <2> DEFINE e  == y3 * Zn * Zn * Zn - Y3
             g  == Y3 - y3 * w * w * w
             c1 == y3 * (Zn * Zn + Zn * w + w * w)
  <2>1. e \in Int /\ g \in Int /\ c1 \in Int /\ y3 * Zn * Zn * Zn \in Int
    <3> HIDE DEF w
    <3> QED BY <1>1
  <2>2. Combination(e, c1, k18, -1, g)
    <3> HIDE DEF w
    <3> QED BY <1>1 DEF Combination
  <2>3. Same(e, 0, p)
    <3> HIDE DEF e, k18, g, c1
    <3> QED BY <1>p, <1>23, <1>24, <2>1, <2>2, Combined DEF g
  <2> QED BY <1>p, <2>1, <2>3, SameZero
<1> QED BY <1>25, <1>26 DEF StandsFor

\* What the table of point_mul can hold: the y of a negated point can be p.
Entries(p) == [x : Fp(p), y : 0 .. p]

LEMMA HalfOf ==
  ASSUME NEW p \in Nat, Prime(p), p > 2, NEW y \in Fp(p)
  PROVE  /\ E!Half(y, p) \in Fp(p) /\ E!Half(y, p) \in Int
         /\ Same(2 * E!Half(y, p) - y, 0, p)
<1>1. p % 2 # 0 /\ y \in Int /\ 0 <= y /\ y <= p - 1
  <2>1. 2 \in 2 .. p - 1
    OBVIOUS
  <2> QED BY <2>1 DEF Prime, Fp
<1>2. CASE y % 2 = 1
  <2>1. (y + p) % 2 = 0
    BY <1>1, <1>2
  <2>2. E!Half(y, p) = (y + p) \div 2
    BY <1>2 DEF E!Half
  <2>3. 2 * ((y + p) \div 2) = y + p /\ (y + p) \div 2 \in Int
    BY <1>1, <2>1
  <2>4. (y + p) \div 2 \in Fp(p)
    BY <1>1, <2>3 DEF Fp
  <2>5. Same(2 * ((y + p) \div 2) - y, 0, p)
    <3>1. (2 * ((y + p) \div 2) - y) - 0 = p * 1 /\ 1 \in Int
      BY <1>1, <2>3
    <3> QED BY <3>1 DEF Same
  <2> QED BY <2>2, <2>3, <2>4, <2>5
<1>3. CASE y % 2 # 1
  <2>1. y % 2 = 0
    BY <1>1, <1>3
  <2>2. E!Half(y, p) = y \div 2
    BY <1>3 DEF E!Half
  <2>3. 2 * (y \div 2) = y /\ y \div 2 \in Int
    BY <1>1, <2>1
  <2>4. y \div 2 \in Fp(p)
    BY <1>1, <2>3 DEF Fp
  <2>5. Same(2 * (y \div 2) - y, 0, p)
    <3>1. (2 * (y \div 2) - y) - 0 = p * 0 /\ 0 \in Int
      BY <1>1, <2>3
    <3> QED BY <3>1 DEF Same
  <2> QED BY <2>2, <2>3, <2>4, <2>5
<1> QED BY <1>2, <1>3

\* What proj_mix_in computes, step by step.
Intermediate == [zz : Int, l2 : Int, t : Int, l5 : Int, m3 : Int, l9 : Int, m8 : Int, h : Int]

MixedFrom(R, A, v, D, p) ==
  /\ D \in ProjPoints(p) /\ D = E!proj_mix_in(R, A, p)
  /\ MixRound(R.x, R.y, R.z, A.x, A.y, p, v.zz, v.l2, v.t, v.l5, v.m3, D.x, v.l9, v.m8, v.h, D.y, D.z)

LEMMA MixedValues ==
  ASSUME NEW p \in Nat, Prime(p), p > 2, NEW R \in ProjPoints(p), NEW A \in Entries(p)
  PROVE  \E v \in Intermediate, D \in ProjPoints(p) : MixedFrom(R, A, v, D, p)
<1> DEFINE X  == R.x
           Y  == R.y
           z  == R.z
           a  == A.x
           b  == A.y
           m1 == z * z
           zz == m1 % p
           m2 == zz * a
           l2 == m2 % p
           m4 == zz * z
           t  == m4 % p
           m5 == t * b
           l5 == m5 % p
           l3 == X - l2
           l6 == Y - l5
           l7 == X + l2
           l8 == Y + l5
           m6 == l3 * l3
           m3 == m6 % p
           m7 == l6 * l6 - m3 * l7
           X3 == m7 % p
           m9 == l7 * m3 - 2 * X3
           l9 == m9 % p
           n8 == l8 * m3
           m8 == n8 % p
           n9 == l9 * l6 - m8 * l3
           h  == n9 % p
           Y3 == E!Half(h, p)
           nz == z * l3
           Zn == nz % p
           D  == [x |-> X3, y |-> Y3, z |-> Zn]
           v  == [zz |-> zz, l2 |-> l2, t |-> t, l5 |-> l5, m3 |-> m3, l9 |-> l9, m8 |-> m8, h |-> h]
<1>p. p > 0 /\ p \in Int
  BY DEF Prime
<1>1. X \in Int /\ Y \in Int /\ z \in Int /\ a \in Int /\ b \in Int
  BY DEF ProjPoints, Fp, Entries
<1> HIDE DEF X, Y, z, a, b
<1>2. zz \in Int /\ Same(zz - m1, 0, p)
  <2>1. m1 \in Int
    BY <1>1
  <2> HIDE DEF m1
  <2> QED BY <1>p, <2>1, Reduced
<1> HIDE DEF zz
<1>3. l2 \in Int /\ Same(l2 - m2, 0, p)
  <2>1. m2 \in Int
    BY <1>1, <1>2
  <2> HIDE DEF m2
  <2> QED BY <1>p, <2>1, Reduced
<1> HIDE DEF l2
<1>4. t \in Int /\ Same(t - m4, 0, p)
  <2>1. m4 \in Int
    BY <1>1, <1>2
  <2> HIDE DEF m4
  <2> QED BY <1>p, <2>1, Reduced
<1> HIDE DEF t
<1>5. l5 \in Int /\ Same(l5 - m5, 0, p)
  <2>1. m5 \in Int
    BY <1>1, <1>4
  <2> HIDE DEF m5
  <2> QED BY <1>p, <2>1, Reduced
<1> HIDE DEF l5
<1>6. l3 \in Int /\ l6 \in Int /\ l7 \in Int /\ l8 \in Int
  BY <1>1, <1>3, <1>5
<1>7. m3 \in Int /\ Same(m3 - m6, 0, p)
  <2>1. m6 \in Int
    BY <1>1, <1>3
  <2> HIDE DEF m6
  <2> QED BY <1>p, <2>1, Reduced
<1> HIDE DEF m3
<1>8. X3 \in Int /\ X3 \in Fp(p) /\ Same(X3 - m7, 0, p)
  <2>1. m7 \in Int
    BY <1>1, <1>3, <1>5, <1>7
  <2> HIDE DEF m7
  <2> QED BY <1>p, <2>1, Reduced
<1> HIDE DEF X3
<1>9. l9 \in Int /\ Same(l9 - m9, 0, p)
  <2>1. m9 \in Int
    BY <1>1, <1>3, <1>7, <1>8
  <2> HIDE DEF m9
  <2> QED BY <1>p, <2>1, Reduced
<1> HIDE DEF l9
<1>10. m8 \in Int /\ Same(m8 - n8, 0, p)
  <2>1. n8 \in Int
    BY <1>1, <1>5, <1>7
  <2> HIDE DEF n8
  <2> QED BY <1>p, <2>1, Reduced
<1> HIDE DEF m8
<1>11. h \in Int /\ h \in Fp(p) /\ Same(h - n9, 0, p)
  <2>1. n9 \in Int
    BY <1>1, <1>3, <1>5, <1>9, <1>10
  <2> HIDE DEF n9
  <2> QED BY <1>p, <2>1, Reduced
<1> HIDE DEF h
<1>12. Y3 \in Int /\ Y3 \in Fp(p) /\ Same(2 * Y3 - h, 0, p)
  BY <1>11, HalfOf
<1> HIDE DEF Y3
<1>13. Zn \in Int /\ Zn \in Fp(p) /\ Same(Zn - nz, 0, p)
  <2>1. nz \in Int
    BY <1>1, <1>3
  <2> HIDE DEF nz
  <2> QED BY <1>p, <2>1, Reduced
<1> HIDE DEF Zn
<1>14. D \in ProjPoints(p) /\ D.x = X3 /\ D.y = Y3 /\ D.z = Zn
  BY <1>8, <1>12, <1>13 DEF ProjPoints
<1>15. D = E!proj_mix_in(R, A, p)
  BY DEF E!proj_mix_in, X, Y, z, a, b, zz, l2, t, l5, m3, X3, l9, m8, h, Y3, Zn
<1>16. MixRound(X, Y, z, a, b, p, zz, l2, t, l5, m3, X3, l9, m8, h, Y3, Zn)
  <2>1. m9 = (X + l2) * m3 - 2 * X3 /\ m7 = (Y - l5) * (Y - l5) - m3 * (X + l2)
    OBVIOUS
  <2> QED BY <1>2, <1>3, <1>4, <1>5, <1>7, <1>8, <1>9, <1>10, <1>11, <1>12, <1>13, <2>1 DEF MixRound
<1>17. v \in Intermediate
  BY <1>2, <1>3, <1>4, <1>5, <1>7, <1>9, <1>10, <1>11 DEF Intermediate
<1>18. /\ v.zz = zz /\ v.l2 = l2 /\ v.t = t /\ v.l5 = l5
       /\ v.m3 = m3 /\ v.l9 = l9 /\ v.m8 = m8 /\ v.h = h
  OBVIOUS
<1> HIDE DEF D, v
<1>19. MixedFrom(R, A, v, D, p)
  BY <1>14, <1>15, <1>16, <1>18 DEF MixedFrom, X, Y, z, a, b
<1> QED BY <1>14, <1>17, <1>19

LEMMA MixInPoint ==
  ASSUME NEW p \in Nat, Prime(p), p > 2, NEW R \in ProjPoints(p), NEW A \in Entries(p)
  PROVE  /\ E!proj_mix_in(R, A, p) \in ProjPoints(p)
         /\ E!Unproj(E!proj_mix_in(R, A, p), p) = E!zzp_point_add(E!Unproj(R, p), A, p)
<1>1. PICK v \in Intermediate, D \in ProjPoints(p) : MixedFrom(R, A, v, D, p)
  BY MixedValues
<1> DEFINE X == R.x
           Y == R.y
           z == R.z
           a == A.x
           b == A.y
<1>2. D = E!proj_mix_in(R, A, p)
  BY <1>1 DEF MixedFrom
<1>3. MixRound(X, Y, z, a, b, p, v.zz, v.l2, v.t, v.l5, v.m3, D.x, v.l9, v.m8, v.h, D.y, D.z)
  BY <1>1 DEF MixedFrom
<1>p. p > 0 /\ p \in Int
  BY DEF Prime
<1>4. /\ X \in Int /\ Y \in Int /\ z \in Int /\ z \in Fp(p) /\ a \in Int /\ b \in Int
      /\ D.x \in Int /\ D.y \in Int /\ D.z \in Int /\ D.z \in Fp(p)
  BY DEF ProjPoints, Fp, Entries
<1>5. /\ v.zz \in Int /\ v.l2 \in Int /\ v.t \in Int /\ v.l5 \in Int
      /\ v.m3 \in Int /\ v.l9 \in Int /\ v.m8 \in Int /\ v.h \in Int
  BY DEF Intermediate
<1>6. A # E!Lost
  BY DEF Entries, Fp, E!Lost, E!Affine
\* The new z is z (X - a z^2).
<1>7. /\ Same(v.zz - z * z, 0, p) /\ Same(v.l2 - v.zz * a, 0, p)
      /\ Same(D.z - z * (X - v.l2), 0, p)
  BY <1>3 DEF MixRound
<1> HIDE DEF X, Y, z, a, b
<1>8. CASE z = 0
  <2>1. D.z - z * (X - v.l2) = D.z
    BY <1>4, <1>5, <1>8
  <2>2. D.z = 0
    BY <1>4, <1>7, <2>1, ZeroOrNot
  <2>3. E!Unproj(D, p) = E!Lost /\ E!Unproj(R, p) = E!Lost
    BY <1>8, <2>2, UnprojLost DEF z
  <2> QED BY <1>2, <2>3 DEF E!zzp_point_add
<1>9. CASE z # 0
  <2>1. PICK x \in Fp(p), y \in Fp(p) :
          E!Unproj(R, p) = E!Affine(x, y) /\ StandsFor(X, Y, z, x, y, p)
    BY <1>9, UnprojPoint DEF X, Y, z
  <2> DEFINE U == E!Affine(x, y)
             n == b - y
             d == a - x
             S == E!zzp_point_add(U, A, p)
  <2>2. /\ x \in Int /\ y \in Int /\ U \in AffinePoints(p) /\ U.x = x /\ U.y = y
        /\ U # E!Lost
    BY FpInt, PointFrom, PointOf2
  <2>3. n \in Int /\ d \in Int
    BY <1>4, <2>2
  <2>4. S = E!ZzThird(n, d, U, a, p)
    BY <1>6, <2>2 DEF E!zzp_point_add, a, b
  <2>5. ~ Same(z, 0, p)
    BY <1>4, <1>9, ZeroOrNot
  \* X is x z^2: z (X - a z^2) is 0 if and only if a - x is.
  <2> DEFINE a1 == x * z * z - X
             e1 == v.zz - z * z
             e2 == v.l2 - v.zz * a
             e3 == D.z - z * (X - v.l2)
             g  == z * (z * (z * d))
             e  == D.z + g
             c1 == -z
             c2 == -(z * a)
  <2>6. /\ g \in Int /\ a1 \in Int /\ e1 \in Int /\ e2 \in Int /\ e3 \in Int /\ e \in Int
        /\ c1 \in Int /\ c2 \in Int /\ 1 \in Int
    BY <1>4, <1>5, <2>2
  <2>7. Same(a1, 0, p)
    <3>1. x * z * z \in Int
      BY <1>4, <2>2
    <3> QED BY <1>p, <1>4, <2>1, <3>1, SameZero DEF StandsFor
  <2>8. Same(e, 0, p)
    <3>1. Combination4(e, 1, e3, c1, a1, c1, e2, c2, e1)
      BY <1>4, <1>5, <2>2 DEF Combination4
    <3>2. Same(e1, 0, p) /\ Same(e2, 0, p) /\ Same(e3, 0, p)
      BY <1>7
    <3> HIDE DEF e, e1, e2, e3, a1, c1, c2
    <3> QED BY <1>p, <2>6, <2>7, <3>1, <3>2, Combined4
  <2>9. CASE Same(d, 0, p)
    <3> HIDE DEF d, n
    <3>1. z * d \in Int /\ z * (z * d) \in Int /\ z * (z * (z * d)) \in Int
      BY <1>4, <2>3
    <3>2. Same(z * d, 0, p)
      BY <1>p, <1>4, <2>3, <2>9, ZeroTimes
    <3>3. Same(z * (z * d), 0, p)
      BY <1>p, <1>4, <3>1, <3>2, ZeroTimes
    <3>4. Same(g, 0, p)
      BY <1>p, <1>4, <3>1, <3>3, ZeroTimes
    <3>5. e - g = D.z
      <4> HIDE DEF g
      <4> QED BY <1>4, <2>6
    <3>6. Same(e - g, 0, p)
      <4> HIDE DEF e, g
      <4> QED BY <1>p, <2>6, <2>8, <3>4, ZeroPlus
    <3>7. D.z = 0
      BY <1>4, <3>5, <3>6, ZeroOrNot
    <3>8. E!Unproj(D, p) = E!Lost
      BY <3>7, UnprojLost
    <3>9. S = E!Lost
      BY <1>4, <2>2, <2>3, <2>4, <2>9, ThirdLost
    <3> QED BY <1>2, <2>1, <3>8, <3>9
  <2>10. CASE ~ Same(d, 0, p)
    <3>1. PICK s \in Int, x3 \in Fp(p), y3 \in Fp(p) : MadeBy(s, x3, y3, n, d, x, y, a, p)
      <4> HIDE DEF n, d
      <4> QED BY <1>4, <2>2, <2>3, <2>10, ThirdPoint
    <3>2. S = E!Affine(x3, y3) /\ Same(s * d, n, p) /\ IsThird(x3, y3, s, x, y, a, p)
      BY <2>4, <3>1 DEF MadeBy
    <3>3. x3 \in Int /\ y3 \in Int /\ s * d \in Int
      BY <2>3, FpInt
    <3>4. Same(s * (a - x) - (b - y), 0, p)
      <4> HIDE DEF n, d
      <4>1. Same(s * d - n, 0, p)
        BY <1>p, <2>3, <3>2, <3>3, SameZero
      <4> QED BY <4>1 DEF d, n
    <3>5. StandsFor(D.x, D.y, D.z, x3, y3, p)
      BY <1>3, <1>4, <1>5, <2>1, <2>2, <3>2, <3>3, <3>4, MixAlgebra
    <3>6. D.z # 0
      <4>1. SUFFICES ASSUME D.z = 0 PROVE FALSE
        OBVIOUS
      <4>2. e = g
        <5> HIDE DEF g
        <5> QED BY <2>6, <4>1
      <4>3. Same(z * (z * (z * d)), 0, p)
        BY <2>8, <4>2
      <4> HIDE DEF d
      <4>4. z * d \in Int /\ z * (z * d) \in Int
        BY <1>4, <2>3
      <4>5. Same(z * (z * d), 0, p)
        BY <1>4, <2>5, <4>3, <4>4, CancelFactor
      <4>6. Same(z * d, 0, p)
        BY <1>4, <2>5, <4>4, <4>5, CancelFactor
      <4>7. Same(d, 0, p)
        BY <1>4, <2>3, <2>5, <4>6, CancelFactor
      <4> QED BY <2>10, <4>7
    <3>7. E!Unproj(D, p) = E!Affine(x3, y3)
      BY <3>5, <3>6, UnprojUnique
    <3> QED BY <1>2, <2>1, <3>2, <3>7
  <2> QED BY <2>9, <2>10
<1> QED BY <1>2, <1>8, <1>9

(***************************************************************************)
(* MixIn adds an entry of the table to the point that R stands for, and    *)
(* loses it exactly where zzp_point_add does.                              *)
(***************************************************************************)
THEOREM MixInIsAdd ==
  ASSUME NEW p \in Nat, Prime(p), p > 2, NEW R \in ProjPoints(p),
         NEW A \in Entries(p) \cup {E!Lost}
  PROVE  /\ E!MixIn(R, A, p) \in ProjPoints(p)
         /\ E!Unproj(E!MixIn(R, A, p), p) = E!zzp_point_add(E!Unproj(R, p), A, p)
<1>1. CASE A = E!Lost
  <2>1. E!MixIn(R, A, p) = [R EXCEPT !.z = 0]
    BY <1>1 DEF E!MixIn
  <2>2. 0 \in Fp(p)
    BY DEF Prime, Fp
  <2>3. E!MixIn(R, A, p) \in ProjPoints(p) /\ E!MixIn(R, A, p).z = 0
    BY <2>1, <2>2 DEF ProjPoints
  <2>4. E!Unproj(E!MixIn(R, A, p), p) = E!Lost
    BY <2>3, UnprojLost
  <2> QED BY <1>1, <2>3, <2>4 DEF E!zzp_point_add
<1>2. CASE A # E!Lost
  <2>1. A \in Entries(p) /\ E!MixIn(R, A, p) = E!proj_mix_in(R, A, p)
    BY <1>2 DEF E!MixIn
  <2> QED BY <2>1, MixInPoint
<1> QED BY <1>1, <1>2

-----------------------------------------------------------------------------
(***************************************************************************)
(* F_p^2.                                                                  *)
(***************************************************************************)
F2(p) == [a : Fp(p), b : Fp(p)]

LEMMA F2Int ==
  ASSUME NEW p \in Nat, NEW u \in F2(p)
  PROVE  u.a \in Int /\ u.b \in Int /\ u.a \in Fp(p) /\ u.b \in Fp(p) /\ u = [a |-> u.a, b |-> u.b]
BY DEF F2, Fp

LEMMA F2Same ==
  ASSUME NEW p \in Nat, NEW u \in F2(p), NEW v \in F2(p), Same(u.a - v.a, 0, p), Same(u.b - v.b, 0, p)
  PROVE  u = v
<1>1. /\ u.a \in Int /\ u.b \in Int /\ v.a \in Int /\ v.b \in Int
      /\ u.a \in 0 .. p - 1 /\ u.b \in 0 .. p - 1 /\ v.a \in 0 .. p - 1 /\ v.b \in 0 .. p - 1
      /\ u = [a |-> u.a, b |-> u.b] /\ v = [a |-> v.a, b |-> v.b] /\ p \in Int
  BY F2Int DEF Fp
<1>2. Same(u.a, v.a, p) /\ Same(u.b, v.b, p)
  BY <1>1, SameZero
<1>3. u.a = v.a /\ u.b = v.b
  BY <1>1, <1>2, SameSmall
<1> QED BY <1>1, <1>3

\* What a product and a sum are congruent to.
LEMMA MulOf ==
  ASSUME NEW p \in Nat, NEW u \in F2(p), NEW v \in F2(p), Prime(p)
  PROVE  /\ E!fp2_mul(u, v, p) \in F2(p)
         /\ Same(E!fp2_mul(u, v, p).a - (u.a * v.a - u.b * v.b), 0, p)
         /\ Same(E!fp2_mul(u, v, p).b - (u.a * v.b + u.b * v.a), 0, p)
<1> DEFINE m == u.a * v.a - u.b * v.b
           n == u.a * v.b + u.b * v.a
<1>1. m \in Int /\ n \in Int /\ p > 0
  BY F2Int DEF Prime
<1>2. E!fp2_mul(u, v, p) = [a |-> m % p, b |-> n % p]
  BY DEF E!fp2_mul
<1> HIDE DEF m, n
<1>3. /\ m % p \in Fp(p) /\ Same((m % p) - m, 0, p)
      /\ n % p \in Fp(p) /\ Same((n % p) - n, 0, p)
  BY <1>1, Reduced
<1> DEFINE r == m % p
           t == n % p
<1> HIDE DEF r, t
<1>4. r \in Fp(p) /\ Same(r - m, 0, p) /\ t \in Fp(p) /\ Same(t - n, 0, p)
  BY <1>3 DEF r, t
<1>5. E!fp2_mul(u, v, p) = [a |-> r, b |-> t]
  BY <1>2 DEF r, t
<1>6. [a |-> r, b |-> t] \in F2(p) /\ [a |-> r, b |-> t].a = r /\ [a |-> r, b |-> t].b = t
  BY <1>4 DEF F2
<1> QED BY <1>4, <1>5, <1>6 DEF m, n

LEMMA AddOf ==
  ASSUME NEW p \in Nat, NEW u \in F2(p), NEW v \in F2(p)
  PROVE  /\ E!fp2_add(u, v, p) \in F2(p)
         /\ Same(E!fp2_add(u, v, p).a - (u.a + v.a), 0, p)
         /\ Same(E!fp2_add(u, v, p).b - (u.b + v.b), 0, p)
<1> DEFINE r == E!zp_add(u.a, v.a, p)
           t == E!zp_add(u.b, v.b, p)
<1>1. E!fp2_add(u, v, p) = [a |-> r, b |-> t]
  BY DEF E!fp2_add
<1>2. r \in Fp(p) /\ Same(r, u.a + v.a, p) /\ t \in Fp(p) /\ Same(t, u.b + v.b, p)
  BY F2Int, ZpAdd
<1> HIDE DEF r, t
<1>3. u.a + v.a \in Int /\ u.b + v.b \in Int /\ r \in Int /\ t \in Int /\ p \in Int
  BY <1>2, F2Int, FpInt
<1>4. Same(r - (u.a + v.a), 0, p) /\ Same(t - (u.b + v.b), 0, p)
  BY <1>2, <1>3, SameZero
<1>5. [a |-> r, b |-> t] \in F2(p) /\ [a |-> r, b |-> t].a = r /\ [a |-> r, b |-> t].b = t
  BY <1>2 DEF F2
<1> QED BY <1>1, <1>4, <1>5

LEMMA MulAssociates ==
  ASSUME NEW p \in Nat, Prime(p), NEW u \in F2(p), NEW v \in F2(p), NEW w \in F2(p)
  PROVE  E!fp2_mul(E!fp2_mul(u, v, p), w, p) = E!fp2_mul(u, E!fp2_mul(v, w, p), p)
<1> DEFINE f == E!fp2_mul(u, v, p)
           g == E!fp2_mul(v, w, p)
           l == E!fp2_mul(f, w, p)
           r == E!fp2_mul(u, g, p)
           k1 == f.a - (u.a * v.a - u.b * v.b)
           k2 == f.b - (u.a * v.b + u.b * v.a)
           k3 == g.a - (v.a * w.a - v.b * w.b)
           k4 == g.b - (v.a * w.b + v.b * w.a)
           k5 == l.a - (f.a * w.a - f.b * w.b)
           k6 == l.b - (f.a * w.b + f.b * w.a)
           k7 == r.a - (u.a * g.a - u.b * g.b)
           k8 == r.b - (u.a * g.b + u.b * g.a)
<1>1. f \in F2(p) /\ Same(k1, 0, p) /\ Same(k2, 0, p)
  BY MulOf
<1>2. g \in F2(p) /\ Same(k3, 0, p) /\ Same(k4, 0, p)
  BY MulOf
<1> HIDE DEF f, g
<1>3. l \in F2(p) /\ Same(k5, 0, p) /\ Same(k6, 0, p)
  BY <1>1, MulOf
<1>4. r \in F2(p) /\ Same(k7, 0, p) /\ Same(k8, 0, p)
  BY <1>2, MulOf
<1> HIDE DEF l, r
<1>5. /\ u.a \in Int /\ u.b \in Int /\ v.a \in Int /\ v.b \in Int /\ w.a \in Int /\ w.b \in Int
      /\ f.a \in Int /\ f.b \in Int /\ g.a \in Int /\ g.b \in Int
      /\ l.a \in Int /\ l.b \in Int /\ r.a \in Int /\ r.b \in Int /\ p \in Int
  BY <1>1, <1>2, <1>3, <1>4, F2Int
<1>6. Same(l.a - r.a, 0, p)
  <2> DEFINE e == l.a - r.a
             m == k5 - k7
             c1 == w.a
             c2 == -w.b
             c3 == -u.a
             c4 == u.b
             h  == e - m
  <2>1. /\ e \in Int /\ m \in Int /\ h \in Int /\ k1 \in Int /\ k2 \in Int /\ k3 \in Int /\ k4 \in Int
        /\ k5 \in Int /\ k7 \in Int /\ c1 \in Int /\ c2 \in Int /\ c3 \in Int /\ c4 \in Int
    BY <1>5
  <2>2. Combination4(h, c1, k1, c2, k2, c3, k3, c4, k4)
    BY <1>5 DEF Combination4
  <2>3. Same(h, 0, p)
    <3> HIDE DEF h, k1, k2, k3, k4, c1, c2, c3, c4
    <3> QED BY <1>1, <1>2, <1>5, <2>1, <2>2, Combined4
  <2>4. Combination4(e, 1, h, 1, k5, -1, k7, 0, k7)
    BY <1>5 DEF Combination4
  <2> HIDE DEF e, h, k5, k7
  <2>5. Same(e, 0, p)
    BY <1>3, <1>4, <1>5, <2>1, <2>3, <2>4, Combined4
  <2> QED BY <2>5 DEF e
<1>7. Same(l.b - r.b, 0, p)
  <2> DEFINE e == l.b - r.b
             c1 == w.b
             c2 == w.a
             c3 == -u.b
             c4 == -u.a
             h  == e - (k6 - k8)
  <2>1. /\ e \in Int /\ h \in Int /\ k1 \in Int /\ k2 \in Int /\ k3 \in Int /\ k4 \in Int
        /\ k6 \in Int /\ k8 \in Int /\ c1 \in Int /\ c2 \in Int /\ c3 \in Int /\ c4 \in Int
    BY <1>5
  <2>2. Combination4(h, c1, k1, c2, k2, c3, k3, c4, k4)
    BY <1>5 DEF Combination4
  <2>3. Same(h, 0, p)
    <3> HIDE DEF h, k1, k2, k3, k4, c1, c2, c3, c4
    <3> QED BY <1>1, <1>2, <1>5, <2>1, <2>2, Combined4
  <2>4. Combination4(e, 1, h, 1, k6, -1, k8, 0, k8)
    BY <1>5 DEF Combination4
  <2> HIDE DEF e, h, k6, k8
  <2>5. Same(e, 0, p)
    BY <1>3, <1>4, <1>5, <2>1, <2>3, <2>4, Combined4
  <2> QED BY <2>5 DEF e
<1> QED BY <1>3, <1>4, <1>6, <1>7, F2Same DEF l, r, f, g

LEMMA MulDistributes ==
  ASSUME NEW p \in Nat, Prime(p), NEW u \in F2(p), NEW v \in F2(p), NEW w \in F2(p)
  PROVE  E!fp2_mul(u, E!fp2_add(v, w, p), p) = E!fp2_add(E!fp2_mul(u, v, p), E!fp2_mul(u, w, p), p)
<1> DEFINE f == E!fp2_mul(u, v, p)
           g == E!fp2_mul(u, w, p)
           h == E!fp2_add(v, w, p)
           l == E!fp2_mul(u, h, p)
           r == E!fp2_add(f, g, p)
           k1 == f.a - (u.a * v.a - u.b * v.b)
           k2 == f.b - (u.a * v.b + u.b * v.a)
           k3 == g.a - (u.a * w.a - u.b * w.b)
           k4 == g.b - (u.a * w.b + u.b * w.a)
           k5 == h.a - (v.a + w.a)
           k6 == h.b - (v.b + w.b)
           k7 == l.a - (u.a * h.a - u.b * h.b)
           k8 == l.b - (u.a * h.b + u.b * h.a)
           k9 == r.a - (f.a + g.a)
           k0 == r.b - (f.b + g.b)
<1>1. f \in F2(p) /\ Same(k1, 0, p) /\ Same(k2, 0, p)
  BY MulOf
<1>2. g \in F2(p) /\ Same(k3, 0, p) /\ Same(k4, 0, p)
  BY MulOf
<1>3. h \in F2(p) /\ Same(k5, 0, p) /\ Same(k6, 0, p)
  BY AddOf
<1> HIDE DEF f, g, h
<1>4. l \in F2(p) /\ Same(k7, 0, p) /\ Same(k8, 0, p)
  BY <1>3, MulOf
<1>5. r \in F2(p) /\ Same(k9, 0, p) /\ Same(k0, 0, p)
  BY <1>1, <1>2, AddOf
<1> HIDE DEF l, r
<1>6. /\ u.a \in Int /\ u.b \in Int /\ v.a \in Int /\ v.b \in Int /\ w.a \in Int /\ w.b \in Int
      /\ f.a \in Int /\ f.b \in Int /\ g.a \in Int /\ g.b \in Int /\ h.a \in Int /\ h.b \in Int
      /\ l.a \in Int /\ l.b \in Int /\ r.a \in Int /\ r.b \in Int /\ p \in Int
  BY <1>1, <1>2, <1>3, <1>4, <1>5, F2Int
<1>7. /\ k1 \in Int /\ k2 \in Int /\ k3 \in Int /\ k4 \in Int /\ k5 \in Int
      /\ k6 \in Int /\ k7 \in Int /\ k8 \in Int /\ k9 \in Int /\ k0 \in Int
  BY <1>6
<1>8. Same(l.a - r.a, 0, p)
  <2> DEFINE e == l.a - r.a
             c1 == u.a
             c2 == -u.b
             n  == e - (k7 - k9)
  <2>1. e \in Int /\ n \in Int /\ c1 \in Int /\ c2 \in Int
    BY <1>6
  <2>2. Combination4(n, c1, k5, c2, k6, -1, k1, -1, k3)
    <3> DEFINE A == u.a * h.a
               B == u.b * h.b
               C == u.a * v.a
               D == u.b * v.b
               G == u.a * w.a
               H == u.b * w.b
               x1 == c1 * k5
               x2 == c2 * k6
    <3>1. A \in Int /\ B \in Int /\ C \in Int /\ D \in Int /\ G \in Int /\ H \in Int
      BY <1>6
    <3>2. x1 = A - C - G /\ x2 = D + H - B
      BY <1>6
    <3>3. n = (A - B) - (f.a + g.a) /\ k1 = f.a - (C - D) /\ k3 = g.a - (G - H)
      BY <1>6
    <3> HIDE DEF n, k1, k3, x1, x2, A, B, C, D, G, H
    <3>4. n = x1 + x2 + (-1) * k1 + (-1) * k3
      BY <1>6, <3>1, <3>2, <3>3
    <3> QED BY <3>4 DEF Combination4, x1, x2
  <2>3. Same(n, 0, p)
    <3> HIDE DEF n, k1, k3, k5, k6, c1, c2
    <3> QED BY <1>1, <1>2, <1>3, <1>6, <1>7, <2>1, <2>2, Combined4
  <2>4. Combination4(e, 1, n, 1, k7, -1, k9, 0, k9)
    BY <1>6 DEF Combination4
  <2> HIDE DEF e, n, k7, k9
  <2>5. Same(e, 0, p)
    BY <1>4, <1>5, <1>6, <1>7, <2>1, <2>3, <2>4, Combined4
  <2> QED BY <2>5 DEF e
<1>9. Same(l.b - r.b, 0, p)
  <2> DEFINE e == l.b - r.b
             c1 == u.b
             c2 == u.a
             n  == e - (k8 - k0)
  <2>1. e \in Int /\ n \in Int /\ c1 \in Int /\ c2 \in Int
    BY <1>6
  <2>2. Combination4(n, c1, k5, c2, k6, -1, k2, -1, k4)
    BY <1>6 DEF Combination4
  <2>3. Same(n, 0, p)
    <3> HIDE DEF n, k2, k4, k5, k6, c1, c2
    <3> QED BY <1>1, <1>2, <1>3, <1>6, <1>7, <2>1, <2>2, Combined4
  <2>4. Combination4(e, 1, n, 1, k8, -1, k0, 0, k0)
    BY <1>6 DEF Combination4
  <2> HIDE DEF e, n, k8, k0
  <2>5. Same(e, 0, p)
    BY <1>4, <1>5, <1>6, <1>7, <2>1, <2>3, <2>4, Combined4
  <2> QED BY <2>5 DEF e
<1> QED BY <1>4, <1>5, <1>8, <1>9, F2Same DEF l, r, f, g, h

LEMMA MulCommutes ==
  ASSUME NEW p \in Nat, NEW u \in F2(p), NEW v \in F2(p)
  PROVE  E!fp2_mul(u, v, p) = E!fp2_mul(v, u, p)
<1>1. /\ u.a * v.a - u.b * v.b = v.a * u.a - v.b * u.b
      /\ u.a * v.b + u.b * v.a = v.a * u.b + v.b * u.a
  BY F2Int
<1> QED BY <1>1 DEF E!fp2_mul

LEMMA SqrIsMul ==
  ASSUME NEW p \in Nat, NEW u \in F2(p)
  PROVE  E!fp2_sqr(u, p) = E!fp2_mul(u, u, p)
<1>1. (u.a - u.b) * (u.a + u.b) = u.a * u.a - u.b * u.b /\ 2 * u.a * u.b = u.a * u.b + u.b * u.a
  BY F2Int
<1> QED BY <1>1 DEF E!fp2_mul, E!fp2_sqr

LEMMA OneNeutral ==
  ASSUME NEW p \in Nat, NEW u \in F2(p)
  PROVE  E!fp2_mul(u, E!One, p) = u
<1>1. u.a * 1 - u.b * 0 = u.a /\ u.a * 0 + u.b * 1 = u.b /\ u = [a |-> u.a, b |-> u.b]
  BY F2Int
<1>2. u.a % p = u.a /\ u.b % p = u.b
  BY F2Int DEF Fp
<1> QED BY <1>1, <1>2 DEF E!fp2_mul, E!One

LEMMA ZpAddLaws ==
  ASSUME NEW p \in Nat, NEW x \in Fp(p), NEW y \in Fp(p), NEW z \in Fp(p)
  PROVE  /\ E!zp_add(x, y, p) = E!zp_add(y, x, p)
         /\ E!zp_add(E!zp_add(x, y, p), z, p) = E!zp_add(x, E!zp_add(y, z, p), p)
         /\ E!zp_add(x, 0, p) = x
         /\ E!zp_sub(E!zp_add(x, y, p), y, p) = x
<1>1. x \in Int /\ y \in Int /\ z \in Int /\ 0 <= x /\ x < p /\ 0 <= y /\ y < p /\ 0 <= z /\ z < p
  BY DEF Fp
<1> QED BY <1>1 DEF E!zp_add, E!zp_sub

LEMMA AddLaws ==
  ASSUME NEW p \in Nat, NEW u \in F2(p), NEW v \in F2(p), NEW w \in F2(p)
  PROVE  /\ E!fp2_add(u, v, p) = E!fp2_add(v, u, p)
         /\ E!fp2_add(E!fp2_add(u, v, p), w, p) = E!fp2_add(u, E!fp2_add(v, w, p), p)
         /\ E!fp2_add(u, E!Zero, p) = u
         /\ E!fp2_sub(E!fp2_add(u, v, p), v, p) = u
<1>1. /\ u.a \in Fp(p) /\ u.b \in Fp(p) /\ v.a \in Fp(p) /\ v.b \in Fp(p)
      /\ w.a \in Fp(p) /\ w.b \in Fp(p) /\ u = [a |-> u.a, b |-> u.b]
  BY DEF F2
<1> DEFINE Law(x, y, z) ==
             /\ E!zp_add(x, y, p) = E!zp_add(y, x, p)
             /\ E!zp_add(E!zp_add(x, y, p), z, p) = E!zp_add(x, E!zp_add(y, z, p), p)
             /\ E!zp_add(x, 0, p) = x
             /\ E!zp_sub(E!zp_add(x, y, p), y, p) = x
<1>2. \A x, y, z \in Fp(p) : Law(x, y, z)
  BY ZpAddLaws
<1> HIDE DEF Law
<1>3. Law(u.a, v.a, w.a) /\ Law(u.b, v.b, w.b)
  BY <1>1, <1>2
<1> QED BY <1>1, <1>3 DEF Law, E!fp2_add, E!fp2_sub, E!Zero

(***************************************************************************)
(* The operations of fp2.c are those of a commutative ring with Zero and   *)
(* One, for every prime p; fp2_sub takes back what fp2_add has added, and  *)
(* the separate formula of fp2_sqr is the square.                          *)
(***************************************************************************)
THEOREM Fp2IsRing ==
  ASSUME NEW p \in Nat, Prime(p), NEW u \in F2(p), NEW v \in F2(p), NEW w \in F2(p)
  PROVE  /\ E!fp2_mul(u, v, p) = E!fp2_mul(v, u, p)
         /\ E!fp2_mul(E!fp2_mul(u, v, p), w, p) = E!fp2_mul(u, E!fp2_mul(v, w, p), p)
         /\ E!fp2_mul(u, E!fp2_add(v, w, p), p) =
              E!fp2_add(E!fp2_mul(u, v, p), E!fp2_mul(u, w, p), p)
         /\ E!fp2_mul(u, E!One, p) = u
         /\ E!fp2_sqr(u, p) = E!fp2_mul(u, u, p)
         /\ E!fp2_add(u, v, p) = E!fp2_add(v, u, p)
         /\ E!fp2_add(E!fp2_add(u, v, p), w, p) = E!fp2_add(u, E!fp2_add(v, w, p), p)
         /\ E!fp2_add(u, E!Zero, p) = u
         /\ E!fp2_sub(E!fp2_add(u, v, p), v, p) = u
<1>1. E!fp2_mul(u, v, p) = E!fp2_mul(v, u, p)
  BY MulCommutes
<1>2. E!fp2_mul(E!fp2_mul(u, v, p), w, p) = E!fp2_mul(u, E!fp2_mul(v, w, p), p)
  BY MulAssociates
<1>3. E!fp2_mul(u, E!fp2_add(v, w, p), p) = E!fp2_add(E!fp2_mul(u, v, p), E!fp2_mul(u, w, p), p)
  BY MulDistributes
<1>4. E!fp2_mul(u, E!One, p) = u /\ E!fp2_sqr(u, p) = E!fp2_mul(u, u, p)
  BY OneNeutral, SqrIsMul
<1> QED BY <1>1, <1>2, <1>3, <1>4, AddLaws
-----------------------------------------------------------------------------
(***************************************************************************)
(* Powers modulo p: w[k] is x^k.                                           *)
(***************************************************************************)
IsPower(w, x, n, p) ==
  w \in [0 .. n -> Fp(p)] /\ w[0] = 1 /\ \A k \in 1 .. n : w[k] = (w[k - 1] * x) % p

LEMMA PowerExists ==
  ASSUME NEW p \in Nat, NEW x \in Int, NEW n \in Nat, p > 1
  PROVE  \E w : IsPower(w, x, n, p)
<1> DEFINE Step == [k \in 1 .. n |-> [v \in Fp(p) |-> (v * x) % p]]
<1>1. Step \in [1 .. n -> [Fp(p) -> Fp(p)]]
  <2>1. ASSUME NEW v \in Fp(p) PROVE (v * x) % p \in Fp(p)
    <3>1. v * x \in Int
      BY FpInt
    <3> QED BY <3>1, IntMod
  <2> QED BY <2>1
<1>2. 1 \in Fp(p)
  BY DEF Fp
<1>3. PICK w \in [0 .. n -> Fp(p)] : IsLoop(w, n, 1, Step)
  <2> HIDE DEF Step
  <2> QED BY <1>1, <1>2, LoopExists
<1>4. w[0] = 1
  BY <1>3 DEF IsLoop
<1>5. ASSUME NEW k \in 1 .. n PROVE w[k] = (w[k - 1] * x) % p
  <2>1. k - 1 \in 0 .. n
    OBVIOUS
  <2>2. w[k - 1] \in Fp(p) /\ w[k] = Step[k][w[k - 1]]
    BY <1>3, <2>1 DEF IsLoop
  <2> QED BY <2>2
<1> QED BY <1>4, <1>5 DEF IsPower

LEMMA PowerValue ==
  ASSUME NEW p \in Nat, NEW x \in Int, NEW n \in Nat, NEW w, NEW k \in 0 .. n, IsPower(w, x, n, p)
  PROVE  w[k] \in Fp(p) /\ w[k] \in Int
BY FpInt DEF IsPower

\* The first power, and the next one.
LEMMA PowerNext ==
  ASSUME NEW p \in Nat, NEW x \in Int, NEW n \in Nat, NEW w, NEW k \in 1 .. n, IsPower(w, x, n, p), p > 0
  PROVE  w[k - 1] \in Int /\ Same(w[k], w[k - 1] * x, p)
<1>1. k - 1 \in 0 .. n
  OBVIOUS
<1>2. w[k - 1] \in Int
  BY <1>1, PowerValue
<1>3. w[k] = (w[k - 1] * x) % p
  BY DEF IsPower
<1> DEFINE m == w[k - 1] * x
<1>4. m \in Int
  BY <1>2
<1> HIDE DEF m
<1>5. Same(m % p, m, p)
  BY <1>4, SameMod
<1> QED BY <1>2, <1>3, <1>5 DEF m

LEMMA PowerAdds ==
  ASSUME NEW p \in Nat, NEW x \in Int, NEW n \in Nat, NEW w, NEW i \in 0 .. n, NEW j \in 0 .. n,
         IsPower(w, x, n, p), p > 0, i + j <= n
  PROVE  Same(w[i + j], w[i] * w[j], p)
<1> DEFINE S == {k \in 0 .. j : Same(w[i + k], w[i] * w[k], p)}
<1>p. p \in Int
  OBVIOUS
<1>0. w[i] \in Int
  BY PowerValue
<1>1. 0 \in S
  <2>1. w[0] = 1
    BY DEF IsPower
  <2>2. w[i] * w[0] = w[i] /\ i + 0 = i
    BY <1>0, <2>1
  <2>3. Same(w[i], w[i], p)
    BY <1>0, SameRefl
  <2> QED BY <2>2, <2>3
<1>2. ASSUME NEW k \in 1 .. j, k - 1 \in S PROVE k \in S
  <2> DEFINE u == w[i + k]
             v == w[i + (k - 1)]
             a == w[k]
             b == w[k - 1]
             c == w[i]
  <2>1. i + k \in 1 .. n /\ (i + k) - 1 = i + (k - 1) /\ k \in 1 .. n /\ k \in 0 .. n /\ i + k \in 0 .. n
    OBVIOUS
  <2>2. v \in Int /\ Same(u, v * x, p)
    <3>1. w[(i + k) - 1] \in Int /\ Same(w[i + k], w[(i + k) - 1] * x, p)
      BY <2>1, PowerNext
    <3> QED BY <2>1, <3>1
  <2>3. b \in Int /\ Same(a, b * x, p)
    BY <2>1, PowerNext
  <2>4. u \in Int /\ a \in Int /\ c \in Int
    BY <2>1, PowerValue
  <2>5. Same(v, c * b, p)
    BY <1>2
  <2> HIDE DEF u, v, a, b, c
  <2> DEFINE z1 == u - v * x
             z2 == a - b * x
             z3 == v - c * b
             e  == u - c * a
             d  == -c
  <2>6. z1 \in Int /\ z2 \in Int /\ z3 \in Int /\ e \in Int /\ d \in Int /\ v * x \in Int /\ b * x \in Int /\ c * b \in Int /\ c * a \in Int
    BY <2>2, <2>3, <2>4
  <2>7. Same(z1, 0, p) /\ Same(z2, 0, p) /\ Same(z3, 0, p)
    BY <1>p, <2>2, <2>3, <2>4, <2>5, <2>6, SameZero
  <2>8. Combination4(e, 1, z1, d, z2, x, z3, 0, z1)
    BY <2>2, <2>3, <2>4 DEF Combination4
  <2>9. Same(e, 0, p)
    <3> HIDE DEF e, z1, z2, z3, d
    <3>1. 1 \in Int /\ 0 \in Int
      OBVIOUS
    <3> QED BY <1>p, <2>6, <2>7, <2>8, <3>1, Combined4
  <2>10. Same(u, c * a, p)
    BY <1>p, <2>4, <2>6, <2>9, SameZero
  <2> QED BY <2>10 DEF u, c, a
<1>3. j \in S
  <2> HIDE DEF S
  <2>1. \A k \in 0 .. j : k \in S
    BY <1>1, <1>2, UpTo
  <2> QED BY <2>1
<1> QED BY <1>3

\* A power of u is a power of x where u is one.
LEMMA PowerTimes ==
  ASSUME NEW p \in Nat, NEW x \in Int, NEW n \in Nat, NEW w, NEW d \in Nat, NEW k \in Nat,
         NEW u \in Int, NEW m \in Nat, NEW v,
         IsPower(w, x, n, p), p > 0, IsPower(v, u, m, p),
         d * k <= n, k <= m, d <= n, Same(u, w[d], p)
  PROVE  Same(v[k], w[d * k], p)
<1> DEFINE S == {j \in 0 .. k : Same(v[j], w[d * j], p)}
<1>p. p \in Int
  OBVIOUS
<1>1. 0 \in S
  <2>1. v[0] = 1 /\ w[0] = 1 /\ d * 0 = 0 /\ 1 \in Int
    BY DEF IsPower
  <2> QED BY <1>p, <2>1, SameRefl
<1>2. ASSUME NEW j \in 1 .. k, j - 1 \in S PROVE j \in S
  <2> DEFINE h == d * (j - 1)
             a == v[j]
             b == v[j - 1]
             f == w[h]
             g == w[h + d]
             c == w[d]
  <2>1. h \in Nat /\ h + d = d * j /\ d * j \in Nat
    OBVIOUS
  <2>2. d * j <= d * k
    <3>1. k - j \in Nat
      OBVIOUS
    <3>2. d * k = d * j + d * (k - j) /\ d * (k - j) \in Nat
      BY <3>1
    <3> QED BY <2>1, <3>2
  <2>3. h \in 0 .. n /\ d \in 0 .. n /\ h + d <= n /\ j \in 1 .. m /\ h + d \in 0 .. n /\ j \in 0 .. m
    <3> HIDE DEF h
    <3>1. d * k \in Nat
      OBVIOUS
    <3> QED BY <2>1, <2>2, <3>1
  <2> HIDE DEF h
  <2>4. Same(g, f * c, p)
    BY <2>3, PowerAdds
  <2>5. b \in Int /\ Same(a, b * u, p)
    BY <2>3, PowerNext
  <2>6. a \in Int /\ f \in Int /\ g \in Int /\ c \in Int
    BY <2>3, PowerValue
  <2>7. Same(b, f, p)
    BY <1>2 DEF h
  <2> HIDE DEF a, b, f, g, c
  <2>8. Same(b * u, f * c, p)
    BY <1>p, <2>5, <2>6, <2>7, SameTimes DEF c
  <2>9. b * u \in Int /\ f * c \in Int
    BY <2>5, <2>6
  <2>10. Same(a, f * c, p) /\ Same(f * c, g, p)
    BY <1>p, <2>4, <2>5, <2>6, <2>8, <2>9, SameTrans, SameSym
  <2>11. Same(a, g, p)
    BY <1>p, <2>6, <2>9, <2>10, SameTrans
  <2> QED BY <2>1, <2>11 DEF a, g
<1>3. k \in S
  <2> HIDE DEF S
  <2>1. \A j \in 0 .. k : j \in S
    BY <1>1, <1>2, UpTo
  <2> QED BY <2>1
<1> QED BY <1>3

LEMMA HalfIndex ==
  ASSUME NEW n \in Nat, NEW k \in 1 .. n
  PROVE  /\ k \div 2 \in 0 .. n /\ k \div 2 < k /\ k % 2 \in {0, 1}
         /\ k = (k \div 2) + (k \div 2) + (k % 2)
OBVIOUS

\* Halving the exponent.
LEMMA PowerHalf ==
  ASSUME NEW p \in Nat, NEW x \in Int, NEW n \in Nat, NEW w, NEW k \in 1 .. n,
         IsPower(w, x, n, p), p > 0
  PROVE  w[k] = (((w[k \div 2] * w[k \div 2]) % p) * (IF k % 2 = 0 THEN 1 ELSE x)) % p
<1> DEFINE i == k \div 2
           c == IF k % 2 = 0 THEN 1 ELSE x
           h == w[i]
           m == h * h
           r == m % p
           s == r * c
           t == s % p
           g == w[i + i]
           a == w[k]
<1>p. p \in Int
  OBVIOUS
<1>1. i \in 0 .. n /\ i + i <= n /\ i + i \in 0 .. n /\ i + i <= k /\ k \in 0 .. n
  BY HalfIndex
<1>2. h \in Int /\ g \in Int /\ a \in Int /\ a \in Fp(p) /\ g \in Fp(p) /\ Same(g, h * h, p)
  <2> HIDE DEF i
  <2> QED BY <1>1, PowerValue, PowerAdds
<1>3. Same(a, g * c, p) /\ c \in Int
  <2>1. CASE k % 2 = 0
    <3>1. k = i + i /\ c = 1
      BY <2>1, HalfIndex
    <3>2. g * c = a
      <4> HIDE DEF i, c
      <4>1. g = a
        BY <3>1
      <4> HIDE DEF g, a
      <4> QED BY <1>2, <3>1, <4>1
    <3> HIDE DEF g, a, c
    <3> QED BY <1>p, <1>2, <3>1, <3>2, SameRefl
  <2>2. CASE k % 2 # 0
    <3>1. k - 1 = i + i /\ c = x
      BY <2>2, HalfIndex
    <3>2. Same(w[k], w[k - 1] * x, p)
      BY PowerNext
    <3> QED BY <3>1, <3>2
  <2> QED BY <2>1, <2>2
<1> HIDE DEF g, a, h, c, i
<1>4. m \in Int /\ Same(r, m, p) /\ r \in Int
  <2>1. m \in Int
    BY <1>2
  <2> HIDE DEF m
  <2> QED BY <2>1, SameMod, IntMod
<1> HIDE DEF r
<1>5. s \in Int /\ Same(t, s, p) /\ t \in Int /\ t \in Fp(p)
  <2>1. s \in Int
    BY <1>3, <1>4
  <2> HIDE DEF s
  <2> QED BY <2>1, SameMod, IntMod
<1> HIDE DEF t
<1>6. Same(g, r, p)
  <2>1. Same(m, r, p)
    <3> HIDE DEF m
    <3> QED BY <1>p, <1>4, SameSym
  <2> HIDE DEF m
  <2>2. Same(g, m, p)
    BY <1>2 DEF m
  <2> QED BY <1>p, <1>2, <1>4, <2>1, <2>2, SameTrans
<1>7. Same(g * c, s, p)
  BY <1>p, <1>2, <1>3, <1>4, <1>6, SameTimes, SameRefl
<1>8. Same(a, t, p)
  <2> DEFINE gc == g * c
  <2>1. gc \in Int /\ Same(a, gc, p) /\ Same(gc, s, p) /\ Same(s, t, p)
    <3>1. gc \in Int
      BY <1>2, <1>3
    <3> HIDE DEF s
    <3> QED BY <1>p, <1>3, <1>5, <1>7, <3>1, SameSym DEF s
  <2> HIDE DEF gc, s
  <2>2. Same(a, s, p)
    BY <1>p, <1>2, <1>5, <2>1, SameTrans DEF s
  <2> QED BY <1>p, <1>2, <1>5, <2>1, <2>2, SameTrans DEF s
<1>9. a = t
  BY <1>2, <1>5, <1>8, SameSmall DEF Fp
<1> QED BY <1>9 DEF a, t, s, r, m, h, c, i

\* What mpz_powm computes by halving the exponent is the power.
LEMMA PowmIsPower ==
  ASSUME NEW p \in Nat, NEW x \in Int, NEW n \in Nat, NEW w, IsPower(w, x, n, p), p > 0
  PROVE  E!zp_powm(x, n, p) = w[n]
<1> DEFINE Body(z) == [k \in 0 .. n |->
                         IF k = 0 THEN 1
                         ELSE (((z[k \div 2] * z[k \div 2]) % p) * (IF k % 2 = 0 THEN 1 ELSE x)) % p]
           z == CHOOSE z : z = Body(z)
<1>1. E!zp_powm(x, n, p) = z[n]
  BY DEF E!zp_powm
<1>2. w = Body(w)
  <2>1. ASSUME NEW k \in 0 .. n
        PROVE  w[k] = IF k = 0 THEN 1
                      ELSE (((w[k \div 2] * w[k \div 2]) % p) * (IF k % 2 = 0 THEN 1 ELSE x)) % p
    <3>1. CASE k = 0
      BY <3>1 DEF IsPower
    <3>2. CASE k # 0
      <4>1. k \in 1 .. n
        BY <3>2
      <4> QED BY <3>2, <4>1, PowerHalf
    <3> QED BY <3>1, <3>2
  <2>2. w \in [0 .. n -> Fp(p)]
    BY DEF IsPower
  <2> QED BY <2>1, <2>2
<1>3. z = Body(z)
  BY <1>2
<1> HIDE DEF z
<1> DEFINE T == {k \in 0 .. n : z[k] # w[k]}
<1>4. T = {}
  <2> SUFFICES ASSUME T # {} PROVE FALSE
    OBVIOUS
  <2>1. PICK k \in T : \A j \in T : k <= j
    <3>1. T \in SUBSET Nat
      OBVIOUS
    <3> HIDE DEF T
    <3> QED BY <3>1, Least
  <2>2. k \in 0 .. n /\ z[k] # w[k]
    OBVIOUS
  <2>3. CASE k = 0
    <3>1. z[0] = 1 /\ w[0] = 1
      BY <1>3 DEF IsPower
    <3> QED BY <2>2, <2>3, <3>1
  <2>4. CASE k # 0
    <3>1. k \in 1 .. n
      BY <2>2, <2>4
    <3> DEFINE i == k \div 2
    <3>2. i \in 0 .. n /\ ~ (k <= i)
      BY <3>1, HalfIndex
    <3>3. z[i] = w[i]
      <4> HIDE DEF i
      <4> QED BY <2>1, <3>2
    <3>4. z[k] = (((z[i] * z[i]) % p) * (IF k % 2 = 0 THEN 1 ELSE x)) % p
      BY <1>3, <2>2, <2>4
    <3>5. w[k] = (((w[i] * w[i]) % p) * (IF k % 2 = 0 THEN 1 ELSE x)) % p
      BY <3>1, PowerHalf
    <3> HIDE DEF i
    <3> QED BY <2>2, <3>3, <3>4, <3>5
  <2> QED BY <2>3, <2>4
<1>5. z[n] = w[n]
  <2>1. n \in 0 .. n
    OBVIOUS
  <2> QED BY <1>4, <2>1
<1> QED BY <1>1, <1>5

LEMMA PowerNonZero ==
  ASSUME NEW p \in Nat, NEW x \in Int, NEW n \in Nat, NEW w, NEW k \in 0 .. n,
         Prime(p), IsPower(w, x, n, p), ~ Same(x, 0, p)
  PROVE  w[k] \in 1 .. p - 1
<1> DEFINE S == {j \in 0 .. n : ~ Same(w[j], 0, p)}
<1>p. p > 1 /\ p > 0 /\ p \in Int
  BY DEF Prime
<1>1. 0 \in S
  <2>1. w[0] = 1 /\ 1 \in 0 .. p - 1 /\ 0 \in 0 .. p - 1
    BY <1>p DEF IsPower
  <2>2. ~ Same(1, 0, p)
    BY <2>1, SameSmall
  <2> QED BY <2>1, <2>2
<1>2. ASSUME NEW j \in 1 .. n, j - 1 \in S PROVE j \in S
  <2> DEFINE a == w[j]
             b == w[j - 1]
  <2>1. b \in Int /\ Same(a, b * x, p)
    BY <1>p, PowerNext
  <2>2. j \in 0 .. n /\ a \in Int
    <3>1. j \in 0 .. n
      OBVIOUS
    <3> QED BY <3>1, PowerValue
  <2>3. ~ Same(b, 0, p)
    BY <1>2
  <2> HIDE DEF a, b
  <2>4. ~ Same(a, 0, p)
    <3> SUFFICES ASSUME Same(a, 0, p) PROVE FALSE
      OBVIOUS
    <3> DEFINE m == b * x
    <3>1. m \in Int /\ Same(a, m, p)
      BY <2>1
    <3> HIDE DEF m
    <3>2. Same(m, a, p) /\ 0 \in Int
      BY <1>p, <2>2, <3>1, SameSym
    <3>3. Same(m, 0, p)
      BY <1>p, <2>2, <3>1, <3>2, SameTrans
    <3>4. Same(b * x, 0, p)
      BY <3>3 DEF m
    <3> QED BY <2>1, <2>3, <3>4, CancelFactor
  <2> QED BY <2>2, <2>4 DEF a
<1>3. k \in S
  <2> HIDE DEF S
  <2>1. \A j \in 0 .. n : j \in S
    BY <1>1, <1>2, UpTo
  <2> QED BY <2>1
<1>4. w[k] \in 0 .. p - 1 /\ w[k] \in Int
  BY PowerValue DEF Fp
<1>5. w[k] # 0
  BY <1>3, <1>p, SameRefl
<1> QED BY <1>4, <1>5

\* Equal powers are a period apart.
LEMMA PowerDiffers ==
  ASSUME NEW p \in Nat, NEW x \in Int, NEW n \in Nat, NEW w, NEW i \in 0 .. n, NEW j \in 0 .. n,
         Prime(p), IsPower(w, x, n, p), ~ Same(x, 0, p), i < j, Same(w[i], w[j], p)
  PROVE  w[j - i] = 1
<1>p. p > 1 /\ p > 0 /\ p \in Int /\ 1 \in 0 .. p - 1
  BY DEF Prime
<1> DEFINE a == w[i]
           b == w[j - i]
           c == w[j]
<1>1. j - i \in 0 .. n /\ i + (j - i) = j /\ i + (j - i) <= n
  OBVIOUS
<1>2. a \in Int /\ b \in Int /\ c \in Int /\ b \in 0 .. p - 1
  BY <1>1, PowerValue DEF Fp
<1>3. Same(c, a * b, p)
  BY <1>p, <1>1, PowerAdds
<1>4. ~ Same(a, 0, p)
  <2>1. a \in 1 .. p - 1 /\ a \in 0 .. p - 1 /\ 0 \in 0 .. p - 1 /\ a # 0
    <3>1. a \in 1 .. p - 1
      BY PowerNonZero
    <3> QED BY <3>1
  <2> QED BY <2>1, SameSmall
<1>5. Same(a, c, p)
  OBVIOUS
<1> HIDE DEF a, b, c
<1>6. Same(a, a * b, p) /\ a * b \in Int
  <2>1. a * b \in Int
    BY <1>2
  <2> QED BY <1>p, <1>2, <1>3, <1>5, <2>1, SameTrans
<1>7. Same(a * (b - 1), 0, p) /\ b - 1 \in Int
  <2>1. Same(a * b, a, p)
    BY <1>p, <1>2, <1>6, SameSym
  <2>2. Same(a * b - a, 0, p)
    BY <1>p, <1>2, <1>6, <2>1, SameZero
  <2>3. a * b - a = a * (b - 1) /\ b - 1 \in Int
    BY <1>2
  <2> QED BY <2>2, <2>3
<1>8. Same(b, 1, p)
  <2>1. Same(b - 1, 0, p)
    BY <1>2, <1>4, <1>7, CancelFactor
  <2> QED BY <1>p, <1>2, <2>1, SameZero
<1>9. b = 1
  BY <1>p, <1>2, <1>8, SameSmall
<1> QED BY <1>9 DEF b

\* The powers come round: the least period is the order of x.
IsOrder(d, w, n) == d \in 1 .. n /\ w[d] = 1 /\ \A k \in 1 .. d - 1 : w[k] # 1

LEMMA OrderExists ==
  ASSUME NEW p \in Nat, NEW x \in Int, NEW n \in Nat, NEW w,
         Prime(p), IsPower(w, x, n, p), ~ Same(x, 0, p), n >= p - 1
  PROVE  \E d \in 1 .. p - 1 : IsOrder(d, w, n)
<1>p. p > 1 /\ p > 0 /\ p \in Int
  BY DEF Prime
<1> DEFINE f == [k \in 0 .. p - 1 |-> w[k]]
           D == {d \in 1 .. p - 1 : w[d] = 1}
<1>1. f \in [0 .. p - 1 -> 1 .. p - 1]
  <2>1. ASSUME NEW k \in 0 .. p - 1 PROVE w[k] \in 1 .. p - 1
    <3>1. k \in 0 .. n
      BY <1>p
    <3> QED BY <3>1, PowerNonZero
  <2> QED BY <2>1
<1>2. /\ IsFiniteSet(0 .. p - 1) /\ IsFiniteSet(1 .. p - 1)
      /\ Cardinality(1 .. p - 1) < Cardinality(0 .. p - 1)
  <2>1. 0 \in Int /\ 1 \in Int /\ p - 1 \in Int /\ ~ (0 > p - 1) /\ (1 > p - 1 => p - 1 = 0)
    BY <1>p
  <2>2. IsFiniteSet(0 .. p - 1) /\ Cardinality(0 .. p - 1) = IF 0 > p - 1 THEN 0 ELSE (p - 1) - 0 + 1
    BY <2>1, FS_Interval
  <2>3. IsFiniteSet(1 .. p - 1) /\ Cardinality(1 .. p - 1) = IF 1 > p - 1 THEN 0 ELSE (p - 1) - 1 + 1
    BY <2>1, FS_Interval
  <2> QED BY <1>p, <2>1, <2>2, <2>3
<1>3. \E i, j \in 0 .. p - 1 : i # j /\ f[i] = f[j]
  <2> HIDE DEF f
  <2> QED BY <1>1, <1>2, FS_PigeonHole
<1>4. PICK i \in 0 .. p - 1, j \in 0 .. p - 1 : i < j /\ w[i] = w[j]
  <2>1. PICK i \in 0 .. p - 1, j \in 0 .. p - 1 : i # j /\ f[i] = f[j]
    BY <1>3
  <2>2. i < j \/ j < i
    BY <2>1
  <2> QED BY <2>1, <2>2
<1>5. j - i \in D
  <2>1. i \in 0 .. n /\ j \in 0 .. n /\ j - i \in 1 .. p - 1
    BY <1>p, <1>4
  <2>2. Same(w[i], w[j], p)
    <3>1. w[i] \in Int
      BY <2>1, PowerValue
    <3> QED BY <1>p, <1>4, <3>1, SameRefl
  <2>3. w[j - i] = 1
    BY <1>4, <2>1, <2>2, PowerDiffers
  <2> QED BY <2>1, <2>3
<1>6. PICK d \in D : \A e \in D : d <= e
  <2>1. D \in SUBSET Nat /\ D # {}
    BY <1>5
  <2> HIDE DEF D
  <2> QED BY <2>1, Least
<1>7. d \in 1 .. p - 1 /\ d \in 1 .. n /\ w[d] = 1
  BY <1>p
<1>8. ASSUME NEW k \in 1 .. d - 1 PROVE w[k] # 1
  <2>1. k \in 1 .. p - 1 /\ ~ (d <= k)
    BY <1>7
  <2> QED BY <1>6, <2>1
<1> QED BY <1>7, <1>8 DEF IsOrder

LEMMA PowerPeriod ==
  ASSUME NEW p \in Nat, NEW x \in Int, NEW n \in Nat, NEW w, NEW d \in Nat, NEW c \in Nat,
         IsPower(w, x, n, p), p > 1, w[d] = 1, d * c <= n
  PROVE  w[d * c] = 1
<1>p. p > 0 /\ p \in Int /\ 1 \in Fp(p) /\ 1 \in Int
  BY DEF Fp
<1>1. CASE c = 0
  BY <1>1 DEF IsPower
<1>2. CASE c # 0
  <2> DEFINE S == {j \in 0 .. c : w[d * j] = 1}
  <2>1. 0 \in S
    BY DEF IsPower
  <2>2. ASSUME NEW j \in 1 .. c, j - 1 \in S PROVE j \in S
    <3> DEFINE h == d * (j - 1)
    <3>1. h \in Nat /\ h + d = d * j /\ d * j \in Nat
      OBVIOUS
    <3>2. d * j <= d * c /\ d <= d * j
      <4>1. c - j \in Nat /\ d * c = d * j + d * (c - j) /\ d * (c - j) \in Nat
        OBVIOUS
      <4>2. d * c \in Nat
        OBVIOUS
      <4> HIDE DEF h
      <4> QED BY <3>1, <4>1, <4>2
    <3>3. h \in 0 .. n /\ d \in 0 .. n /\ h + d <= n /\ h + d \in 0 .. n
      <4>1. d * c \in Nat
        OBVIOUS
      <4> HIDE DEF h
      <4> QED BY <3>1, <3>2, <4>1
    <3>4. w[h] = 1
      BY <2>2
    <3> HIDE DEF h
    <3>5. Same(w[h + d], w[h] * w[d], p)
      BY <1>p, <3>3, PowerAdds
    <3>6. w[h] * w[d] = 1
      BY <3>4
    <3>7. w[h + d] \in 0 .. p - 1 /\ 1 \in 0 .. p - 1
      BY <1>p, <3>3, PowerValue DEF Fp
    <3>8. w[h + d] = 1
      BY <3>5, <3>6, <3>7, SameSmall
    <3> QED BY <3>1, <3>8
  <2>3. c \in S
    <3> HIDE DEF S
    <3>1. \A j \in 0 .. c : j \in S
      BY <2>1, <2>2, UpTo
    <3> QED BY <3>1
  <2> QED BY <2>3
<1> QED BY <1>1, <1>2

\* y times the powers of x.
Orbit(y, w, d, p) == {(y * w[k]) % p : k \in 0 .. d - 1}

\* x times a member is a member.
ClosedBy(U, x, p) == \A u \in U : (u * x) % p \in U

\* One more power.
LEMMA OrbitNext ==
  ASSUME NEW p \in Nat, NEW x \in Int, NEW n \in Nat, NEW w, NEW y \in Int, NEW k \in 1 .. n,
         IsPower(w, x, n, p), p > 0
  PROVE  (y * w[k]) % p = (((y * w[k - 1]) % p) * x) % p
<1> DEFINE a == w[k]
           b == w[k - 1]
           m == y * b
           r == m % p
           l == y * a
           s == r * x
<1>p. p \in Int
  OBVIOUS
<1>1. k \in 0 .. n /\ k - 1 \in 0 .. n
  OBVIOUS
<1>2. a \in Int /\ b \in Int /\ Same(a, b * x, p)
  BY <1>1, PowerValue, PowerNext
<1> HIDE DEF a, b
<1>3. m \in Int /\ l \in Int /\ r \in Int /\ Same(r, m, p)
  <2>1. m \in Int /\ l \in Int
    BY <1>2
  <2> HIDE DEF m
  <2> QED BY <2>1, SameMod, IntMod
<1> HIDE DEF r
<1>4. s \in Int
  BY <1>3
<1>5. Same(l, s, p)
  <2> DEFINE z1 == a - b * x
             z2 == r - m
             e  == l - s
             c2 == -x
  <2>1. z1 \in Int /\ z2 \in Int /\ e \in Int /\ b * x \in Int /\ c2 \in Int
    BY <1>2, <1>3, <1>4
  <2>2. Same(z1, 0, p) /\ Same(z2, 0, p)
    <3> HIDE DEF m
    <3> QED BY <1>p, <1>2, <1>3, <2>1, SameZero
  <2>3. Combination(e, y, z1, c2, z2)
    BY <1>2, <1>3 DEF Combination
  <2>4. Same(e, 0, p)
    <3> HIDE DEF e, z1, z2, c2
    <3> QED BY <1>p, <2>1, <2>2, <2>3, Combined
  <2> HIDE DEF l, s
  <2> QED BY <1>p, <1>3, <1>4, <2>4, SameZero DEF l, s
<1>6. l % p = s % p
  <2> HIDE DEF l, s
  <2> QED BY <1>3, <1>4, <1>5, ModSameIff DEF l, s
<1> QED BY <1>6 DEF l, s, a, b, r, m

\* d of them, all different.
LEMMA OrbitSize ==
  ASSUME NEW p \in Nat, NEW x \in Int, NEW n \in Nat, NEW w, NEW y \in 1 .. p - 1, NEW d \in 1 .. p - 1,
         Prime(p), IsPower(w, x, n, p), ~ Same(x, 0, p), IsOrder(d, w, n)
  PROVE  /\ Orbit(y, w, d, p) \in SUBSET (1 .. p - 1)
         /\ IsFiniteSet(Orbit(y, w, d, p)) /\ Cardinality(Orbit(y, w, d, p)) = d
<1>p. p > 1 /\ p > 0 /\ p \in Int /\ d <= n /\ w[d] = 1
  BY DEF Prime, IsOrder
<1> DEFINE f == [k \in 0 .. d - 1 |-> (y * w[k]) % p]
           O == Orbit(y, w, d, p)
<1>0. ~ Same(y, 0, p)
  <2>1. y \in 0 .. p - 1 /\ 0 \in 0 .. p - 1 /\ y # 0
    OBVIOUS
  <2> QED BY <2>1, SameSmall
<1>1. ASSUME NEW k \in 0 .. d - 1
      PROVE  /\ k \in 0 .. n /\ w[k] \in Int /\ y * w[k] \in Int
             /\ (y * w[k]) % p \in 1 .. p - 1 /\ Same((y * w[k]) % p, y * w[k], p)
  <2>1. k \in 0 .. n
    BY <1>p
  <2>2. w[k] \in Int /\ w[k] \in 1 .. p - 1
    BY <2>1, PowerValue, PowerNonZero
  <2> DEFINE v == w[k]
             m == y * v
  <2>3. v \in Int /\ m \in Int
    BY <2>2
  <2>4. ~ Same(v, 0, p)
    <3>1. v \in 0 .. p - 1 /\ 0 \in 0 .. p - 1 /\ v # 0
      BY <2>2
    <3> HIDE DEF v
    <3> QED BY <3>1, SameSmall
  <2>5. ~ Same(m, 0, p)
    <3> HIDE DEF v
    <3> QED BY <1>0, <2>3, <2>4, CancelFactor
  <2> HIDE DEF m
  <2>6. m % p \in 0 .. p - 1 /\ Same(m % p, m, p) /\ m % p # 0
    BY <1>p, <2>3, <2>5, RangeOf, SameMod, ModZero
  <2>7. m % p \in 1 .. p - 1
    BY <2>6
  <2> QED BY <2>1, <2>2, <2>3, <2>6, <2>7 DEF m
<1>2. O \in SUBSET (1 .. p - 1)
  BY <1>1 DEF Orbit
<1>3. f \in [0 .. d - 1 -> O]
  BY DEF Orbit
<1>4. ASSUME NEW i \in 0 .. d - 1, NEW j \in 0 .. d - 1, i < j PROVE f[i] # f[j]
  <2> SUFFICES ASSUME f[i] = f[j] PROVE FALSE
    OBVIOUS
  <2> DEFINE a == w[i]
             b == w[j]
             l == y * a
             r == y * b
  <2>1. a \in Int /\ b \in Int /\ l \in Int /\ r \in Int /\ i \in 0 .. n /\ j \in 0 .. n
    BY <1>1
  <2>2. l % p = r % p
    OBVIOUS
  <2> HIDE DEF l, r
  <2>3. Same(l, r, p)
    BY <1>p, <2>1, <2>2, ModSameIff
  <2>4. Same(l - r, 0, p)
    BY <1>p, <2>1, <2>3, SameZero
  <2> HIDE DEF a, b
  <2>5. l - r = y * (a - b) /\ a - b \in Int
    BY <2>1 DEF l, r
  <2>6. Same(a - b, 0, p)
    <3> DEFINE e == a - b
    <3> HIDE DEF e
    <3>1. e \in Int /\ Same(y * e, 0, p)
      BY <2>4, <2>5 DEF e
    <3>2. y \in Int
      OBVIOUS
    <3>3. Same(e, 0, p)
      BY <1>0, <3>1, <3>2, CancelFactor
    <3> QED BY <3>3 DEF e
  <2>7. Same(w[i], w[j], p)
    <3>1. Same(a, b, p)
      BY <1>p, <2>1, <2>6, SameZero
    <3> QED BY <3>1 DEF a, b
  <2>8. w[j - i] = 1
    BY <1>4, <2>1, <2>7, PowerDiffers
  <2>9. j - i \in 1 .. d - 1
    BY <1>4
  <2> QED BY <2>8, <2>9 DEF IsOrder
<1>5. ASSUME NEW i \in 0 .. d - 1, NEW j \in 0 .. d - 1, f[i] = f[j] PROVE i = j
  <2>1. ~ (i < j) /\ ~ (j < i)
    <3> HIDE DEF f
    <3> QED BY <1>4, <1>5
  <2> QED BY <2>1
<1>6. f \in Injection(0 .. d - 1, O)
  <2> HIDE DEF O
  <2>1. IsInjective(f)
    <3>1. DOMAIN f = 0 .. d - 1
      OBVIOUS
    <3> HIDE DEF f
    <3> QED BY <1>5, <3>1 DEF IsInjective
  <2> HIDE DEF f
  <2> QED BY <1>3, <2>1 DEF Injection
<1>7. f \in Surjection(0 .. d - 1, O)
  <2>1. ASSUME NEW o \in O PROVE \E k \in 0 .. d - 1 : f[k] = o
    BY DEF Orbit
  <2> HIDE DEF f, O
  <2> QED BY <1>3, <2>1 DEF Surjection
<1>8. ExistsBijection(0 .. d - 1, O)
  <2> HIDE DEF f, O
  <2> QED BY <1>6, <1>7 DEF ExistsBijection, Bijection
<1>9. IsFiniteSet(0 .. d - 1) /\ Cardinality(0 .. d - 1) = d
  <2>1. 0 \in Int /\ d - 1 \in Int /\ ~ (0 > d - 1) /\ (d - 1) - 0 + 1 = d
    OBVIOUS
  <2> QED BY <2>1, FS_Interval
<1>10. IsFiniteSet(O) /\ Cardinality(O) = d
  <2> HIDE DEF O
  <2> QED BY <1>8, <1>9, FS_Bijection
<1> QED BY <1>2, <1>10

\* An orbit that begins outside of a closed set stays outside.
LEMMA OrbitApart ==
  ASSUME NEW p \in Nat, NEW x \in Int, NEW n \in Nat, NEW w, NEW y \in 1 .. p - 1, NEW d \in 1 .. p - 1,
         NEW U \in SUBSET (1 .. p - 1),
         Prime(p), IsPower(w, x, n, p), IsOrder(d, w, n), ClosedBy(U, x, p), y \notin U
  PROVE  U \cap Orbit(y, w, d, p) = {} /\ ClosedBy(U \cup Orbit(y, w, d, p), x, p)
<1>p. p > 1 /\ p > 0 /\ p \in Int /\ d \in 1 .. n /\ w[d] = 1 /\ w[0] = 1
  BY DEF Prime, IsOrder, IsPower
<1>0. (y * w[d]) % p = y /\ (y * w[0]) % p = y
  <2>1. y * 1 = y /\ y % p = y
    BY <1>p
  <2> QED BY <1>p, <2>1
<1>1. ASSUME NEW k \in 1 .. n PROVE (((y * w[k - 1]) % p) * x) % p = (y * w[k]) % p
  <2>1. y \in Int
    OBVIOUS
  <2>2. p > 0
    BY <1>p
  <2>3. (y * w[k]) % p = (((y * w[k - 1]) % p) * x) % p
    BY <2>1, <2>2, OrbitNext
  <2> QED BY <2>3
<1>2. ASSUME NEW k \in 0 .. d - 1, (y * w[k]) % p \in U PROVE FALSE
  <2> DEFINE S == {j \in 0 .. d - k : (y * w[k + j]) % p \in U}
  <2>1. 0 \in S
    BY <1>2
  <2>2. ASSUME NEW j \in 1 .. d - k, j - 1 \in S PROVE j \in S
    <3>1. k + j \in 1 .. n /\ k + (j - 1) = (k + j) - 1
      BY <1>p
    <3>2. (y * w[(k + j) - 1]) % p \in U
      BY <2>2, <3>1
    <3>3. (((y * w[(k + j) - 1]) % p) * x) % p \in U
      BY <3>2 DEF ClosedBy
    <3>4. (y * w[k + j]) % p \in U
      BY <1>1, <3>1, <3>3
    <3> QED BY <3>4
  <2>3. d - k \in S
    <3> HIDE DEF S
    <3>1. d - k \in Nat /\ d - k \in 0 .. d - k
      OBVIOUS
    <3>2. \A j \in 0 .. d - k : j \in S
      BY <2>1, <2>2, <3>1, UpTo
    <3> QED BY <3>1, <3>2
  <2>4. k + (d - k) = d
    OBVIOUS
  <2> QED BY <1>0, <2>3, <2>4
<1>3. ASSUME NEW k \in 0 .. d - 1 PROVE (((y * w[k]) % p) * x) % p \in Orbit(y, w, d, p)
  <2>1. (((y * w[k]) % p) * x) % p = (y * w[k + 1]) % p
    <3>1. k + 1 \in 1 .. n /\ (k + 1) - 1 = k
      BY <1>p
    <3> QED BY <1>1, <3>1
  <2>2. CASE k + 1 = d
    <3>1. 0 \in 0 .. d - 1
      OBVIOUS
    <3> QED BY <1>0, <2>1, <2>2, <3>1 DEF Orbit
  <2>3. CASE k + 1 # d
    <3>1. k + 1 \in 0 .. d - 1
      BY <2>3
    <3> QED BY <2>1, <3>1 DEF Orbit
  <2> QED BY <2>2, <2>3
<1>4. U \cap Orbit(y, w, d, p) = {}
  BY <1>2 DEF Orbit
<1>5. ASSUME NEW u \in U \cup Orbit(y, w, d, p) PROVE (u * x) % p \in U \cup Orbit(y, w, d, p)
  <2>1. CASE u \in U
    BY <2>1 DEF ClosedBy
  <2>2. CASE u \in Orbit(y, w, d, p)
    <3>1. PICK k \in 0 .. d - 1 : u = (y * w[k]) % p
      BY <2>2 DEF Orbit
    <3>2. (((y * w[k]) % p) * x) % p \in Orbit(y, w, d, p)
      BY <1>3
    <3> QED BY <3>1, <3>2
  <2> QED BY <2>1, <2>2
<1> QED BY <1>4, <1>5 DEF ClosedBy

\* The order divides p - 1: a largest closed set of orbits leaves nothing out.
LEMMA OrderDivides ==
  ASSUME NEW p \in Nat, NEW x \in Int, NEW n \in Nat, NEW w, NEW d \in 1 .. p - 1,
         Prime(p), IsPower(w, x, n, p), ~ Same(x, 0, p), IsOrder(d, w, n)
  PROVE  \E c \in Nat : d * c = p - 1
<1> DEFINE All == 1 .. p - 1
           Whole(U) == ClosedBy(U, x, p) /\ \E c \in Nat : Cardinality(U) = d * c
           Rest == {e \in 0 .. p - 1 : \E U \in SUBSET All : Whole(U) /\ e = (p - 1) - Cardinality(U)}
<1>p. p > 1 /\ p > 0 /\ p \in Int
  BY DEF Prime
<1>0. IsFiniteSet(All) /\ Cardinality(All) = p - 1
  <2>1. 1 \in Int /\ p - 1 \in Int /\ ~ (1 > p - 1) /\ (p - 1) - 1 + 1 = p - 1
    BY <1>p
  <2> QED BY <2>1, FS_Interval
<1>1. ASSUME NEW U \in SUBSET All
      PROVE  IsFiniteSet(U) /\ Cardinality(U) \in 0 .. p - 1 /\ (Cardinality(U) = p - 1 => U = All)
  <2>1. IsFiniteSet(U) /\ Cardinality(U) <= p - 1 /\ (Cardinality(U) = p - 1 => U = All)
    <3> HIDE DEF All
    <3> QED BY <1>0, FS_Subset
  <2>2. Cardinality(U) \in Nat
    BY <2>1, FS_CardinalityType
  <2> QED BY <1>p, <2>1, <2>2
<1>2. Rest # {}
  <2>1. {} \in SUBSET All /\ ClosedBy({}, x, p) /\ Cardinality({}) = d * 0 /\ 0 \in Nat
    BY FS_EmptySet DEF ClosedBy
  <2>2. p - 1 \in 0 .. p - 1 /\ p - 1 = (p - 1) - Cardinality({})
    BY <1>p, FS_EmptySet
  <2> QED BY <2>1, <2>2
<1>3. PICK e \in Rest : \A f \in Rest : e <= f
  <2>1. Rest \in SUBSET Nat
    OBVIOUS
  <2> HIDE DEF Rest
  <2> QED BY <1>2, <2>1, Least
<1>4. PICK U \in SUBSET All : Whole(U) /\ e = (p - 1) - Cardinality(U)
  OBVIOUS
<1>5. U = All
  <2> SUFFICES ASSUME U # All PROVE FALSE
    OBVIOUS
  <2>1. PICK y \in All : y \notin U
    OBVIOUS
  <2> DEFINE O == Orbit(y, w, d, p)
             V == U \cup O
  <2>2. O \in SUBSET All /\ IsFiniteSet(O) /\ Cardinality(O) = d
    BY OrbitSize
  <2>3. U \cap O = {} /\ ClosedBy(V, x, p)
    BY <1>4, <2>1, OrbitApart
  <2> HIDE DEF O
  <2>4. Cardinality(V) = Cardinality(U) + d
    <3>1. Cardinality(U \cap O) = 0
      BY <2>3, FS_EmptySet
    <3>2. Cardinality(V) = Cardinality(U) + Cardinality(O) - Cardinality(U \cap O)
      BY <1>1, <2>2, FS_Union
    <3>3. Cardinality(U) \in Int
      BY <1>1
    <3> QED BY <2>2, <3>1, <3>2, <3>3
  <2>5. V \in SUBSET All
    BY <2>2
  <2> HIDE DEF V
  <2>6. PICK c \in Nat : Cardinality(U) = d * c
    BY <1>4
  <2>7. Cardinality(V) = d * (c + 1) /\ c + 1 \in Nat
    BY <2>4, <2>6
  <2>8. Cardinality(V) \in 0 .. p - 1 /\ Cardinality(U) \in 0 .. p - 1
    BY <1>1, <2>5
  <2> DEFINE g == (p - 1) - Cardinality(V)
  <2>9. g \in 0 .. p - 1 /\ ~ (e <= g)
    BY <1>4, <2>4, <2>8
  <2>10. g \in Rest
    BY <2>3, <2>5, <2>7, <2>9
  <2> QED BY <1>3, <2>9, <2>10
<1>6. PICK c \in Nat : Cardinality(U) = d * c
  BY <1>4
<1> QED BY <1>0, <1>5, <1>6

\* Fermat.
LEMMA PowerReturns ==
  ASSUME NEW p \in Nat, NEW x \in Int, NEW n \in Nat, NEW w,
         Prime(p), IsPower(w, x, n, p), ~ Same(x, 0, p), n >= p - 1
  PROVE  w[p - 1] = 1
<1>1. PICK d \in 1 .. p - 1 : IsOrder(d, w, n)
  BY OrderExists
<1>2. PICK c \in Nat : d * c = p - 1
  BY <1>1, OrderDivides
<1>3. w[d] = 1 /\ p > 1 /\ d \in Nat /\ d * c <= n
  BY <1>1, <1>2 DEF IsOrder, Prime
<1>4. w[d * c] = 1
  BY <1>3, PowerPeriod
<1> QED BY <1>2, <1>4

\* The power of a shorter exponent.
LEMMA PowmShorter ==
  ASSUME NEW p \in Nat, NEW x \in Int, NEW n \in Nat, NEW w, NEW m \in 0 .. n, IsPower(w, x, n, p), p > 0
  PROVE  E!zp_powm(x, m, p) = w[m]
<1> DEFINE v == [k \in 0 .. m |-> w[k]]
<1>1. v \in [0 .. m -> Fp(p)]
  <2>1. ASSUME NEW k \in 0 .. m PROVE w[k] \in Fp(p)
    <3>1. k \in 0 .. n
      OBVIOUS
    <3> QED BY <3>1, PowerValue
  <2> QED BY <2>1
<1>2. v[0] = 1
  BY DEF IsPower
<1>3. ASSUME NEW k \in 1 .. m PROVE v[k] = (v[k - 1] * x) % p
  <2>1. k \in 1 .. n /\ k \in 0 .. m /\ k - 1 \in 0 .. m
    OBVIOUS
  <2> QED BY <2>1 DEF IsPower
<1>4. IsPower(v, x, m, p)
  BY <1>1, <1>2, <1>3 DEF IsPower
<1>5. v[m] = w[m] /\ m \in Nat
  OBVIOUS
<1> HIDE DEF v
<1>6. E!zp_powm(x, m, p) = v[m]
  <2>1. m \in Nat /\ p > 0 /\ IsPower(v, x, m, p)
    BY <1>4, <1>5
  <2> HIDE DEF v
  <2> QED BY <2>1, PowmIsPower
<1> QED BY <1>5, <1>6

(***************************************************************************)
(* mpz_powm with the exponent p - 1 gives 1.                               *)
(***************************************************************************)
THEOREM PowmReturns ==
  ASSUME NEW p \in Nat, Prime(p), NEW x \in Int, x % p # 0
  PROVE  E!zp_powm(x, p - 1, p) = 1
<1>p. p > 1 /\ p > 0 /\ p - 1 \in Nat /\ p - 1 \in 0 .. p - 1
  BY DEF Prime
<1>1. ~ Same(x, 0, p)
  BY <1>p, ModZero
<1>2. PICK w : IsPower(w, x, p - 1, p)
  BY <1>p, PowerExists
<1>3. w[p - 1] = 1
  BY <1>p, <1>1, <1>2, PowerReturns
<1>4. E!zp_powm(x, p - 1, p) = w[p - 1]
  BY <1>p, <1>2, PowmIsPower
<1> QED BY <1>3, <1>4

\* Cubes of what is congruent.
LEMMA SameCube ==
  ASSUME NEW p \in Nat, NEW a \in Int, NEW b \in Int, Same(a, b, p)
  PROVE  Same(a * a * a, b * b * b, p)
<1>1. p \in Int /\ a * a \in Int /\ b * b \in Int
  OBVIOUS
<1>2. Same(a * a, b * b, p)
  BY <1>1, SameTimes
<1> DEFINE u == a * a
           v == b * b
<1> HIDE DEF u, v
<1>3. u \in Int /\ v \in Int /\ Same(u, v, p)
  BY <1>1, <1>2 DEF u, v
<1>4. Same(u * a, v * b, p)
  BY <1>1, <1>3, SameTimes
<1> QED BY <1>4 DEF u, v

(***************************************************************************)
(* With 3 m = 2 p - 1 the power m is a cube root modulo p, the only one.   *)
(***************************************************************************)
LEMMA CubeRootIs ==
  ASSUME NEW p \in Nat, NEW m \in Nat, NEW c \in Int, Prime(p), 3 * m = 2 * p - 1
  PROVE  LET r == E!zp_powm(c, m, p) IN r \in Fp(p) /\ r \in Int /\ Same(r * r * r, c, p)
<1> DEFINE n == 2 * p - 1
           r == E!zp_powm(c, m, p)
<1>p. /\ p > 1 /\ p > 0 /\ p \in Int /\ n \in Nat /\ m \in 1 .. n /\ m \in 0 .. n /\ n >= p - 1
      /\ m + m \in 0 .. n /\ (m + m) + m = n
  BY DEF Prime
<1>1. PICK w : IsPower(w, c, n, p)
  <2> HIDE DEF n
  <2> QED BY <1>p, PowerExists
<1> HIDE DEF n
<1>2. r = w[m]
  <2>1. m \in 0 .. n /\ n \in Nat /\ p > 0 /\ IsPower(w, c, n, p)
    BY <1>p, <1>1
  <2>2. E!zp_powm(c, m, p) = w[m]
    BY <2>1, PowmShorter
  <2> QED BY <2>2
<1>3. r \in Fp(p) /\ r \in Int
  BY <1>p, <1>1, <1>2, PowerValue
<1> HIDE DEF r
<1>4. CASE Same(c, 0, p)
  <2> DEFINE v == w[m - 1]
             t == v * c
  <2>1. v \in Int /\ Same(r, t, p)
    BY <1>p, <1>1, <1>2, PowerNext
  <2> HIDE DEF v
  <2>2. t \in Int /\ Same(t, 0, p) /\ 0 \in Int
    BY <1>p, <1>4, <2>1, ZeroTimes
  <2> HIDE DEF t
  <2>3. Same(r, 0, p)
    BY <1>p, <1>3, <2>1, <2>2, SameTrans
  <2>4. Same(r * r * r, 0 * 0 * 0, p)
    BY <1>3, <2>2, <2>3, SameCube
  <2>5. 0 * 0 * 0 = 0 /\ r * r * r \in Int
    BY <1>3
  <2>6. Same(0, c, p)
    BY <1>p, <1>4, <2>2, SameSym
  <2>7. Same(r * r * r, c, p)
    BY <1>p, <2>2, <2>4, <2>5, <2>6, SameTrans
  <2> QED BY <1>3, <2>7 DEF r
<1>5. CASE ~ Same(c, 0, p)
  <2>1. w[p - 1] = 1
    BY <1>p, <1>1, <1>5, PowerReturns
  <2> DEFINE l == p - 1
  <2>2. l \in Nat /\ l * 2 <= n /\ l * 2 \in Nat /\ l * 2 + 1 = n /\ w[l] = 1 /\ 2 \in Nat
    BY <1>p, <2>1 DEF n
  <2> HIDE DEF l
  <2>3. w[l * 2] = 1
    BY <1>p, <1>1, <2>2, PowerPeriod
  <2>4. Same(w[n], c, p)
    <3>1. n \in 1 .. n /\ n - 1 = l * 2
      BY <1>p, <2>2
    <3>2. Same(w[n], w[n - 1] * c, p)
      BY <1>p, <1>1, <3>1, PowerNext
    <3>3. w[n - 1] * c = c
      BY <2>3, <3>1
    <3> QED BY <3>2, <3>3
  <2> DEFINE a == w[m + m]
             g == w[n]
  <2>5. Same(a, r * r, p)
    BY <1>p, <1>1, <1>2, PowerAdds
  <2>6. Same(g, a * r, p)
    <3>1. Same(w[(m + m) + m], w[m + m] * w[m], p)
      BY <1>p, <1>1, PowerAdds
    <3> QED BY <1>p, <1>2, <3>1
  <2>7. a \in Int /\ g \in Int
    <3>1. n \in 0 .. n
      BY <1>p
    <3> QED BY <1>p, <1>1, <3>1, PowerValue
  <2> HIDE DEF a, g
  <2>8. Same(a * r, r * r * r, p) /\ a * r \in Int /\ r * r \in Int /\ r * r * r \in Int
    <3>1. r * r \in Int /\ a * r \in Int /\ r * r * r \in Int /\ Same(r, r, p)
      BY <1>p, <1>3, <2>7, SameRefl
    <3> DEFINE b == r * r
    <3> HIDE DEF b
    <3>2. b \in Int /\ Same(a, b, p)
      BY <2>5, <3>1 DEF b
    <3>3. Same(a * r, b * r, p)
      BY <1>p, <1>3, <2>7, <3>1, <3>2, SameTimes
    <3> QED BY <3>1, <3>3 DEF b
  <2> DEFINE h == r * r * r
             k == a * r
  <2>9. h \in Int /\ k \in Int /\ Same(k, h, p) /\ Same(g, k, p) /\ Same(g, c, p)
    BY <2>4, <2>6, <2>8 DEF g
  <2> HIDE DEF h, k
  <2>10. Same(g, h, p)
    BY <1>p, <2>7, <2>9, SameTrans
  <2>11. Same(h, g, p)
    BY <1>p, <2>7, <2>9, <2>10, SameSym
  <2>12. Same(h, c, p)
    BY <1>p, <2>7, <2>9, <2>11, SameTrans
  <2> QED BY <1>3, <2>12 DEF h, r
<1> QED BY <1>4, <1>5

LEMMA CubeRootOnly ==
  ASSUME NEW p \in Nat, NEW m \in Nat, NEW c \in Int, NEW s \in Fp(p),
         Prime(p), 3 * m = 2 * p - 1, Same(s * s * s, c, p)
  PROVE  s = E!zp_powm(c, m, p)
<1> DEFINE n == 2 * p - 1
           r == E!zp_powm(c, m, p)
<1>p. /\ p > 1 /\ p > 0 /\ p \in Int /\ n \in Nat /\ m \in 1 .. n /\ n >= p - 1 /\ 3 <= n /\ 3 * m = n
      /\ m \in 0 .. m /\ 3 \in Nat
  BY DEF Prime
<1>1. r \in Fp(p) /\ r \in Int /\ Same(r * r * r, c, p)
  BY CubeRootIs
<1>0. s \in Int /\ s * s * s \in Int /\ s * s \in Int
  BY FpInt
<1>2. SUFFICES Same(r, s, p)
  <2>1. r \in 0 .. p - 1 /\ s \in 0 .. p - 1
    BY <1>1 DEF Fp
  <2> HIDE DEF r
  <2> QED BY <2>1, SameSmall DEF r
<1>3. PICK u : IsPower(u, c, m, p)
  BY <1>p, PowerExists
<1>4. r = u[m]
  BY <1>p, <1>3, PowmIsPower
<1> HIDE DEF n
<1>5. PICK v : IsPower(v, s, n, p)
  BY <1>p, <1>0, PowerExists
<1> HIDE DEF r
<1>6. Same(v[3], s * s * s, p) /\ v[3] \in Int
  <2>1. /\ 0 \in 0 .. n /\ 1 \in 0 .. n /\ 2 \in 0 .. n /\ 3 \in 0 .. n
        /\ 1 \in 1 .. n /\ 2 \in 1 .. n /\ 3 \in 1 .. n
    BY <1>p
  <2>2. v[1] \in Int /\ v[2] \in Int /\ v[3] \in Int /\ v[0] = 1
    BY <1>0, <1>5, <2>1, PowerValue DEF IsPower
  <2>3. Same(v[1], v[1 - 1] * s, p)
    BY <1>p, <1>0, <1>5, <2>1, PowerNext
  <2>4. Same(v[2], v[2 - 1] * s, p)
    BY <1>p, <1>0, <1>5, <2>1, PowerNext
  <2>5. Same(v[3], v[3 - 1] * s, p)
    BY <1>p, <1>0, <1>5, <2>1, PowerNext
  <2> DEFINE a == v[1]
             b == v[2]
             d == v[3]
  <2>6. Same(a, s, p) /\ Same(b, a * s, p) /\ Same(d, b * s, p)
    <3>1. v[1 - 1] * s = s /\ v[2 - 1] = a /\ v[3 - 1] = b
      BY <1>0, <2>2
    <3> QED BY <2>3, <2>4, <2>5, <3>1
  <2>7. a \in Int /\ b \in Int /\ d \in Int
    BY <2>2
  <2> HIDE DEF a, b, d
  <2> DEFINE z1 == a - s
             z2 == b - a * s
             z3 == d - b * s
             e  == d - s * s * s
             c1 == s * s
  <2>8. /\ z1 \in Int /\ z2 \in Int /\ z3 \in Int /\ e \in Int /\ c1 \in Int /\ a * s \in Int /\ b * s \in Int
        /\ 1 \in Int /\ 0 \in Int
    BY <1>0, <2>7
  <2>9. Same(z1, 0, p) /\ Same(z2, 0, p) /\ Same(z3, 0, p)
    BY <1>p, <1>0, <2>6, <2>7, <2>8, SameZero
  <2>10. Combination4(e, c1, z1, s, z2, 1, z3, 0, z1)
    BY <1>0, <2>7 DEF Combination4
  <2>11. Same(e, 0, p)
    <3> HIDE DEF e, c1, z1, z2, z3
    <3> QED BY <1>p, <1>0, <2>8, <2>9, <2>10, Combined4
  <2>12. Same(d, s * s * s, p)
    BY <1>p, <1>0, <2>7, <2>11, SameZero
  <2> QED BY <2>7, <2>12 DEF d
<1> DEFINE k == s * s * s
           b == v[3]
<1>7. k \in Int /\ b \in Int /\ Same(b, k, p) /\ Same(k, c, p)
  BY <1>0, <1>6
<1> HIDE DEF k
<1>8. Same(c, b, p) /\ Same(b, c, p)
  <2> HIDE DEF b
  <2>1. Same(b, c, p)
    BY <1>p, <1>7, SameTrans
  <2> QED BY <1>p, <1>7, <2>1, SameSym
<1>9. Same(u[m], v[3 * m], p)
  <2>1. Same(c, v[3], p) /\ 3 * m <= n /\ m <= m
    BY <1>p, <1>8
  <2> HIDE DEF b
  <2> QED BY <1>p, <1>0, <1>3, <1>5, <2>1, PowerTimes
<1>10. Same(r, v[n], p)
  BY <1>p, <1>4, <1>9
<1>11. CASE ~ Same(s, 0, p)
  <2>1. v[p - 1] = 1
    BY <1>p, <1>0, <1>5, <1>11, PowerReturns
  <2> DEFINE l == p - 1
  <2>2. l \in Nat /\ l * 2 <= n /\ l * 2 \in Nat /\ l * 2 + 1 = n /\ v[l] = 1 /\ 2 \in Nat
    BY <1>p, <2>1 DEF n
  <2> HIDE DEF l
  <2>3. v[l * 2] = 1
    BY <1>p, <1>0, <1>5, <2>2, PowerPeriod
  <2>4. Same(v[n], s, p)
    <3>1. n \in 1 .. n /\ n - 1 = l * 2
      BY <1>p, <2>2
    <3>2. Same(v[n], v[n - 1] * s, p)
      BY <1>p, <1>0, <1>5, <3>1, PowerNext
    <3>3. v[n - 1] * s = s
      BY <1>0, <2>3, <3>1
    <3> QED BY <3>2, <3>3
  <2> DEFINE g == v[n]
  <2>5. g \in Int /\ Same(r, g, p) /\ Same(g, s, p)
    <3>1. n \in 0 .. n
      BY <1>p
    <3> QED BY <1>0, <1>5, <1>10, <2>4, <3>1, PowerValue
  <2> HIDE DEF g
  <2> QED BY <1>p, <1>0, <1>1, <2>5, SameTrans
<1>12. CASE Same(s, 0, p)
  <2>1. n \in 1 .. n
    BY <1>p
  <2> DEFINE g == v[n]
             h == v[n - 1]
             t == h * s
  <2>2. h \in Int /\ Same(g, t, p)
    BY <1>p, <1>0, <1>5, <2>1, PowerNext
  <2>3. g \in Int
    <3>1. n \in 0 .. n
      BY <1>p
    <3> QED BY <1>0, <1>5, <3>1, PowerValue
  <2>4. Same(r, g, p)
    BY <1>10
  <2> HIDE DEF g, h
  <2>5. t \in Int /\ Same(t, 0, p) /\ 0 \in Int
    BY <1>p, <1>0, <1>12, <2>2, ZeroTimes
  <2> HIDE DEF t
  <2>6. Same(g, 0, p) /\ Same(0, s, p)
    BY <1>p, <1>0, <1>12, <2>2, <2>3, <2>5, SameTrans, SameSym
  <2>7. Same(g, s, p)
    BY <1>p, <1>0, <2>3, <2>5, <2>6, SameTrans
  <2> QED BY <1>p, <1>0, <1>1, <2>3, <2>4, <2>7, SameTrans
<1> QED BY <1>11, <1>12

(***************************************************************************)
(* x_from_y makes of any y a point of E, and there is no other with this y,*)
(* for every prime that is 2 modulo 3, as p = 12 q r - 1 is.               *)
(***************************************************************************)
THEOREM OnePointForY ==
  ASSUME NEW p \in Nat, Prime(p), p % 3 = 2, NEW q, NEW y \in Fp(p)
  PROVE  LET X == E!x_from_y(y, E!curve_init(p, q))
         IN  /\ X \in Fp(p)
             /\ \A x \in Fp(p) :
                  E!point_special_p(E!OnF_p(E!Affine(x, y)), p) <=> x = X
<1> DEFINE c == (y * y - 1) % p
           m == (2 * p - 1) \div 3
           X == E!x_from_y(y, E!curve_init(p, q))
<1>p. p > 0 /\ p \in Int /\ m \in Nat /\ 3 * m = 2 * p - 1
  BY DEF Prime
<1>1. X = E!zp_powm(c, m, p)
  <2>1. E!curve_init(p, q).p = p /\ E!curve_init(p, q).cbrtpwr = m
    BY DEF E!curve_init
  <2> QED BY <2>1 DEF E!x_from_y
<1>2. y \in Int /\ c \in Int /\ Same(c, y * y - 1, p) /\ y * y - 1 \in Int
  <2> DEFINE k == y * y - 1
  <2>1. y \in Int /\ k \in Int
    BY FpInt
  <2> HIDE DEF k
  <2>2. k % p \in Int /\ Same(k % p, k, p)
    BY <1>p, <2>1, IntMod, SameMod
  <2> QED BY <2>1, <2>2 DEF k
<1> HIDE DEF c, m
<1>3. X \in Fp(p) /\ X \in Int /\ Same(X * X * X, c, p)
  BY <1>p, <1>1, <1>2, CubeRootIs
<1> HIDE DEF X
<1>4. ASSUME NEW x \in Fp(p)
      PROVE  E!point_special_p(E!OnF_p(E!Affine(x, y)), p) <=> Same(x * x * x, c, p)
  <2> DEFINE A == E!Affine(x, y)
  <2>1. A.x = x /\ A.y = y /\ x \in Int
    BY PointFrom, FpInt
  <2> HIDE DEF A
  <2>2. E!point_special_p(E!OnF_p(A), p) <=> OnE(x, y, p)
    BY <1>2, <2>1, SpecialIsOnE DEF Special
  <2> DEFINE z1 == y * y - (x * x * x + 1)
             z2 == c - (y * y - 1)
             e  == x * x * x - c
  <2>3. /\ z1 \in Int /\ z2 \in Int /\ e \in Int /\ y * y \in Int /\ x * x * x + 1 \in Int /\ x * x * x \in Int
        /\ 1 \in Int /\ -1 \in Int
    BY <1>2, <2>1
  <2>4. Same(z2, 0, p) /\ (OnE(x, y, p) <=> Same(z1, 0, p)) /\ (Same(x * x * x, c, p) <=> Same(e, 0, p))
    BY <1>p, <1>2, <2>3, SameZero DEF OnE
  <2>5. Combination(e, -1, z1, -1, z2) /\ Combination(z1, -1, e, -1, z2)
    BY <1>2, <2>1 DEF Combination
  <2>6. Same(z1, 0, p) <=> Same(e, 0, p)
    <3> HIDE DEF z1, z2, e
    <3> QED BY <1>p, <2>3, <2>4, <2>5, Combined
  <2> QED BY <2>2, <2>4, <2>6 DEF A
<1>5. ASSUME NEW x \in Fp(p), Same(x * x * x, c, p) PROVE x = X
  BY <1>p, <1>1, <1>2, <1>5, CubeRootOnly
<1> QED BY <1>3, <1>4, <1>5 DEF X

\* -1 is not a square.
LEMMA NotMinusOne ==
  ASSUME NEW p \in Nat, NEW x \in Int, Prime(p), p % 4 = 3
  PROVE  ~ Same(x * x + 1, 0, p)
<1> SUFFICES ASSUME Same(x * x + 1, 0, p) PROVE FALSE
  OBVIOUS
<1> DEFINE j == p \div 4
           h == 4 * j
           n == p - 1
<1>p. /\ p > 2 /\ p > 1 /\ p > 0 /\ p \in Int /\ j \in Nat /\ n = h + 2 /\ h \in Nat /\ n \in Nat
      /\ 2 \in Nat /\ 4 \in Nat /\ n >= p - 1 /\ n \in 0 .. n /\ 2 \in 0 .. n /\ 1 \in 1 .. n /\ 2 \in 1 .. n
      /\ 1 \in 0 .. n /\ 0 \in 0 .. n
  BY DEF Prime
<1>1. ~ Same(1, 0, p) /\ ~ Same(2, 0, p)
  <2>1. 1 \in 0 .. p - 1 /\ 2 \in 0 .. p - 1 /\ 0 \in 0 .. p - 1 /\ 1 # 0 /\ 2 # 0
    BY <1>p
  <2> QED BY <2>1, SameSmall
<1>2. ~ Same(x, 0, p)
  <2> SUFFICES ASSUME Same(x, 0, p) PROVE FALSE
    OBVIOUS
  <2> DEFINE z == x * x + 1
             c == -x
  <2>1. z \in Int /\ c \in Int /\ 1 \in Int /\ Combination(1, 1, z, c, x)
    BY DEF Combination
  <2>2. Same(z, 0, p)
    OBVIOUS
  <2> HIDE DEF z, c
  <2>3. Same(1, 0, p)
    BY <1>p, <2>1, <2>2, Combined
  <2> QED BY <1>1, <2>3
<1>3. PICK w : IsPower(w, x, n, p)
  <2> HIDE DEF n
  <2> QED BY <1>p, PowerExists
<1>4. w[n] = 1
  BY <1>p, <1>2, <1>3, PowerReturns
<1> HIDE DEF n
<1> DEFINE a == w[1]
           b == w[2]
<1>5. a \in Int /\ b \in Int /\ Same(a, x, p) /\ Same(b, a * x, p)
  <2>0. 1 \in 0 .. n /\ 2 \in 0 .. n /\ 1 - 1 = 0 /\ 2 - 1 = 1 /\ n \in Nat
    BY <1>p DEF n
  <2>1. w[0] = 1 /\ w[1] \in Int /\ w[2] \in Int
    <3>1. w[0] = 1
      BY <1>3 DEF IsPower
    <3>2. w[1] \in Int
      BY <1>p, <1>3, <2>0, PowerValue
    <3>3. w[2] \in Int
      BY <1>p, <1>3, <2>0, PowerValue
    <3> QED BY <3>1, <3>2, <3>3
  <2>2. Same(w[1], w[1 - 1] * x, p)
    BY <1>p, <1>3, PowerNext
  <2>3. Same(w[2], w[2 - 1] * x, p)
    BY <1>p, <1>3, PowerNext
  <2>4. w[1 - 1] * x = x /\ w[2 - 1] * x = w[1] * x
    BY <2>1
  <2> QED BY <2>1, <2>2, <2>3, <2>4
\* x^2 is -1
<1>6. Same(b + 1, 0, p) /\ b + 1 \in Int
  <2> HIDE DEF a, b
  <2> DEFINE z1 == a - x
             z2 == b - a * x
             z3 == x * x + 1
             e  == b + 1
  <2>1. z1 \in Int /\ z2 \in Int /\ z3 \in Int /\ e \in Int /\ a * x \in Int /\ 1 \in Int /\ 0 \in Int
    BY <1>5
  <2>2. Same(z1, 0, p) /\ Same(z2, 0, p) /\ Same(z3, 0, p)
    BY <1>p, <1>5, <2>1, SameZero
  <2>3. Combination4(e, 1, z2, x, z1, 1, z3, 0, z1)
    BY <1>5 DEF Combination4
  <2>4. Same(e, 0, p)
    <3> HIDE DEF e, z1, z2, z3
    <3> QED BY <1>p, <2>1, <2>2, <2>3, Combined4
  <2> QED BY <2>1, <2>4
\* x^(p - 1) is -1, for p - 1 = 4 j + 2: the product of x^2 and a power of x^4
<1>7. CASE j = 0
  <2>1. n = 2
    BY <1>p, <1>7
  <2>2. b = 1
    BY <1>4, <2>1
  <2>3. Same(2, 0, p)
    BY <1>6, <2>2
  <2> QED BY <1>1, <2>3
<1>8. CASE j # 0
  <2>1. 4 \in 0 .. n /\ 4 <= n /\ 2 + 2 = 4 /\ 2 + 2 <= n /\ h \in 0 .. n /\ h <= n /\ h + 2 <= n
    BY <1>p, <1>8
  <2>2. w[4] \in 0 .. p - 1 /\ w[4] \in Int /\ Same(w[4], b * b, p)
    <3>1. w[4] \in 0 .. p - 1 /\ w[4] \in Int
      BY <1>p, <1>3, <2>1, PowerValue DEF Fp
    <3>2. Same(w[2 + 2], w[2] * w[2], p)
      BY <1>p, <1>3, <2>1, PowerAdds
    <3> QED BY <2>1, <3>1, <3>2
  <2>3. w[4] = 1
    <3> HIDE DEF b
    <3> DEFINE g  == w[4]
               z1 == b + 1
               z2 == g - b * b
               e  == g - 1
               c  == b - 1
    <3>1. g \in Int
      BY <2>2
    <3>2. Same(g, b * b, p)
      BY <2>2
    <3> HIDE DEF g
    <3>3. z1 \in Int /\ z2 \in Int /\ e \in Int /\ c \in Int /\ b * b \in Int /\ 1 \in Int
      BY <1>5, <3>1
    <3>4. Same(z1, 0, p) /\ Same(z2, 0, p)
      BY <1>p, <1>6, <3>1, <3>2, <3>3, SameZero
    <3>5. Combination(e, 1, z2, c, z1)
      BY <1>5, <3>1 DEF Combination
    <3>6. Same(e, 0, p)
      <4> HIDE DEF e, c, z1, z2
      <4> QED BY <1>p, <3>3, <3>4, <3>5, Combined
    <3>7. Same(g, 1, p)
      BY <1>p, <3>1, <3>3, <3>6, SameZero
    <3>8. 1 \in 0 .. p - 1 /\ g \in 0 .. p - 1
      BY <1>p, <2>2 DEF g
    <3>9. g = 1
      BY <3>7, <3>8, SameSmall
    <3> QED BY <3>9 DEF g
  <2>4. w[h] = 1
    <3>1. w[4 * j] = 1
      BY <1>p, <1>3, <2>1, <2>3, PowerPeriod
    <3> QED BY <3>1
  <2> HIDE DEF h
  <2>5. Same(w[h + 2], w[h] * w[2], p)
    BY <1>p, <1>3, <2>1, PowerAdds
  <2>6. Same(1, b, p)
    <3>1. w[h + 2] = 1 /\ w[h] * w[2] = b
      BY <1>p, <1>4, <1>5, <2>4
    <3> QED BY <2>5, <3>1
  <2>7. Same(2, 0, p)
    <3> HIDE DEF b
    <3> DEFINE z1 == 1 - b
               z2 == b + 1
    <3>1. z1 \in Int /\ z2 \in Int /\ 1 \in Int /\ 2 \in Int /\ Combination(2, 1, z1, 1, z2)
      BY <1>5 DEF Combination
    <3>2. Same(z1, 0, p) /\ Same(z2, 0, p)
      BY <1>p, <1>5, <1>6, <2>6, <3>1, SameZero
    <3> HIDE DEF z1, z2
    <3> QED BY <1>p, <3>1, <3>2, Combined
  <2> QED BY <1>1, <2>7
<1> QED BY <1>7, <1>8

\* What fp2_div divides by is 0 for nothing but 0.
LEMMA NormNonZero ==
  ASSUME NEW p \in Nat, NEW v \in F2(p), Prime(p), p % 4 = 3, v # E!Zero
  PROVE  ~ Same(v.a * v.a + v.b * v.b, 0, p)
<1> DEFINE a == v.a
           b == v.b
           m == a * a + b * b
<1> SUFFICES ASSUME Same(m, 0, p) PROVE FALSE
  OBVIOUS
<1>p. p \in Int
  OBVIOUS
<1>1. a \in Int /\ b \in Int /\ a \in Fp(p) /\ b \in Fp(p) /\ v = [a |-> a, b |-> b]
  BY F2Int
<1>2. a # 0 \/ b # 0
  BY <1>1 DEF E!Zero
<1> HIDE DEF a, b
<1>3. CASE b = 0
  <2>1. m = a * a
    BY <1>1, <1>3
  <2>2. Same(a * a, 0, p)
    BY <2>1
  <2>3. ~ Same(a, 0, p)
    BY <1>1, <1>2, <1>3, ZeroOrNot
  <2> HIDE DEF m
  <2> QED BY <1>1, <2>2, <2>3, CancelFactor
<1>4. CASE b # 0
  <2>1. ~ Same(b, 0, p)
    BY <1>1, <1>4, ZeroOrNot
  <2>2. PICK i \in 1 .. p - 1 : Same(b * i, 1, p)
    BY <1>1, <2>1, HasInverse
  <2> DEFINE x  == a * i
             z1 == b * i - 1
             e  == x * x + 1
             c1 == i * i
             c2 == -(b * i + 1)
  <2>3. /\ i \in Int /\ x \in Int /\ z1 \in Int /\ e \in Int /\ c1 \in Int /\ c2 \in Int /\ m \in Int
        /\ b * i \in Int /\ 1 \in Int
    BY <1>1
  <2>4. Same(z1, 0, p)
    BY <1>p, <2>2, <2>3, SameZero
  <2>5. Combination(e, c1, m, c2, z1)
    BY <1>1, <2>3 DEF Combination
  <2>6. Same(e, 0, p)
    <3> HIDE DEF e, c1, c2, m, z1
    <3> QED BY <1>p, <2>3, <2>4, <2>5, Combined
  <2> HIDE DEF x
  <2> QED BY <2>3, <2>6, NotMinusOne
<1> QED BY <1>3, <1>4

LEMMA DivAlgebra ==
  ASSUME NEW a \in Int, NEW b \in Int, NEW x \in Int, NEW y \in Int, NEW i \in Int,
         NEW r1 \in Int, NEW r2 \in Int, NEW f1 \in Int, NEW f2 \in Int, NEW g \in Int
  PROVE  Combination4((g - a) - (g - (f1 * x - f2 * y)) - a * ((x * x + y * y) * i - 1),
                      i * x, r1 - (a * x + b * y), -(i * y), r2 - (b * x - a * y),
                      x, f1 - r1 * i, -y, f2 - r2 * i)
BY DEF Combination4

LEMMA DivOf ==
  ASSUME NEW p \in Nat, NEW u \in F2(p), NEW v \in F2(p), Prime(p), p % 4 = 3, v # E!Zero
  PROVE  E!fp2_div(u, v, p) \in F2(p) /\ E!fp2_mul(E!fp2_div(u, v, p), v, p) = u
<1> DEFINE n == v.a * v.a + v.b * v.b
           i == E!zp_inv(n, p)
           m1 == u.a * v.a + u.b * v.b
           r1 == m1 % p
           k1 == r1 * i
           m2 == u.b * v.a - u.a * v.b
           r2 == m2 % p
           k2 == r2 * i
           f == [a |-> k1 % p, b |-> k2 % p]
           g == E!fp2_mul(f, v, p)
<1>p. p > 0 /\ p \in Int
  BY DEF Prime
<1>0. u.a \in Int /\ u.b \in Int /\ v.a \in Int /\ v.b \in Int
  BY F2Int
<1>1. n \in Int /\ ~ Same(n, 0, p)
  BY <1>0, NormNonZero
<1>2. i \in Int /\ Same(n * i, 1, p)
  <2> HIDE DEF n
  <2> QED BY <1>1, ZpInverse
<1>3. E!fp2_div(u, v, p) = f
  BY DEF E!fp2_div
<1> HIDE DEF i
<1>4. r1 \in Int /\ Same(r1 - m1, 0, p) /\ r2 \in Int /\ Same(r2 - m2, 0, p)
  <2>1. m1 \in Int /\ m2 \in Int
    BY <1>0
  <2> HIDE DEF m1, m2
  <2> QED BY <1>p, <2>1, Reduced
<1> HIDE DEF r1, r2
<1>5. /\ k1 % p \in Int /\ k1 % p \in Fp(p) /\ Same((k1 % p) - k1, 0, p)
      /\ k2 % p \in Int /\ k2 % p \in Fp(p) /\ Same((k2 % p) - k2, 0, p)
  <2>1. k1 \in Int /\ k2 \in Int
    BY <1>2, <1>4
  <2> HIDE DEF k1, k2
  <2> QED BY <1>p, <2>1, Reduced
<1>6. f \in F2(p) /\ f.a = k1 % p /\ f.b = k2 % p
  BY <1>5 DEF F2
<1> HIDE DEF f
<1>7. f.a \in Int /\ f.b \in Int /\ Same(f.a - k1, 0, p) /\ Same(f.b - k2, 0, p)
  BY <1>5, <1>6
<1>8. /\ g \in F2(p) /\ Same(g.a - (f.a * v.a - f.b * v.b), 0, p)
      /\ Same(g.b - (f.a * v.b + f.b * v.a), 0, p)
  BY <1>6, MulOf
<1> HIDE DEF g
<1>9. g.a \in Int /\ g.b \in Int
  BY <1>8, F2Int
<1> DEFINE z1 == r1 - m1
           z2 == r2 - m2
           z3 == f.a - k1
           z4 == f.b - k2
           z5 == g.a - (f.a * v.a - f.b * v.b)
           z6 == g.b - (f.a * v.b + f.b * v.a)
           z7 == n * i - 1
<1>10. /\ z1 \in Int /\ z2 \in Int /\ z3 \in Int /\ z4 \in Int /\ z5 \in Int /\ z6 \in Int /\ z7 \in Int
       /\ n * i \in Int /\ 1 \in Int
  BY <1>0, <1>2, <1>4, <1>7, <1>9
<1>11. /\ Same(z1, 0, p) /\ Same(z2, 0, p) /\ Same(z3, 0, p) /\ Same(z4, 0, p)
       /\ Same(z5, 0, p) /\ Same(z6, 0, p) /\ Same(z7, 0, p)
  <2>1. Same(z7, 0, p)
    <3> HIDE DEF n
    <3> QED BY <1>p, <1>2, <1>10, SameZero
  <2> QED BY <1>4, <1>7, <1>8, <2>1
\* (u v* i) v = u (n i) = u, where v* is the conjugate of v
<1>12. Same(g.a - u.a, 0, p)
  <2> DEFINE e  == g.a - u.a
             h  == e - z5 - u.a * z7
             c1 == i * v.a
             c2 == -(i * v.b)
             c3 == v.a
             c4 == -v.b
             c7 == u.a
  <2>1. /\ e \in Int /\ h \in Int /\ c1 \in Int /\ c2 \in Int /\ c3 \in Int /\ c4 \in Int /\ c7 \in Int
        /\ 0 \in Int
    BY <1>0, <1>2, <1>9, <1>10
  <2>2. Combination4(h, c1, z1, c2, z2, c3, z3, c4, z4)
    BY <1>0, <1>2, <1>4, <1>7, <1>9, DivAlgebra
  <2>3. Same(h, 0, p)
    <3> HIDE DEF h, z1, z2, z3, z4, c1, c2, c3, c4
    <3> QED BY <1>p, <1>10, <1>11, <2>1, <2>2, Combined4
  <2>4. Combination4(e, 1, h, 1, z5, c7, z7, 0, z7)
    <3> DEFINE t == u.a * z7
    <3>1. e = h + z5 + t /\ t \in Int
      <4>1. t \in Int
        BY <2>1, <1>10
      <4>2. h = e - z5 - t
        OBVIOUS
      <4> HIDE DEF e, h, z5, t
      <4> QED BY <1>10, <2>1, <4>1, <4>2
    <3> HIDE DEF e, h, z5, z7
    <3> QED BY <1>0, <1>10, <2>1, <3>1 DEF Combination4
  <2> HIDE DEF e, h, z5, z7, c7
  <2>5. Same(e, 0, p)
    BY <1>p, <1>10, <1>11, <2>1, <2>3, <2>4, Combined4
  <2> QED BY <2>5 DEF e
<1>13. Same(g.b - u.b, 0, p)
  <2> DEFINE e  == g.b - u.b
             h  == e - z6 - u.b * z7
             c1 == i * v.b
             c2 == i * v.a
             c3 == v.b
             c4 == v.a
             c7 == u.b
  <2>1. /\ e \in Int /\ h \in Int /\ c1 \in Int /\ c2 \in Int /\ c3 \in Int /\ c4 \in Int /\ c7 \in Int
        /\ 0 \in Int
    BY <1>0, <1>2, <1>9, <1>10
  <2>2. Combination4(h, c1, z1, c2, z2, c3, z3, c4, z4)
    BY <1>0, <1>2, <1>4, <1>7, <1>9 DEF Combination4
  <2>3. Same(h, 0, p)
    <3> HIDE DEF h, z1, z2, z3, z4, c1, c2, c3, c4
    <3> QED BY <1>p, <1>10, <1>11, <2>1, <2>2, Combined4
  <2>4. Combination4(e, 1, h, 1, z6, c7, z7, 0, z7)
    <3> DEFINE t == u.b * z7
    <3>1. e = h + z6 + t /\ t \in Int
      <4>1. t \in Int
        BY <2>1, <1>10
      <4>2. h = e - z6 - t
        OBVIOUS
      <4> HIDE DEF e, h, z6, t
      <4> QED BY <1>10, <2>1, <4>1, <4>2
    <3> HIDE DEF e, h, z6, z7
    <3> QED BY <1>0, <1>10, <2>1, <3>1 DEF Combination4
  <2> HIDE DEF e, h, z6, z7, c7
  <2>5. Same(e, 0, p)
    BY <1>p, <1>10, <1>11, <2>1, <2>3, <2>4, Combined4
  <2> QED BY <2>5 DEF e
<1>14. g = u
  BY <1>8, <1>12, <1>13, F2Same
<1> QED BY <1>3, <1>6, <1>14 DEF g

(***************************************************************************)
(* fp2_div(u, v) is the one element that is u when multiplied by v, for    *)
(* every prime that is 3 modulo 4, as p = 12 q r - 1 is, and every v but 0.*)
(***************************************************************************)
THEOREM Fp2Divides ==
  ASSUME NEW p \in Nat, Prime(p), p % 4 = 3, NEW u \in F2(p), NEW v \in F2(p) \ {E!Zero}
  PROVE  /\ E!fp2_div(u, v, p) \in F2(p)
         /\ \A t \in F2(p) : E!fp2_mul(t, v, p) = u <=> t = E!fp2_div(u, v, p)
<1> DEFINE s == E!fp2_div(u, v, p)
           z == E!fp2_div(E!One, v, p)
<1>1. E!One \in F2(p)
  BY DEF F2, Fp, Prime, E!One
<1>2. s \in F2(p) /\ E!fp2_mul(s, v, p) = u
  BY DivOf
<1>3. z \in F2(p) /\ E!fp2_mul(z, v, p) = E!One
  BY <1>1, DivOf
<1> HIDE DEF s, z
<1>4. E!fp2_mul(v, z, p) = E!One
  BY <1>3, MulCommutes
<1>5. ASSUME NEW t \in F2(p) PROVE t = E!fp2_mul(E!fp2_mul(t, v, p), z, p)
  <2>1. E!fp2_mul(E!fp2_mul(t, v, p), z, p) = E!fp2_mul(t, E!fp2_mul(v, z, p), p)
    BY <1>3, MulAssociates
  <2>2. E!fp2_mul(t, E!One, p) = t
    BY OneNeutral
  <2> QED BY <1>4, <2>1, <2>2
<1>6. ASSUME NEW t \in F2(p), E!fp2_mul(t, v, p) = u PROVE t = s
  <2>1. t = E!fp2_mul(u, z, p) /\ s = E!fp2_mul(u, z, p)
    BY <1>2, <1>5, <1>6
  <2> QED BY <2>1
<1> QED BY <1>2, <1>6 DEF s

-----------------------------------------------------------------------------
(***************************************************************************)
(* Elements of F_p as elements of F_p^2.                                   *)
(***************************************************************************)
LEMMA ZpSub ==
  ASSUME NEW p \in Nat, NEW x \in Fp(p), NEW y \in Fp(p)
  PROVE  E!zp_sub(x, y, p) \in Fp(p) /\ E!zp_sub(x, y, p) \in Int /\ Same(E!zp_sub(x, y, p), x - y, p)
<1>1. x \in Int /\ y \in Int /\ p \in Int /\ 0 <= x /\ x < p /\ 0 <= y /\ y < p /\ 0 \in Int /\ 1 \in Int
  BY DEF Fp
<1>2. CASE x >= y
  <2>1. E!zp_sub(x, y, p) = x - y /\ x - y \in Fp(p) /\ x - y \in Int /\ (x - y) - (x - y) = p * 0
    BY <1>1, <1>2 DEF E!zp_sub, Fp
  <2> QED BY <1>1, <2>1 DEF Same
<1>3. CASE ~ (x >= y)
  <2>1. /\ E!zp_sub(x, y, p) = x - y + p /\ x - y + p \in Fp(p) /\ x - y + p \in Int
        /\ (x - y + p) - (x - y) = p * 1
    BY <1>1, <1>3 DEF E!zp_sub, Fp
  <2> QED BY <1>1, <2>1 DEF Same
<1> QED BY <1>2, <1>3

LEMMA RealSub ==
  ASSUME NEW p \in Nat, NEW x \in Fp(p), NEW y \in Fp(p)
  PROVE  E!fp2_sub(E!Real(x), E!Real(y), p) = E!Real(E!zp_sub(x, y, p))
<1>1. E!zp_sub(0, 0, p) = 0
  BY DEF E!zp_sub
<1> QED BY <1>1 DEF E!fp2_sub, E!Real

LEMMA RealAdd ==
  ASSUME NEW p \in Nat, NEW x \in Fp(p), NEW y \in Fp(p), p > 0
  PROVE  E!fp2_add(E!Real(x), E!Real(y), p) = E!Real(E!zp_add(x, y, p))
<1>1. E!zp_add(0, 0, p) = 0
  BY DEF E!zp_add
<1> QED BY <1>1 DEF E!fp2_add, E!Real

LEMMA RealMul ==
  ASSUME NEW p \in Nat, NEW x \in Fp(p), NEW y \in Fp(p), p > 0
  PROVE  /\ E!fp2_mul(E!Real(x), E!Real(y), p) = E!Real((x * y) % p)
         /\ E!fp2_sqr(E!Real(x), p) = E!Real((x * x) % p)
<1>1. x \in Int /\ y \in Int
  BY FpInt
<1>2. /\ x * y - 0 * 0 = x * y /\ x * 0 + 0 * y = 0
      /\ (x - 0) * (x + 0) = x * x /\ 2 * x * 0 = 0 /\ 0 % p = 0
  BY <1>1
<1> QED BY <1>2 DEF E!fp2_mul, E!fp2_sqr, E!Real

LEMMA RealDiv ==
  ASSUME NEW p \in Nat, NEW n \in Fp(p), NEW d \in Fp(p), Prime(p), d # 0
  PROVE  \E s \in Fp(p) : E!fp2_div(E!Real(n), E!Real(d), p) = E!Real(s) /\ Same(s * d, n, p)
<1> DEFINE m == d * d
           i == E!zp_inv(m, p)
           h == n * d
           r == h % p
           k == r * i
           s == k % p
<1>p. p > 0 /\ p \in Int
  BY DEF Prime
<1>0. n \in Int /\ d \in Int /\ m \in Int /\ h \in Int
  BY FpInt
<1>1. ~ Same(m, 0, p)
  <2>1. ~ Same(d, 0, p)
    BY ZeroOrNot
  <2> SUFFICES ASSUME Same(d * d, 0, p) PROVE FALSE
    OBVIOUS
  <2> QED BY <1>0, <2>1, CancelFactor
<1>2. i \in Int /\ Same(m * i, 1, p)
  <2> HIDE DEF m
  <2> QED BY <1>0, <1>1, ZpInverse
<1>3. E!fp2_div(E!Real(n), E!Real(d), p) = E!Real(s)
  <2>1. d * d + 0 * 0 = m /\ n * d + 0 * 0 = h /\ 0 * d - n * 0 = 0
    BY <1>0
  <2>2. 0 % p = 0 /\ 0 * i = 0
    <3> HIDE DEF i
    <3> QED BY <1>p, <1>2
  <2> HIDE DEF m, h
  <2> QED BY <2>1, <2>2 DEF E!fp2_div, E!Real
<1> HIDE DEF i
<1>4. r \in Int /\ Same(r - h, 0, p)
  <2> HIDE DEF h
  <2> QED BY <1>p, <1>0, Reduced
<1> HIDE DEF r
<1>5. s \in Int /\ s \in Fp(p) /\ Same(s - k, 0, p)
  <2>1. k \in Int
    BY <1>2, <1>4
  <2> HIDE DEF k
  <2> QED BY <1>p, <2>1, Reduced
<1> HIDE DEF s
<1>6. Same(s * d, n, p)
  <2> DEFINE z1 == s - k
             z2 == r - h
             z3 == m * i - 1
             e  == s * d - n
             c2 == i * d
  <2>1. z1 \in Int /\ z2 \in Int /\ z3 \in Int /\ e \in Int /\ c2 \in Int /\ s * d \in Int /\ m * i \in Int /\ 0 \in Int /\ 1 \in Int
    BY <1>0, <1>2, <1>4, <1>5
  <2>2. Same(z1, 0, p) /\ Same(z2, 0, p) /\ Same(z3, 0, p)
    <3>1. Same(z3, 0, p)
      <4> HIDE DEF m
      <4> QED BY <1>p, <1>0, <1>2, <2>1, SameZero
    <3> QED BY <1>4, <1>5, <3>1
  <2>3. Combination4(e, d, z1, c2, z2, n, z3, 0, z1)
    BY <1>0, <1>2, <1>4, <1>5 DEF Combination4
  <2>4. Same(e, 0, p)
    <3> HIDE DEF e, z1, z2, z3, c2
    <3> QED BY <1>p, <1>0, <2>1, <2>2, <2>3, Combined4
  <2> QED BY <1>p, <1>0, <2>1, <2>4, SameZero
<1> QED BY <1>3, <1>5, <1>6

LEMMA RealThird ==
  ASSUME NEW p \in Nat, NEW s \in Fp(p), NEW A \in AffinePoints(p), NEW u \in Fp(p), Prime(p)
  PROVE  \E X \in Fp(p), Y \in Fp(p) :
           /\ E!Third(E!Real(s), E!OnF_p(A), E!Real(u), p) = E!OnF_p(E!Affine(X, Y))
           /\ IsThird(X, Y, s, A.x, A.y, u, p)
<1> DEFINE x == A.x
           y == A.y
           m == s * s
           r == m % p
           g == E!zp_sub(r, x, p)
           X == E!zp_sub(g, u, p)
           h == E!zp_sub(x, X, p)
           k == h * s
           t == k % p
           Y == E!zp_sub(t, y, p)
<1>p. p > 0 /\ p \in Int
  BY DEF Prime
<1>0. x \in Int /\ y \in Int /\ x \in Fp(p) /\ y \in Fp(p) /\ s \in Int /\ u \in Int
  BY PointOf2, FpInt
<1>1. E!OnF_p(A).x = E!Real(x) /\ E!OnF_p(A).y = E!Real(y)
  BY DEF E!OnF_p, E!Point
<1> HIDE DEF x, y
<1>2. m \in Int /\ r \in Int /\ r \in Fp(p) /\ Same(r, m, p)
  <2>1. m \in Int
    BY <1>0
  <2> HIDE DEF m
  <2> QED BY <1>p, <2>1, IntMod, SameMod
<1>3. E!fp2_sqr(E!Real(s), p) = E!Real(r)
  BY <1>p, RealMul
<1> HIDE DEF r
<1>4. g \in Fp(p) /\ g \in Int /\ Same(g, r - x, p) /\ E!fp2_sub(E!Real(r), E!Real(x), p) = E!Real(g)
  BY <1>0, <1>2, ZpSub, RealSub
<1> HIDE DEF g
<1>5. X \in Fp(p) /\ X \in Int /\ Same(X, g - u, p) /\ E!fp2_sub(E!Real(g), E!Real(u), p) = E!Real(X)
  BY <1>4, ZpSub, RealSub
<1> HIDE DEF X
<1>6. h \in Fp(p) /\ h \in Int /\ Same(h, x - X, p) /\ E!fp2_sub(E!Real(x), E!Real(X), p) = E!Real(h)
  BY <1>0, <1>5, ZpSub, RealSub
<1> HIDE DEF h
<1>7. k \in Int /\ t \in Int /\ t \in Fp(p) /\ Same(t, k, p)
  <2>1. k \in Int
    BY <1>0, <1>6
  <2> HIDE DEF k
  <2> QED BY <1>p, <2>1, IntMod, SameMod
<1>8. E!fp2_mul(E!Real(h), E!Real(s), p) = E!Real(t)
  BY <1>p, <1>6, RealMul
<1> HIDE DEF t
<1>9. Y \in Fp(p) /\ Y \in Int /\ Same(Y, t - y, p) /\ E!fp2_sub(E!Real(t), E!Real(y), p) = E!Real(Y)
  BY <1>0, <1>7, ZpSub, RealSub
<1> HIDE DEF Y
<1>10. E!Third(E!Real(s), E!OnF_p(A), E!Real(u), p) = E!OnF_p(E!Affine(X, Y))
  <2>1. E!Third(E!Real(s), E!OnF_p(A), E!Real(u), p) = E!Point(E!Real(X), E!Real(Y))
    BY <1>1, <1>3, <1>4, <1>5, <1>6, <1>8, <1>9 DEF E!Third
  <2> QED BY <2>1 DEF E!OnF_p, E!Affine
<1>11. IsThird(X, Y, s, x, y, u, p)
  <2> DEFINE z1 == r - m
             z2 == g - (r - x)
             z3 == X - (g - u)
             z4 == h - (x - X)
             z5 == t - k
             z6 == Y - (t - y)
             e  == X - (s * s - x - u)
             f  == Y - ((x - X) * s - y)
  <2>1. /\ z1 \in Int /\ z2 \in Int /\ z3 \in Int /\ z4 \in Int /\ z5 \in Int /\ z6 \in Int /\ e \in Int /\ f \in Int
        /\ r - x \in Int /\ g - u \in Int /\ x - X \in Int /\ t - y \in Int
        /\ s * s - x - u \in Int /\ (x - X) * s - y \in Int /\ 0 \in Int /\ 1 \in Int
    BY <1>0, <1>2, <1>4, <1>5, <1>6, <1>7, <1>9
  <2>2. /\ Same(z1, 0, p) /\ Same(z2, 0, p) /\ Same(z3, 0, p)
        /\ Same(z4, 0, p) /\ Same(z5, 0, p) /\ Same(z6, 0, p)
    <3> HIDE DEF m, k
    <3> QED BY <1>p, <1>0, <1>2, <1>4, <1>5, <1>6, <1>7, <1>9, <2>1, SameZero
  <2>3. Combination4(e, 1, z1, 1, z2, 1, z3, 0, z1) /\ Combination4(f, 1, z6, 1, z5, s, z4, 0, z1)
    BY <1>0, <1>2, <1>4, <1>5, <1>6, <1>7, <1>9 DEF Combination4
  <2>4. Same(e, 0, p)
    <3> HIDE DEF e, f, z1, z2, z3, z4, z5, z6
    <3> QED BY <1>p, <2>1, <2>2, <2>3, Combined4
  <2>5. Same(f, 0, p)
    <3> HIDE DEF e, f, z1, z2, z3, z4, z5, z6
    <3> QED BY <1>p, <1>0, <2>1, <2>2, <2>3, Combined4
  <2> QED BY <1>p, <1>0, <1>5, <1>9, <2>1, <2>4, <2>5, SameZero DEF IsThird
<1> QED BY <1>5, <1>9, <1>10, <1>11 DEF x, y

\* The third point on a line over F_p^2 and over F_p.
LEMMA ThirdAgrees ==
  ASSUME NEW p \in Nat, NEW n \in Fp(p), NEW d \in Fp(p), NEW m \in Int, NEW c \in Int,
         NEW A \in AffinePoints(p), NEW u \in Fp(p),
         Prime(p), d # 0, Same(n, m, p), Same(d, c, p)
  PROVE  /\ E!ZzThird(m, c, A, u, p) # E!Lost
         /\ E!Third(E!fp2_div(E!Real(n), E!Real(d), p), E!OnF_p(A), E!Real(u), p)
              = E!OnF_p(E!ZzThird(m, c, A, u, p))
<1>p. p > 0 /\ p \in Int
  BY DEF Prime
<1>1. PICK s \in Fp(p) : E!fp2_div(E!Real(n), E!Real(d), p) = E!Real(s) /\ Same(s * d, n, p)
  BY RealDiv
<1>2. PICK X \in Fp(p), Y \in Fp(p) :
        /\ E!Third(E!Real(s), E!OnF_p(A), E!Real(u), p) = E!OnF_p(E!Affine(X, Y))
        /\ IsThird(X, Y, s, A.x, A.y, u, p)
  BY RealThird
<1>3. /\ s \in Int /\ n \in Int /\ d \in Int /\ u \in Int /\ A.x \in Int /\ A.y \in Int
      /\ A = E!Affine(A.x, A.y)
  BY FpInt, PointOf2
<1>4. ~ Same(c, 0, p)
  <2> SUFFICES ASSUME Same(c, 0, p) PROVE FALSE
    OBVIOUS
  <2>1. Same(d, 0, p)
    <3>1. 0 \in Int
      OBVIOUS
    <3> QED BY <1>p, <1>3, <3>1, SameTrans
  <2> QED BY <2>1, ZeroOrNot
<1>5. Same(s * c, m, p)
  <2> DEFINE z1 == s * d - n
             z2 == n - m
             z3 == d - c
             e  == s * c - m
             k  == -s
  <2>1. /\ z1 \in Int /\ z2 \in Int /\ z3 \in Int /\ e \in Int /\ k \in Int /\ s * d \in Int /\ s * c \in Int
        /\ 0 \in Int /\ 1 \in Int
    BY <1>3
  <2>2. Same(z1, 0, p) /\ Same(z2, 0, p) /\ Same(z3, 0, p)
    BY <1>p, <1>1, <1>3, <2>1, SameZero
  <2>3. Combination4(e, 1, z1, 1, z2, k, z3, 0, z1)
    BY <1>3 DEF Combination4
  <2>4. Same(e, 0, p)
    <3> HIDE DEF e, z1, z2, z3, k
    <3> QED BY <1>p, <2>1, <2>2, <2>3, Combined4
  <2> QED BY <1>p, <2>1, <2>4, SameZero
<1>6. E!ZzThird(m, c, E!Affine(A.x, A.y), u, p) = E!Affine(X, Y)
  BY <1>2, <1>3, <1>4, <1>5, ThirdUnique
<1>7. E!ZzThird(m, c, A, u, p) = E!Affine(X, Y)
  BY <1>3, <1>6
<1>8. E!Affine(X, Y) # E!Lost
  BY PointFrom, PointOf2
<1> QED BY <1>1, <1>2, <1>7, <1>8

LEMMA AddAgrees ==
  ASSUME NEW p \in Nat, Prime(p), NEW A \in AffinePoints(p), NEW B \in AffinePoints(p), A.x # B.x
  PROVE  /\ E!zzp_point_add(A, B, p) # E!Lost
         /\ E!point_add(E!OnF_p(A), E!OnF_p(B), p) = E!OnF_p(E!zzp_point_add(A, B, p))
<1> DEFINE n == E!zp_sub(B.y, A.y, p)
           d == E!zp_sub(B.x, A.x, p)
           m == B.y - A.y
           c == B.x - A.x
<1>p. p > 0 /\ p \in Int
  BY DEF Prime
<1>1. /\ A.x \in Fp(p) /\ A.y \in Fp(p) /\ B.x \in Fp(p) /\ B.y \in Fp(p)
      /\ A.x \in Int /\ B.x \in Int /\ A # E!Lost /\ B # E!Lost /\ m \in Int /\ c \in Int
  BY PointOf2
<1>2. /\ n \in Fp(p) /\ Same(n, m, p) /\ d \in Fp(p) /\ d \in Int /\ Same(d, c, p)
      /\ E!fp2_sub(E!Real(B.y), E!Real(A.y), p) = E!Real(n)
      /\ E!fp2_sub(E!Real(B.x), E!Real(A.x), p) = E!Real(d)
  BY <1>1, ZpSub, RealSub
<1>3. d # 0
  <2>1. 0 <= A.x /\ A.x < p /\ 0 <= B.x /\ B.x < p
    BY <1>1 DEF Fp
  <2> QED BY <1>p, <1>1, <2>1 DEF E!zp_sub
<1>4. E!zzp_point_add(A, B, p) = E!ZzThird(m, c, A, B.x, p)
  BY <1>1 DEF E!zzp_point_add
<1>5. /\ E!OnF_p(A).x = E!Real(A.x) /\ E!OnF_p(A).y = E!Real(A.y) /\ ~ E!OnF_p(A).infinity
      /\ E!OnF_p(B).x = E!Real(B.x) /\ E!OnF_p(B).y = E!Real(B.y) /\ ~ E!OnF_p(B).infinity
      /\ E!Real(A.x) # E!Real(B.x)
  BY DEF E!OnF_p, E!Point, E!Real
<1> HIDE DEF n, d, m, c
<1>6. E!point_add(E!OnF_p(A), E!OnF_p(B), p)
        = E!Third(E!fp2_div(E!Real(n), E!Real(d), p), E!OnF_p(A), E!Real(B.x), p)
  BY <1>2, <1>5 DEF E!point_add
<1>7. /\ E!ZzThird(m, c, A, B.x, p) # E!Lost
      /\ E!Third(E!fp2_div(E!Real(n), E!Real(d), p), E!OnF_p(A), E!Real(B.x), p)
           = E!OnF_p(E!ZzThird(m, c, A, B.x, p))
  <2> DEFINE u == B.x
  <2>1. u \in Fp(p) /\ m \in Int /\ c \in Int
    BY <1>1
  <2> HIDE DEF u
  <2>2. /\ E!ZzThird(m, c, A, u, p) # E!Lost
        /\ E!Third(E!fp2_div(E!Real(n), E!Real(d), p), E!OnF_p(A), E!Real(u), p)
             = E!OnF_p(E!ZzThird(m, c, A, u, p))
    BY <1>2, <1>3, <2>1, ThirdAgrees
  <2> QED BY <2>2 DEF u
<1> QED BY <1>4, <1>6, <1>7

LEMMA DoubleAgrees ==
  ASSUME NEW p \in Nat, Prime(p), NEW A \in AffinePoints(p), NEW B \in AffinePoints(p),
         A.x = B.x, (2 * A.y) % p # 0
  PROVE  /\ E!zzp_point_double(A, p) # E!Lost
         /\ E!point_add(E!OnF_p(A), E!OnF_p(B), p) = E!OnF_p(E!zzp_point_double(A, p))
<1> DEFINE x == A.x
           y == A.y
           g == E!zp_add(x, x, p)
           h == E!zp_add(g, x, p)
           k == h * x
           n == k % p
           d == E!zp_add(y, y, p)
           l == 3 * x * x
           m == l % p
           c == 2 * y
<1>p. p > 0 /\ p \in Int
  BY DEF Prime
<1>1. x \in Fp(p) /\ y \in Fp(p) /\ x \in Int /\ y \in Int /\ A # E!Lost /\ l \in Int /\ c \in Int
  BY PointOf2
<1>2. /\ g \in Fp(p) /\ g \in Int /\ Same(g, x + x, p)
      /\ E!fp2_add(E!Real(x), E!Real(x), p) = E!Real(g)
  <2> HIDE DEF x, y
  <2> QED BY <1>p, <1>1, ZpAdd, RealAdd, FpInt
<1>3. /\ h \in Fp(p) /\ h \in Int /\ Same(h, g + x, p)
      /\ E!fp2_add(E!Real(g), E!Real(x), p) = E!Real(h)
  <2> HIDE DEF x, y, g
  <2> QED BY <1>p, <1>1, <1>2, ZpAdd, RealAdd, FpInt
<1>4. /\ d \in Fp(p) /\ d \in Int /\ Same(d, y + y, p)
      /\ E!fp2_add(E!Real(y), E!Real(y), p) = E!Real(d)
  <2> HIDE DEF x, y
  <2> QED BY <1>p, <1>1, ZpAdd, RealAdd, FpInt
<1>5. k \in Int /\ n \in Fp(p) /\ n \in Int /\ Same(n, k, p) /\ E!fp2_mul(E!Real(h), E!Real(x), p) = E!Real(n)
  <2> HIDE DEF x, h
  <2>1. k \in Int
    BY <1>1, <1>3
  <2>2. E!fp2_mul(E!Real(h), E!Real(x), p) = E!Real(n)
    BY <1>p, <1>1, <1>3, RealMul
  <2> HIDE DEF k
  <2> QED BY <1>p, <2>1, <2>2, IntMod, SameMod
<1>6. m \in Int /\ Same(l, m, p)
  <2> HIDE DEF l
  <2> QED BY <1>p, <1>1, IntMod, SameMod
<1>7. Same(d, c, p)
  <2>1. y + y = c
    BY <1>1
  <2> QED BY <1>4, <2>1
<1>8. d # 0
  <2> SUFFICES ASSUME d = 0 PROVE FALSE
    OBVIOUS
  <2>1. Same(0, c, p)
    BY <1>7
  <2> HIDE DEF c
  <2>2. Same(c, 0, p)
    <3>1. 0 \in Int
      OBVIOUS
    <3> QED BY <1>p, <1>1, <2>1, <3>1, SameSym
  <2>3. c % p = 0
    BY <1>p, <1>1, <2>2, ModZero
  <2> QED BY <2>3 DEF c, y
<1>9. Same(n, m, p)
  <2> HIDE DEF x, y, g, h, n, m
  <2> DEFINE z1 == n - k
             z2 == h - (g + x)
             z3 == g - (x + x)
             z4 == l - m
             e  == n - m
  <2>1. /\ z1 \in Int /\ z2 \in Int /\ z3 \in Int /\ z4 \in Int /\ e \in Int /\ g + x \in Int /\ x + x \in Int
        /\ 1 \in Int
    BY <1>1, <1>2, <1>3, <1>5, <1>6
  <2>2. Same(z1, 0, p) /\ Same(z2, 0, p) /\ Same(z3, 0, p) /\ Same(z4, 0, p)
    <3> HIDE DEF k, l
    <3> QED BY <1>p, <1>1, <1>2, <1>3, <1>5, <1>6, <2>1, SameZero
  <2>3. Combination4(e, 1, z1, x, z2, x, z3, 1, z4)
    BY <1>1, <1>2, <1>3, <1>5, <1>6 DEF Combination4
  <2>4. Same(e, 0, p)
    <3> HIDE DEF e, z1, z2, z3, z4
    <3> QED BY <1>p, <1>1, <2>1, <2>2, <2>3, Combined4
  <2> QED BY <1>p, <1>5, <1>6, <2>1, <2>4, SameZero
<1>10. E!zzp_point_double(A, p) = E!ZzThird(m, c, A, x, p)
  BY <1>1 DEF E!zzp_point_double
\* The 0 of the second coordinate is never p, which fp2_neg makes of it.
<1>11. E!OnF_p(A).y # E!fp2_neg(E!OnF_p(B).y, p)
  BY <1>p DEF E!OnF_p, E!Point, E!Real, E!fp2_neg
<1>12. /\ E!OnF_p(A).x = E!Real(x) /\ E!OnF_p(A).y = E!Real(y) /\ ~ E!OnF_p(A).infinity
       /\ E!OnF_p(B).x = E!Real(x) /\ ~ E!OnF_p(B).infinity
  BY DEF E!OnF_p, E!Point, E!Real
<1> HIDE DEF x, y, g, h, n, d, m, c
<1>13. E!point_add(E!OnF_p(A), E!OnF_p(B), p)
         = E!Third(E!fp2_div(E!Real(n), E!Real(d), p), E!OnF_p(A), E!Real(x), p)
  BY <1>2, <1>3, <1>4, <1>5, <1>11, <1>12 DEF E!point_add
<1>14. /\ E!ZzThird(m, c, A, x, p) # E!Lost
       /\ E!Third(E!fp2_div(E!Real(n), E!Real(d), p), E!OnF_p(A), E!Real(x), p)
            = E!OnF_p(E!ZzThird(m, c, A, x, p))
  BY <1>1, <1>4, <1>5, <1>6, <1>7, <1>8, <1>9, ThirdAgrees
<1> QED BY <1>10, <1>13, <1>14

(***************************************************************************)
(* point_add, which computes over F_p^2, and the functions over F_p agree  *)
(* on the points of F_p.  What it doubles are all points with the same x:  *)
(* it does not notice that B is -A, because fp2_neg makes p of 0.          *)
(***************************************************************************)
THEOREM PointAddOverFp ==
  ASSUME NEW p \in Nat, Prime(p), NEW A \in AffinePoints(p), NEW B \in AffinePoints(p)
  PROVE  /\ A.x # B.x =>
              /\ E!zzp_point_add(A, B, p) # E!Lost
              /\ E!point_add(E!OnF_p(A), E!OnF_p(B), p) = E!OnF_p(E!zzp_point_add(A, B, p))
         /\ A.x = B.x /\ (2 * A.y) % p # 0 =>
              /\ E!zzp_point_double(A, p) # E!Lost
              /\ E!point_add(E!OnF_p(A), E!OnF_p(B), p) = E!OnF_p(E!zzp_point_double(A, p))
BY AddAgrees, DoubleAgrees
-----------------------------------------------------------------------------
(***************************************************************************)
(* The non-adjacent form.  PowersOfTwo is what the provers do not know of  *)
(* exponentiation.                                                         *)
(***************************************************************************)
PowersOfTwo == 2 ^ 0 = 1 /\ \A i \in Nat : 2 ^ i \in Nat \ {0} /\ 2 ^ (i + 1) = 2 * 2 ^ i

LEMMA DivSmall ==
  ASSUME NEW n \in Nat, NEW a \in Nat \ {0}, n < a
  PROVE  n \div a = 0
OBVIOUS

LEMMA HalfOfDiv ==
  ASSUME NEW n \in Nat, NEW a \in Nat \ {0}
  PROVE  /\ n \div a \in Nat /\ n \div (2 * a) \in Nat
         /\ n \div a - 2 * (n \div (2 * a)) \in 0 .. 1
<1> DEFINE d == n \div a
           h == n \div (2 * a)
           r == n % a
           t == n % (2 * a)
           e == d - 2 * h
<1>1. a \in Nat /\ a > 0 /\ 2 * a \in Nat /\ 2 * a > 0
  OBVIOUS
<1>2. d \in Nat /\ r \in Nat /\ r < a /\ n = a * d + r
  BY <1>1, DivideBy
<1>3. h \in Nat /\ t \in Nat /\ t < 2 * a /\ n = (2 * a) * h + t
  <2> DEFINE b == 2 * a
  <2>1. b \in Nat /\ b > 0
    BY <1>1
  <2> HIDE DEF b
  <2>2. n \div b \in Nat /\ n % b \in Nat /\ n % b < b /\ n = b * (n \div b) + (n % b)
    BY <2>1, DivideBy
  <2> QED BY <2>2 DEF b
<1> HIDE DEF d, h, r, t
<1>4. e \in Int /\ a * e = t - r
  BY <1>1, <1>2, <1>3
<1> HIDE DEF e
<1>5. ~ (e >= 2)
  <2> SUFFICES ASSUME e >= 2 PROVE FALSE
    OBVIOUS
  <2>1. e - 2 \in Nat /\ a * (e - 2) >= 0 /\ a * (e - 2) = a * e - 2 * a
    BY <1>1, <1>4
  <2> QED BY <1>1, <1>2, <1>3, <1>4, <2>1
<1>6. ~ (e <= -1)
  <2> SUFFICES ASSUME e <= -1 PROVE FALSE
    OBVIOUS
  <2>1. -1 - e \in Nat /\ a * (-1 - e) >= 0 /\ a * (-1 - e) = - a - a * e
    BY <1>1, <1>4
  <2> QED BY <1>1, <1>2, <1>3, <1>4, <2>1
<1>7. e \in 0 .. 1
  BY <1>4, <1>5, <1>6
<1> QED BY <1>2, <1>3, <1>7 DEF d, h, e

\* What is above bit i, and bit i.
Above(n, i) == n \div 2 ^ i

LEMMA BitOf ==
  ASSUME PowersOfTwo, NEW n \in Nat, NEW i \in Nat
  PROVE  /\ Above(n, i) \in Nat /\ E!Bit(n, i) \in 0 .. 1
         /\ Above(n, i) = 2 * Above(n, i + 1) + E!Bit(n, i)
<1> DEFINE a == 2 ^ i
           d == n \div a
           h == n \div (2 * a)
<1>1. a \in Nat \ {0} /\ 2 ^ (i + 1) = 2 * a
  BY DEF PowersOfTwo
<1> HIDE DEF a
<1>2. d \in Nat /\ h \in Nat /\ d - 2 * h \in 0 .. 1
  BY <1>1, HalfOfDiv
<1>3. Above(n, i) = d /\ Above(n, i + 1) = h /\ E!Bit(n, i) = d % 2
  BY <1>1 DEF Above, E!Bit, a
<1> HIDE DEF d, h
<1>4. d % 2 = d - 2 * h
  BY <1>2
<1> QED BY <1>2, <1>3, <1>4

LEMMA PowerExceeds == ASSUME PowersOfTwo, NEW n \in Nat PROVE n < 2 ^ n
<1> DEFINE S == {k \in 0 .. n : k < 2 ^ k}
<1>1. 0 \in S
  BY DEF PowersOfTwo
<1>2. ASSUME NEW k \in 1 .. n, k - 1 \in S PROVE k \in S
  <2> DEFINE a == 2 ^ (k - 1)
  <2>1. k - 1 \in Nat /\ (k - 1) + 1 = k /\ k - 1 < a /\ k \in 0 .. n
    BY <1>2
  <2>2. a \in Nat \ {0} /\ 2 ^ ((k - 1) + 1) = 2 * a
    BY <2>1 DEF PowersOfTwo
  <2>3. 2 ^ k = 2 * a
    BY <2>1, <2>2
  <2> HIDE DEF a
  <2>4. k < 2 * a
    BY <2>1, <2>2
  <2> QED BY <2>1, <2>3, <2>4
<1> HIDE DEF S
<1>3. \A k \in 0 .. n : k \in S
  BY <1>1, <1>2, UpTo
<1>4. n \in S
  BY <1>3
<1> QED BY <1>4 DEF S

\* The length of n: nothing is above it, and the highest bit is 1.
LEMMA SizeOf ==
  ASSUME PowersOfTwo, NEW n \in Nat, n > 0
  PROVE  /\ E!BitSize(n) \in Nat \ {0}
         /\ Above(n, E!BitSize(n)) = 0 /\ Above(n, E!BitSize(n) + 1) = 0
         /\ E!Bit(n, E!BitSize(n) - 1) = 1
<1> DEFINE T == {k \in 1 .. n + 1 : n < 2 ^ k}
           m == E!BitSize(n)
           Fits(k) == n < 2 ^ k /\ (k = 1 \/ 2 ^ (k - 1) <= n)
<1>1. n + 1 \in T
  <2>1. n + 1 < 2 ^ (n + 1) /\ 2 ^ (n + 1) \in Nat
    BY PowerExceeds DEF PowersOfTwo
  <2> QED BY <2>1
<1>2. \E k \in 1 .. n + 1 : Fits(k)
  <2>1. PICK k \in T : \A j \in T : k <= j
    <3>1. T \in SUBSET Nat /\ T # {}
      BY <1>1
    <3> HIDE DEF T
    <3> QED BY <3>1, Least
  <2>2. k \in 1 .. n + 1 /\ n < 2 ^ k
    OBVIOUS
  <2>3. ASSUME k # 1 PROVE 2 ^ (k - 1) <= n
    <3>1. k - 1 \in 1 .. n + 1 /\ ~ (k <= k - 1) /\ k - 1 \in Nat
      BY <2>2, <2>3
    <3>2. k - 1 \notin T
      BY <2>1, <3>1
    <3>3. 2 ^ (k - 1) \in Nat
      BY <3>1 DEF PowersOfTwo
    <3> QED BY <3>1, <3>2, <3>3
  <2> QED BY <2>2, <2>3
<1>3. m \in 1 .. n + 1 /\ Fits(m)
  BY <1>2 DEF E!BitSize
<1> HIDE DEF T, m
<1> DEFINE l == m - 1
<1>4. m \in Nat \ {0} /\ l \in Nat /\ l + 1 = m /\ m \in Nat
  BY <1>3
<1>5. Above(n, m) = 0
  <2> DEFINE a == 2 ^ m
  <2>1. a \in Nat \ {0} /\ n < a
    BY <1>3, <1>4 DEF PowersOfTwo
  <2> HIDE DEF a
  <2>2. n \div a = 0
    BY <2>1, DivSmall
  <2> QED BY <2>2 DEF a, Above
<1>6. Above(n, m + 1) = 0
  <2>1. /\ Above(n, m) = 2 * Above(n, m + 1) + E!Bit(n, m)
        /\ Above(n, m + 1) \in Nat /\ E!Bit(n, m) \in 0 .. 1
    <3>1. m + 1 \in Nat
      BY <1>4
    <3> QED BY <1>4, <3>1, BitOf
  <2> QED BY <1>5, <2>1
<1>7. E!Bit(n, l) = 1
  <2>1. Above(n, l) = E!Bit(n, l) /\ E!Bit(n, l) \in 0 .. 1
    <3>1. Above(n, l) = 2 * Above(n, l + 1) + E!Bit(n, l) /\ E!Bit(n, l) \in 0 .. 1
      BY <1>4, BitOf
    <3> QED BY <1>4, <1>5, <3>1
  <2>2. Above(n, l) # 0
    <3> DEFINE a == 2 ^ l
    <3>1. a \in Nat \ {0} /\ a <= n
      <4>1. CASE m = 1
        <5>1. l = 0
          BY <4>1
        <5> QED BY <5>1 DEF PowersOfTwo
      <4>2. CASE m # 1
        BY <1>3, <1>4, <4>2 DEF PowersOfTwo
      <4> QED BY <4>1, <4>2
    <3> HIDE DEF a
    <3>2. n \div a # 0
      <4> DEFINE h == n \div a
                 r == n % a
      <4>1. n = a * h + r /\ h \in Int /\ r \in 0 .. a - 1
        BY <3>1, DivideBy
      <4> HIDE DEF h, r
      <4>2. h # 0
        BY <3>1, <4>1
      <4> QED BY <4>2 DEF h
    <3> QED BY <3>2 DEF a, Above
  <2> QED BY <2>1, <2>2
<1> QED BY <1>4, <1>5, <1>6, <1>7 DEF m

\* The carries of the loop in point_mul.
Carries(n, m) ==
  {c \in [0 .. m + 1 -> 0 .. 1] :
     /\ c[0] = 0
     /\ \A k \in 1 .. m + 1 : c[k] = (E!Bit(n, k - 1) + E!Bit(n, k) + c[k - 1]) \div 2}

LEMMA NafCarries ==
  ASSUME PowersOfTwo, NEW n \in Nat, n > 0
  PROVE  \E c \in Carries(n, E!BitSize(n)) :
           E!NAF(n) = [j \in 0 .. E!BitSize(n) |-> E!Bit(n, j) + c[j] - 2 * c[j + 1]]
<1> DEFINE m == E!BitSize(n)
           Body(z) == [j \in 0 .. m + 1 |->
                         IF j = 0 THEN 0 ELSE (E!Bit(n, j - 1) + E!Bit(n, j) + z[j - 1]) \div 2]
           c == CHOOSE z : z = Body(z)
           Step == [k \in 1 .. m + 1 |->
                      [v \in 0 .. 1 |-> (E!Bit(n, k - 1) + E!Bit(n, k) + v) \div 2]]
<1>1. E!NAF(n) = [j \in 0 .. m |-> E!Bit(n, j) + c[j] - 2 * c[j + 1]]
  BY DEF E!NAF
<1>2. m \in Nat /\ m + 1 \in Nat
  BY SizeOf
<1> HIDE DEF m
<1>3. \A k \in 1 .. m + 1 : E!Bit(n, k - 1) \in 0 .. 1 /\ E!Bit(n, k) \in 0 .. 1
  <2> SUFFICES ASSUME NEW k \in 1 .. m + 1
               PROVE  E!Bit(n, k - 1) \in 0 .. 1 /\ E!Bit(n, k) \in 0 .. 1
    OBVIOUS
  <2>1. k \in Nat /\ k - 1 \in Nat
    BY <1>2
  <2> QED BY <2>1, BitOf
<1>4. Step \in [1 .. m + 1 -> [0 .. 1 -> 0 .. 1]]
  <2>1. ASSUME NEW k \in 1 .. m + 1, NEW v \in 0 .. 1
        PROVE  (E!Bit(n, k - 1) + E!Bit(n, k) + v) \div 2 \in 0 .. 1
    <3> DEFINE a == E!Bit(n, k - 1)
               b == E!Bit(n, k)
    <3>1. a \in 0 .. 1 /\ b \in 0 .. 1
      BY <1>3
    <3> HIDE DEF a, b
    <3>2. (a + b + v) \div 2 \in 0 .. 1
      BY <3>1
    <3> QED BY <3>2 DEF a, b
  <2> QED BY <2>1
<1>5. PICK w \in [0 .. m + 1 -> 0 .. 1] : IsLoop(w, m + 1, 0, Step)
  <2>1. 0 \in 0 .. 1
    OBVIOUS
  <2> HIDE DEF Step
  <2> QED BY <1>2, <1>4, <2>1, LoopExists
<1>6. w[0] = 0 /\ \A k \in 1 .. m + 1 : w[k] = (E!Bit(n, k - 1) + E!Bit(n, k) + w[k - 1]) \div 2
  <2>1. w[0] = 0 /\ \A k \in 1 .. m + 1 : w[k] = Step[k][w[k - 1]]
    <3> HIDE DEF Step
    <3> QED BY <1>5 DEF IsLoop
  <2>2. ASSUME NEW k \in 1 .. m + 1
        PROVE  w[k] = (E!Bit(n, k - 1) + E!Bit(n, k) + w[k - 1]) \div 2
    <3>1. k - 1 \in 0 .. m + 1
      BY <1>2
    <3>2. w[k - 1] \in 0 .. 1
      BY <3>1
    <3> QED BY <2>1, <3>2
  <2> QED BY <2>1, <2>2
<1> HIDE DEF Step
<1>7. w = Body(w)
  <2>1. ASSUME NEW j \in 0 .. m + 1
        PROVE  w[j] = IF j = 0 THEN 0 ELSE (E!Bit(n, j - 1) + E!Bit(n, j) + w[j - 1]) \div 2
    <3>1. CASE j = 0
      BY <1>6, <3>1
    <3>2. CASE j # 0
      <4>1. j \in 1 .. m + 1
        BY <1>2, <3>2
      <4> QED BY <1>6, <3>2, <4>1
    <3> QED BY <3>1, <3>2
  <2> QED BY <2>1
<1>8. c = Body(c)
  BY <1>7
<1> HIDE DEF c
<1> DEFINE S == {k \in 0 .. m + 1 : c[k] = w[k]}
<1>9. \A k \in 0 .. m + 1 : k \in S
  <2>1. 0 \in S
    BY <1>2, <1>6, <1>8
  <2>2. ASSUME NEW k \in 1 .. m + 1, k - 1 \in S PROVE k \in S
    <3>1. c[k - 1] = w[k - 1] /\ k \in 0 .. m + 1 /\ k # 0
      BY <1>2, <2>2
    <3>2. c[k] = (E!Bit(n, k - 1) + E!Bit(n, k) + c[k - 1]) \div 2
      BY <1>8, <3>1
    <3> QED BY <1>6, <3>1, <3>2
  <2> HIDE DEF S
  <2> QED BY <1>2, <2>1, <2>2, UpTo
<1>10. c = w
  <2>1. c = [j \in 0 .. m + 1 |-> c[j]] /\ w = [j \in 0 .. m + 1 |-> w[j]]
    BY <1>8
  <2> QED BY <1>9, <2>1
<1>11. c \in Carries(n, m)
  BY <1>6, <1>10 DEF Carries
<1> QED BY <1>1, <1>11 DEF m

(***************************************************************************)
(* s is a signed form of n without two neighbours that are not 0, whose    *)
(* first digit but for a possible 0 is 1: v[0] = n is what Horner's rule   *)
(* makes of the digits.                                                    *)
(***************************************************************************)
NonAdjacent(s, m) == \A j \in 0 .. m - 1 : s[j] = 0 \/ s[j + 1] = 0

DigitsMake(s, m, n) ==
  \E v \in [0 .. m + 1 -> Nat] :
    v[m + 1] = 0 /\ v[0] = n /\ \A j \in 0 .. m : v[j] = 2 * v[j + 1] + s[j]

\* One digit after the other: what the carry does to the next digit.
LEMMA DigitAfter ==
  ASSUME NEW a \in 0 .. 1, NEW b \in 0 .. 1, NEW d \in 0 .. 1, NEW c \in 0 .. 1, NEW f, NEW g,
         f = (a + b + c) \div 2, g = (b + d + f) \div 2
  PROVE  /\ a + c - 2 * f \in -1 .. 1
         /\ a + c - 2 * f = 0 \/ b + f - 2 * g = 0
OBVIOUS

LEMMA NafDigits ==
  ASSUME NEW n \in Nat, NEW m \in Nat \ {0}, NEW c \in Carries(n, m), NEW s,
         \A i \in 0 .. m + 2 : E!Bit(n, i) \in 0 .. 1,
         E!Bit(n, m) = 0, E!Bit(n, m + 1) = 0, E!Bit(n, m - 1) = 1,
         s = [j \in 0 .. m |-> E!Bit(n, j) + c[j] - 2 * c[j + 1]]
  PROVE  /\ s \in [0 .. m -> -1 .. 1] /\ NonAdjacent(s, m) /\ c[m + 1] = 0
         /\ s[m] \in 0 .. 1 /\ (s[m] = 0 => s[m - 1] = 1)
<1>1. /\ c \in [0 .. m + 1 -> 0 .. 1]
      /\ \A k \in 1 .. m + 1 : c[k] = (E!Bit(n, k - 1) + E!Bit(n, k) + c[k - 1]) \div 2
  BY DEF Carries
<1>2. \A j \in 0 .. m : c[j + 1] = (E!Bit(n, j) + E!Bit(n, j + 1) + c[j]) \div 2
  <2> SUFFICES ASSUME NEW j \in 0 .. m
               PROVE  c[j + 1] = (E!Bit(n, j) + E!Bit(n, j + 1) + c[j]) \div 2
    OBVIOUS
  <2>1. j + 1 \in 1 .. m + 1 /\ (j + 1) - 1 = j
    OBVIOUS
  <2> QED BY <1>1, <2>1
<1>3. ASSUME NEW j \in 0 .. m - 1
      PROVE  s[j] \in -1 .. 1 /\ (s[j] = 0 \/ s[j + 1] = 0)
  <2> DEFINE a == E!Bit(n, j)
             b == E!Bit(n, j + 1)
             d == E!Bit(n, (j + 1) + 1)
             e == c[j]
  <2>1. j \in 0 .. m /\ j + 1 \in 0 .. m /\ (j + 1) + 1 \in 0 .. m + 2 /\ j \in 0 .. m + 1
        /\ j \in 0 .. m + 2 /\ j + 1 \in 0 .. m + 2
    OBVIOUS
  <2>2. a \in 0 .. 1 /\ b \in 0 .. 1 /\ d \in 0 .. 1 /\ e \in 0 .. 1
    BY <1>1, <2>1
  <2>3. c[j + 1] = (a + b + e) \div 2 /\ c[(j + 1) + 1] = (b + d + c[j + 1]) \div 2
    BY <1>2, <2>1
  <2>4. s[j] = a + e - 2 * c[j + 1] /\ s[j + 1] = b + c[j + 1] - 2 * c[(j + 1) + 1]
    BY <2>1
  <2> DEFINE f == c[j + 1]
             g == c[(j + 1) + 1]
  <2> HIDE DEF a, b, d, e, f, g
  <2>5. f = (a + b + e) \div 2 /\ g = (b + d + f) \div 2
    BY <2>3 DEF f, g
  <2>6. a + e - 2 * f \in -1 .. 1 /\ (a + e - 2 * f = 0 \/ b + f - 2 * g = 0)
    BY <2>2, <2>5, DigitAfter
  <2> QED BY <2>4, <2>6 DEF f, g
<1>4. c[m + 1] = 0 /\ s[m] = c[m] /\ c[m] \in 0 .. 1
  <2>1. m \in 0 .. m /\ m \in 0 .. m + 1
    OBVIOUS
  <2>2. c[m + 1] = (0 + 0 + c[m]) \div 2 /\ c[m] \in 0 .. 1
    BY <1>1, <1>2, <2>1
  <2>3. c[m + 1] = 0
    BY <2>2
  <2>4. s[m] = 0 + c[m] - 2 * c[m + 1]
    BY <2>1
  <2> QED BY <2>2, <2>3, <2>4
<1>5. ASSUME s[m] = 0 PROVE s[m - 1] = 1
  <2>1. m - 1 \in 0 .. m /\ (m - 1) + 1 = m /\ m - 1 \in 0 .. m + 1
    OBVIOUS
  <2>2. c[m] = (1 + 0 + c[m - 1]) \div 2 /\ c[m - 1] \in 0 .. 1
    BY <1>1, <1>2, <2>1
  <2>3. c[m] = 0
    BY <1>4, <1>5
  <2>4. c[m - 1] = 0
    BY <2>2, <2>3
  <2>5. s[m - 1] = 1 + c[m - 1] - 2 * c[m]
    BY <2>1
  <2> QED BY <2>3, <2>4, <2>5
<1>6. ASSUME NEW j \in 0 .. m PROVE s[j] \in -1 .. 1
  <2>1. CASE j = m
    BY <1>4, <2>1
  <2>2. CASE j # m
    <3>1. j \in 0 .. m - 1
      BY <2>2
    <3> QED BY <1>3, <3>1
  <2> QED BY <2>1, <2>2
<1>7. s \in [0 .. m -> -1 .. 1]
  BY <1>6
<1> QED BY <1>3, <1>4, <1>5, <1>7 DEF NonAdjacent

LEMMA NafValue ==
  ASSUME NEW n \in Nat, NEW m \in Nat \ {0}, NEW c \in Carries(n, m), NEW s,
         PowersOfTwo, Above(n, m + 1) = 0, c[m + 1] = 0,
         s = [j \in 0 .. m |-> E!Bit(n, j) + c[j] - 2 * c[j + 1]]
  PROVE  DigitsMake(s, m, n)
<1> DEFINE v == [j \in 0 .. m + 1 |-> Above(n, j) + c[j]]
<1>1. c \in [0 .. m + 1 -> 0 .. 1] /\ c[0] = 0
  BY DEF Carries
<1>2. ASSUME NEW j \in 0 .. m + 1 PROVE Above(n, j) \in Nat
  <2>1. j \in Nat
    OBVIOUS
  <2> QED BY <2>1, BitOf
<1>3. v \in [0 .. m + 1 -> Nat]
  <2> SUFFICES ASSUME NEW j \in 0 .. m + 1 PROVE Above(n, j) + c[j] \in Nat
    OBVIOUS
  <2>1. Above(n, j) \in Nat /\ c[j] \in 0 .. 1
    BY <1>1, <1>2
  <2> QED BY <2>1
<1>4. v[m + 1] = 0
  <2>1. m + 1 \in 0 .. m + 1
    OBVIOUS
  <2> QED BY <2>1
<1>5. v[0] = n
  <2>1. Above(n, 0) = n
    <3>1. 2 ^ 0 = 1 /\ n \div 1 = n
      BY DEF PowersOfTwo
    <3> QED BY <3>1 DEF Above
  <2>2. 0 \in 0 .. m + 1
    OBVIOUS
  <2> QED BY <1>1, <2>1, <2>2
<1>6. ASSUME NEW j \in 0 .. m PROVE v[j] = 2 * v[j + 1] + s[j]
  <2>1. j \in Nat /\ j \in 0 .. m + 1 /\ j + 1 \in 0 .. m + 1
    OBVIOUS
  <2>2. Above(n, j) = 2 * Above(n, j + 1) + E!Bit(n, j) /\ E!Bit(n, j) \in 0 .. 1
    BY <2>1, BitOf
  <2>3. v[j] = Above(n, j) + c[j] /\ v[j + 1] = Above(n, j + 1) + c[j + 1]
    BY <2>1
  <2>4. s[j] = E!Bit(n, j) + c[j] - 2 * c[j + 1]
    OBVIOUS
  <2>5. Above(n, j) \in Nat /\ Above(n, j + 1) \in Nat /\ c[j] \in 0 .. 1 /\ c[j + 1] \in 0 .. 1
    BY <1>1, <1>2, <2>1
  <2> DEFINE a == Above(n, j)
             h == Above(n, j + 1)
             b == E!Bit(n, j)
             x == c[j]
             y == c[j + 1]
  <2>6. a \in Nat /\ h \in Nat /\ b \in 0 .. 1 /\ x \in 0 .. 1 /\ y \in 0 .. 1 /\ a = 2 * h + b
    BY <2>2, <2>5
  <2>7. v[j] = a + x /\ v[j + 1] = h + y /\ s[j] = b + x - 2 * y
    BY <2>3, <2>4
  <2> HIDE DEF v, a, h, b, x, y
  <2>8. a + x = 2 * (h + y) + (b + x - 2 * y)
    BY <2>6
  <2> QED BY <2>7, <2>8
<1> HIDE DEF v
<1> QED BY <1>3, <1>4, <1>5, <1>6 DEF DigitsMake

(***************************************************************************)
(* The digits of point_mul are a non-adjacent form of n, for every n > 0,  *)
(* and the digit that Top says is the highest is 1.                        *)
(***************************************************************************)
THEOREM NafIsNonAdjacentForm ==
  ASSUME PowersOfTwo, NEW n \in Nat, n > 0
  PROVE  LET m == E!BitSize(n)
             s == E!NAF(n)
         IN  /\ m \in Nat \ {0} /\ s \in [0 .. m -> -1 .. 1]
             /\ NonAdjacent(s, m) /\ DigitsMake(s, m, n)
             /\ E!Top(s, m) \in 0 .. m /\ s[E!Top(s, m)] = 1
             /\ \A j \in E!Top(s, m) + 1 .. m : s[j] = 0
<1> DEFINE m == E!BitSize(n)
           s == E!NAF(n)
<1>1. m \in Nat \ {0} /\ Above(n, m) = 0 /\ Above(n, m + 1) = 0 /\ E!Bit(n, m - 1) = 1
  BY SizeOf
<1>2. PICK c \in Carries(n, m) : s = [j \in 0 .. m |-> E!Bit(n, j) + c[j] - 2 * c[j + 1]]
  BY NafCarries
<1> HIDE DEF m, s
<1>3. \A i \in 0 .. m + 2 : E!Bit(n, i) \in 0 .. 1
  BY <1>1, BitOf
<1>4. E!Bit(n, m) = 0 /\ E!Bit(n, m + 1) = 0
  <2> DEFINE l == m + 1
  <2>1. m \in Nat /\ l \in Nat
    BY <1>1
  <2>2. /\ Above(n, m) = 2 * Above(n, l) + E!Bit(n, m) /\ E!Bit(n, m) \in 0 .. 1
        /\ Above(n, l) = 2 * Above(n, l + 1) + E!Bit(n, l) /\ E!Bit(n, l) \in 0 .. 1
        /\ Above(n, l) \in Nat /\ Above(n, l + 1) \in Nat
    <3>1. l + 1 \in Nat
      BY <2>1
    <3> QED BY <2>1, <3>1, BitOf
  <2>3. Above(n, l) = 0
    BY <1>1
  <2> HIDE DEF l
  <2>4. E!Bit(n, l) = 0 /\ E!Bit(n, m) = 0
    BY <1>1, <2>2, <2>3
  <2> QED BY <2>4 DEF l
<1>5. /\ s \in [0 .. m -> -1 .. 1] /\ NonAdjacent(s, m) /\ c[m + 1] = 0
      /\ s[m] \in 0 .. 1 /\ (s[m] = 0 => s[m - 1] = 1)
  BY <1>1, <1>2, <1>3, <1>4, NafDigits
<1>6. DigitsMake(s, m, n)
  BY <1>1, <1>2, <1>5, NafValue
<1>7. /\ E!Top(s, m) \in 0 .. m /\ s[E!Top(s, m)] = 1
      /\ \A j \in E!Top(s, m) + 1 .. m : s[j] = 0
  <2>1. CASE s[m] = 0
    <3>1. E!Top(s, m) = m - 1 /\ m - 1 \in 0 .. m /\ \A j \in (m - 1) + 1 .. m : j = m
      BY <1>1, <2>1 DEF E!Top
    <3> QED BY <1>5, <2>1, <3>1
  <2>2. CASE s[m] # 0
    <3>1. E!Top(s, m) = m /\ m \in 0 .. m /\ m + 1 .. m = {}
      BY <1>1, <2>2 DEF E!Top
    <3> QED BY <1>5, <2>2, <3>1
  <2> QED BY <2>1, <2>2
<1> QED BY <1>1, <1>5, <1>6, <1>7 DEF m, s

(***************************************************************************)
(* The saved multiples: doubles of A, one after the other, as long as none *)
(* is lost.                                                                *)
(***************************************************************************)
OrLost(p) == AffinePoints(p) \cup {E!Lost}

Doubles(pre, A, b, p) ==
  /\ pre \in [0 .. b -> OrLost(p)] /\ pre[0] = A
  /\ \A i \in 1 .. b : pre[i] = E!zzp_point_double(pre[i - 1], p)

LEMMA DoubleType ==
  ASSUME NEW p \in Nat, Prime(p), NEW A \in OrLost(p)
  PROVE  E!zzp_point_double(A, p) \in OrLost(p)
<1>1. CASE A = E!Lost
  BY <1>1 DEF E!zzp_point_double, OrLost
<1>2. CASE A # E!Lost
  <2> DEFINE h == 3 * A.x * A.x
             n == h % p
             d == 2 * A.y
             u == A.x
  <2>1. A \in AffinePoints(p) /\ E!zzp_point_double(A, p) = E!ZzThird(n, d, A, u, p)
    BY <1>2 DEF E!zzp_point_double, OrLost
  <2>2. A.x \in Int /\ A.y \in Int
    BY <2>1, PointOf2
  <2>3. h \in Int /\ d \in Int /\ u \in Int
    BY <2>2
  <2>4. n \in Int
    <3>1. p > 0
      BY DEF Prime
    <3> HIDE DEF h
    <3> QED BY <2>3, <3>1, IntMod
  <2> HIDE DEF n, d, u
  <2>5. E!ZzThird(n, d, A, u, p) \in AffinePoints(p) \cup {E!Lost}
    BY <2>1, <2>3, <2>4, ThirdType
  <2> QED BY <2>1, <2>5 DEF OrLost
<1> QED BY <1>1, <1>2

LEMMA AddType ==
  ASSUME NEW p \in Nat, Prime(p), NEW A \in OrLost(p), NEW B \in Entries(p) \cup {E!Lost}
  PROVE  E!zzp_point_add(A, B, p) \in OrLost(p)
<1>1. CASE A = E!Lost \/ B = E!Lost
  BY <1>1 DEF E!zzp_point_add, OrLost
<1>2. CASE A # E!Lost /\ B # E!Lost
  <2> DEFINE n == B.y - A.y
             d == B.x - A.x
             u == B.x
  <2>1. A \in AffinePoints(p) /\ B \in Entries(p) /\ E!zzp_point_add(A, B, p) = E!ZzThird(n, d, A, u, p)
    BY <1>2 DEF E!zzp_point_add, OrLost
  <2>2. A.x \in Int /\ A.y \in Int
    BY <2>1, PointOf2
  <2>3. B.x \in Int /\ B.y \in Int
    BY <2>1 DEF Entries, Fp
  <2>4. n \in Int /\ d \in Int /\ u \in Int
    BY <2>2, <2>3
  <2> HIDE DEF n, d, u
  <2>5. E!ZzThird(n, d, A, u, p) \in AffinePoints(p) \cup {E!Lost}
    BY <2>1, <2>4, ThirdType
  <2> QED BY <2>1, <2>5 DEF OrLost
<1> QED BY <1>1, <1>2

LEMMA PreprocessDoubles ==
  ASSUME NEW c, NEW A, NEW b \in Nat, NEW p \in Nat,
         c.p = p, E!BitSize(c.q) = b, Prime(p), A \in OrLost(p)
  PROVE  Doubles(E!point_mul_preprocess(A, c), A, b, p)
<1> DEFINE Body(z) == [i \in 0 .. b |-> IF i = 0 THEN A ELSE E!zzp_point_double(z[i - 1], p)]
           f == CHOOSE z : z = Body(z)
           Step == [k \in 1 .. b |-> [v \in OrLost(p) |-> E!zzp_point_double(v, p)]]
<1>1. E!point_mul_preprocess(A, c) = f
  BY DEF E!point_mul_preprocess
<1>2. PICK w \in [0 .. b -> OrLost(p)] : IsLoop(w, b, A, Step)
  <2>1. Step \in [1 .. b -> [OrLost(p) -> OrLost(p)]]
    BY DoubleType
  <2> HIDE DEF Step
  <2> QED BY <2>1, LoopExists
<1>3. w[0] = A /\ \A k \in 1 .. b : w[k] = E!zzp_point_double(w[k - 1], p)
  <2>1. w[0] = A /\ \A k \in 1 .. b : w[k] = Step[k][w[k - 1]]
    <3> HIDE DEF Step
    <3> QED BY <1>2 DEF IsLoop
  <2>2. ASSUME NEW k \in 1 .. b PROVE w[k] = E!zzp_point_double(w[k - 1], p)
    <3>1. k - 1 \in 0 .. b
      OBVIOUS
    <3>2. w[k - 1] \in OrLost(p)
      BY <3>1
    <3> QED BY <2>1, <3>2
  <2> QED BY <2>1, <2>2
<1> HIDE DEF Step
<1>4. w = Body(w)
  <2>1. ASSUME NEW j \in 0 .. b
        PROVE  w[j] = IF j = 0 THEN A ELSE E!zzp_point_double(w[j - 1], p)
    <3>1. CASE j = 0
      BY <1>3, <3>1
    <3>2. CASE j # 0
      <4>1. j \in 1 .. b
        BY <3>2
      <4> QED BY <1>3, <3>2, <4>1
    <3> QED BY <3>1, <3>2
  <2> QED BY <2>1
<1>5. f = Body(f)
  BY <1>4
<1> HIDE DEF f
<1>6. f[0] = A
  BY <1>5
<1>7. ASSUME NEW k \in 1 .. b PROVE f[k] = E!zzp_point_double(f[k - 1], p)
  <2>1. k \in 0 .. b /\ k # 0
    OBVIOUS
  <2> QED BY <1>5, <2>1
<1> DEFINE S == {k \in 0 .. b : f[k] \in OrLost(p)}
<1>8. \A k \in 0 .. b : k \in S
  <2>1. 0 \in S
    BY <1>6
  <2>2. ASSUME NEW k \in 1 .. b, k - 1 \in S PROVE k \in S
    <3>1. f[k - 1] \in OrLost(p) /\ k \in 0 .. b
      BY <2>2
    <3> QED BY <1>7, <3>1, DoubleType
  <2> HIDE DEF S
  <2> QED BY <2>1, <2>2, UpTo
<1>9. f \in [0 .. b -> OrLost(p)]
  <2>1. f = [j \in 0 .. b |-> f[j]]
    BY <1>5
  <2> QED BY <1>8, <2>1
<1> QED BY <1>1, <1>6, <1>7, <1>9 DEF Doubles
-----------------------------------------------------------------------------
(***************************************************************************)
(* What the loop over the digits holds: coordinates of a point, or of none.*)
(***************************************************************************)
Held(p) == ProjPoints(p) \cup [x : Int, y : Int, z : {0}]

LEMMA ProjHeld ==
  ASSUME NEW p \in Nat, Prime(p), NEW A \in OrLost(p)
  PROVE  E!Proj(A) \in Held(p) /\ E!Unproj(E!Proj(A), p) = A
<1>p. p > 1 /\ p > 0 /\ p \in Int
  BY DEF Prime
<1>1. CASE A = E!Lost
  <2>1. E!Proj(A) = [x |-> -1, y |-> -1, z |-> 0]
    BY <1>1 DEF E!Proj, E!Lost, E!Affine
  <2>2. E!Proj(A) \in Held(p) /\ E!Proj(A).z = 0
    BY <2>1 DEF Held
  <2>3. E!Unproj(E!Proj(A), p) = E!Lost
    BY <2>2, UnprojLost
  <2> QED BY <1>1, <2>2, <2>3
<1>2. CASE A # E!Lost
  <2> DEFINE x == A.x
             y == A.y
             R == E!Proj(A)
  <2>1. x \in Fp(p) /\ y \in Fp(p) /\ x \in Int /\ y \in Int /\ A = E!Affine(x, y)
    BY <1>2, PointOf2 DEF OrLost
  <2>2. R = [x |-> x, y |-> y, z |-> 1]
    BY <1>2 DEF E!Proj
  <2>3. R \in ProjPoints(p) /\ R.x = x /\ R.y = y /\ R.z = 1 /\ R.z # 0
    BY <1>p, <2>1, <2>2 DEF ProjPoints, Fp
  <2> HIDE DEF x, y, R
  <2>4. StandsFor(x, y, 1, x, y, p)
    <3>1. x * 1 * 1 = x /\ y * 1 * 1 * 1 = y
      BY <2>1
    <3>2. Same(x, x, p) /\ Same(y, y, p)
      BY <1>p, <2>1, SameRefl
    <3> QED BY <3>1, <3>2 DEF StandsFor
  <2>5. E!Unproj(R, p) = E!Affine(x, y)
    <3>1. StandsFor(R.x, R.y, R.z, x, y, p)
      BY <2>3, <2>4
    <3> QED BY <2>1, <2>3, <3>1, UnprojUnique
  <2> QED BY <2>1, <2>3, <2>5 DEF Held, R
<1> QED BY <1>1, <1>2

\* Of none nothing but none is made.
LEMMA MixInLost ==
  ASSUME NEW p \in Nat, NEW R, NEW A \in Entries(p),
         p > 0, R \in [x : Int, y : Int, z : {0}]
  PROVE  E!proj_mix_in(R, A, p) \in [x : Int, y : Int, z : {0}]
<1> DEFINE X  == R.x
           Y  == R.y
           z  == R.z
           a  == A.x
           b  == A.y
           m1 == z * z
           zz == m1 % p
           m2 == zz * a
           l2 == m2 % p
           m4 == zz * z
           t  == m4 % p
           m5 == t * b
           l5 == m5 % p
           l3 == X - l2
           l6 == Y - l5
           l7 == X + l2
           l8 == Y + l5
           m6 == l3 * l3
           m3 == m6 % p
           m7 == l6 * l6 - m3 * l7
           X3 == m7 % p
           m9 == l7 * m3 - 2 * X3
           l9 == m9 % p
           n8 == l8 * m3
           m8 == n8 % p
           n9 == l9 * l6 - m8 * l3
           h  == n9 % p
           Y3 == E!Half(h, p)
           nz == z * l3
           Zn == nz % p
<1>1. X \in Int /\ Y \in Int /\ z = 0 /\ z \in Int /\ a \in Int /\ b \in Int
  BY DEF Entries, Fp
<1>2. E!proj_mix_in(R, A, p) = [x |-> X3, y |-> Y3, z |-> Zn]
  BY DEF E!proj_mix_in
<1> HIDE DEF X, Y, z, a, b
<1>3. zz \in Int
  <2>1. m1 \in Int
    BY <1>1
  <2> HIDE DEF m1
  <2> QED BY <2>1, IntMod
<1> HIDE DEF zz
<1>4. l2 \in Int
  <2>1. m2 \in Int
    BY <1>1, <1>3
  <2> HIDE DEF m2
  <2> QED BY <2>1, IntMod
<1> HIDE DEF l2
<1>5. t \in Int
  <2>1. m4 \in Int
    BY <1>1, <1>3
  <2> HIDE DEF m4
  <2> QED BY <2>1, IntMod
<1> HIDE DEF t
<1>6. l5 \in Int
  <2>1. m5 \in Int
    BY <1>1, <1>5
  <2> HIDE DEF m5
  <2> QED BY <2>1, IntMod
<1> HIDE DEF l5
<1>7. m3 \in Int
  <2>1. m6 \in Int
    BY <1>1, <1>4
  <2> HIDE DEF m6
  <2> QED BY <2>1, IntMod
<1> HIDE DEF m3
<1>8. X3 \in Int
  <2>1. m7 \in Int
    BY <1>1, <1>4, <1>6, <1>7
  <2> HIDE DEF m7
  <2> QED BY <2>1, IntMod
<1> HIDE DEF X3
<1>9. l9 \in Int
  <2>1. m9 \in Int
    BY <1>1, <1>4, <1>7, <1>8
  <2> HIDE DEF m9
  <2> QED BY <2>1, IntMod
<1> HIDE DEF l9
<1>10. m8 \in Int
  <2>1. n8 \in Int
    BY <1>1, <1>6, <1>7
  <2> HIDE DEF n8
  <2> QED BY <2>1, IntMod
<1> HIDE DEF m8
<1>11. h \in Int
  <2>1. n9 \in Int
    BY <1>1, <1>4, <1>6, <1>9, <1>10
  <2> HIDE DEF n9
  <2> QED BY <2>1, IntMod
<1> HIDE DEF h
<1>12. Y3 \in Int
  BY <1>11 DEF E!Half
<1>13. Zn = 0
  <2>1. nz = 0
    BY <1>1, <1>4
  <2>2. 0 % p = 0
    OBVIOUS
  <2> QED BY <2>1, <2>2
<1> HIDE DEF Y3, Zn
<1> QED BY <1>2, <1>8, <1>12, <1>13

LEMMA MixHeld ==
  ASSUME NEW p \in Nat, Prime(p), p > 2, NEW R \in Held(p),
         NEW A \in Entries(p) \cup {E!Lost}
  PROVE  /\ E!MixIn(R, A, p) \in Held(p)
         /\ E!Unproj(E!MixIn(R, A, p), p) = E!zzp_point_add(E!Unproj(R, p), A, p)
<1>1. CASE R \in ProjPoints(p)
  BY <1>1, MixInIsAdd DEF Held
<1>2. CASE R \in [x : Int, y : Int, z : {0}]
  <2>1. E!MixIn(R, A, p) \in [x : Int, y : Int, z : {0}]
    <3>1. CASE A = E!Lost
      <4>1. E!MixIn(R, A, p) = [R EXCEPT !.z = 0]
        BY <3>1 DEF E!MixIn
      <4> QED BY <1>2, <4>1
    <3>2. CASE A # E!Lost
      <4>1. E!MixIn(R, A, p) = E!proj_mix_in(R, A, p) /\ A \in Entries(p) /\ p > 0
        BY <3>2 DEF E!MixIn, Prime
      <4> QED BY <1>2, <4>1, MixInLost
    <3> QED BY <3>1, <3>2
  <2>2. R.z = 0 /\ E!MixIn(R, A, p).z = 0
    BY <1>2, <2>1
  <2>3. E!Unproj(R, p) = E!Lost /\ E!Unproj(E!MixIn(R, A, p), p) = E!Lost
    BY <2>2, UnprojLost
  <2>4. E!zzp_point_add(E!Lost, A, p) = E!Lost
    BY DEF E!zzp_point_add
  <2> QED BY <2>1, <2>3, <2>4 DEF Held
<1> QED BY <1>1, <1>2 DEF Held

\* The entry of the table that is added for the digit at j.
Signed(pre, s, j, p) == IF s[j] < 0 THEN E!Negated(pre[j], p) ELSE pre[j]

(***************************************************************************)
(* w[j] is what has been added, with the functions for points over F_p,    *)
(* when the digits m down to j are done.                                   *)
(***************************************************************************)
AddedUp(w, pre, s, m, p) ==
  /\ w \in [0 .. m -> OrLost(p)] /\ w[m] = pre[m]
  /\ \A j \in 0 .. m - 1 :
       w[j] = IF s[j] = 0 THEN w[j + 1] ELSE E!zzp_point_add(w[j + 1], Signed(pre, s, j, p), p)

LEMMA SignedType ==
  ASSUME NEW p \in Nat, NEW m \in Nat, NEW s, NEW j \in 0 .. m,
         NEW pre \in [0 .. m -> OrLost(p)], p > 0
  PROVE  Signed(pre, s, j, p) \in Entries(p) \cup {E!Lost}
<1> DEFINE A == pre[j]
<1>1. A \in OrLost(p)
  OBVIOUS
<1> HIDE DEF A
<1>2. CASE A = E!Lost
  BY <1>2 DEF Signed, A, E!Negated
<1>3. CASE A # E!Lost
  <2>1. A \in [x : Fp(p), y : Fp(p)]
    BY <1>1, <1>3 DEF OrLost, AffinePoints
  <2>2. A \in Entries(p) /\ [A EXCEPT !.y = p - @] \in Entries(p)
    BY <2>1 DEF Entries, Fp
  <2>3. E!Negated(A, p) \in Entries(p)
    BY <1>3, <2>2 DEF E!Negated
  <2> QED BY <2>2, <2>3 DEF Signed, A
<1> QED BY <1>2, <1>3

LEMMA PostprocessLoop ==
  ASSUME NEW p \in Nat, NEW n, NEW pre,
         Prime(p), p > 2, E!Top(E!NAF(n), E!BitSize(n)) \in Nat,
         \A j \in 0 .. E!Top(E!NAF(n), E!BitSize(n)) : pre[j] \in OrLost(p)
  PROVE  \E w : /\ AddedUp(w, pre, E!NAF(n), E!Top(E!NAF(n), E!BitSize(n)), p)
                /\ E!point_mul_postprocess(n, pre, p) = w[0]
<1> DEFINE s == E!NAF(n)
           m == E!Top(s, E!BitSize(n))
           Round(j, v) == IF s[j] = 0 THEN v ELSE E!MixIn(v, Signed(pre, s, j, p), p)
           Body(z) == [j \in 0 .. m |-> IF j = m THEN E!Proj(pre[m]) ELSE Round(j, z[j + 1])]
           R == CHOOSE z : z = Body(z)
           Step == [k \in 1 .. m |-> [v \in Held(p) |-> Round(m - k, v)]]
           b == E!Proj(pre[m])
<1>p. p > 0 /\ p \in Int
  BY DEF Prime
<1>1. E!point_mul_postprocess(n, pre, p) = E!Unproj(R[0], p)
  BY DEF E!point_mul_postprocess, Signed
<1>m. m \in Nat /\ \A j \in 0 .. m : pre[j] \in OrLost(p)
  OBVIOUS
<1> HIDE DEF s, m
<1>2. ASSUME NEW j \in 0 .. m PROVE Signed(pre, s, j, p) \in Entries(p) \cup {E!Lost}
  <2> DEFINE f == [i \in 0 .. m |-> pre[i]]
  <2>1. f \in [0 .. m -> OrLost(p)] /\ f[j] = pre[j]
    BY <1>m
  <2> HIDE DEF f
  <2>2. Signed(f, s, j, p) \in Entries(p) \cup {E!Lost}
    BY <1>p, <1>m, <2>1, SignedType
  <2> QED BY <2>1, <2>2 DEF Signed
<1>3. ASSUME NEW j \in 0 .. m, NEW v \in Held(p)
      PROVE  /\ Round(j, v) \in Held(p)
             /\ E!Unproj(Round(j, v), p)
                  = IF s[j] = 0 THEN E!Unproj(v, p)
                    ELSE E!zzp_point_add(E!Unproj(v, p), Signed(pre, s, j, p), p)
  <2>1. Signed(pre, s, j, p) \in Entries(p) \cup {E!Lost}
    BY <1>2
  <2>2. /\ E!MixIn(v, Signed(pre, s, j, p), p) \in Held(p)
        /\ E!Unproj(E!MixIn(v, Signed(pre, s, j, p), p), p)
             = E!zzp_point_add(E!Unproj(v, p), Signed(pre, s, j, p), p)
    BY <2>1, MixHeld
  <2> QED BY <2>2
<1>4. b \in Held(p) /\ E!Unproj(b, p) = pre[m]
  <2>1. pre[m] \in OrLost(p)
    BY <1>m
  <2> QED BY <2>1, ProjHeld
<1> HIDE DEF Round
<1>5. PICK z \in [0 .. m -> Held(p)] : IsLoop(z, m, b, Step)
  <2>1. Step \in [1 .. m -> [Held(p) -> Held(p)]]
    <3> SUFFICES ASSUME NEW k \in 1 .. m, NEW v \in Held(p) PROVE Round(m - k, v) \in Held(p)
      OBVIOUS
    <3>1. m - k \in 0 .. m
      BY <1>m
    <3> QED BY <1>3, <3>1
  <2> HIDE DEF Step, b
  <2> QED BY <1>m, <1>4, <2>1, LoopExists
<1>6. z[0] = b /\ \A k \in 1 .. m : z[k] = Round(m - k, z[k - 1])
  <2>1. z[0] = b /\ \A k \in 1 .. m : z[k] = Step[k][z[k - 1]]
    <3> HIDE DEF Step, b
    <3> QED BY <1>5 DEF IsLoop
  <2>2. ASSUME NEW k \in 1 .. m PROVE z[k] = Round(m - k, z[k - 1])
    <3>1. k - 1 \in 0 .. m
      BY <1>m
    <3>2. z[k - 1] \in Held(p)
      BY <3>1
    <3> QED BY <2>1, <3>2
  <2> QED BY <2>1, <2>2
<1> HIDE DEF Step, b
<1> DEFINE r == [j \in 0 .. m |-> z[m - j]]
<1>7. r = Body(r)
  <2>1. ASSUME NEW j \in 0 .. m
        PROVE  z[m - j] = IF j = m THEN E!Proj(pre[m]) ELSE Round(j, r[j + 1])
    <3>1. CASE j = m
      <4>1. m - j = 0
        BY <1>m, <3>1
      <4> QED BY <1>6, <3>1, <4>1 DEF b
    <3>2. CASE j # m
      <4>1. m - j \in 1 .. m /\ m - (m - j) = j /\ j + 1 \in 0 .. m /\ m - (j + 1) = (m - j) - 1
        BY <1>m, <3>2
      <4>2. z[m - j] = Round(m - (m - j), z[(m - j) - 1])
        BY <1>6, <4>1
      <4>3. r[j + 1] = z[(m - j) - 1]
        BY <4>1
      <4> QED BY <3>2, <4>1, <4>2, <4>3
    <3> QED BY <3>1, <3>2
  <2> QED BY <2>1
<1> HIDE DEF r
<1>8. R = Body(R)
  BY <1>7
<1> HIDE DEF R
<1>9. R[m] = b
  <2>1. m \in 0 .. m
    BY <1>m
  <2> QED BY <1>8, <2>1 DEF b
<1>10. ASSUME NEW j \in 0 .. m - 1 PROVE R[j] = Round(j, R[j + 1])
  <2>1. j \in 0 .. m /\ j # m
    BY <1>m
  <2> QED BY <1>8, <2>1
<1> DEFINE S == {k \in 0 .. m : R[m - k] \in Held(p)}
<1>11. \A k \in 0 .. m : k \in S
  <2>1. 0 \in S
    <3>1. m - 0 = m /\ 0 \in 0 .. m
      BY <1>m
    <3> QED BY <1>4, <1>9, <3>1
  <2>2. ASSUME NEW k \in 1 .. m, k - 1 \in S PROVE k \in S
    <3> DEFINE j == m - k
    <3>1. j \in 0 .. m - 1 /\ j \in 0 .. m /\ j + 1 = m - (k - 1) /\ k \in 0 .. m
      BY <1>m
    <3>2. R[j + 1] \in Held(p)
      BY <2>2, <3>1
    <3> HIDE DEF j
    <3>3. R[j] \in Held(p)
      BY <1>3, <1>10, <3>1, <3>2
    <3> QED BY <3>1, <3>3 DEF j
  <2> HIDE DEF S
  <2> QED BY <1>m, <2>1, <2>2, UpTo
<1>12. ASSUME NEW j \in 0 .. m PROVE R[j] \in Held(p)
  <2>1. m - j \in 0 .. m /\ m - (m - j) = j
    BY <1>m
  <2>2. m - j \in S
    BY <1>11, <2>1
  <2> QED BY <2>1, <2>2
<1> HIDE DEF S
<1> DEFINE w == [j \in 0 .. m |-> E!Unproj(R[j], p)]
<1>13. w[m] = pre[m] /\ w[0] = E!Unproj(R[0], p)
  <2>1. m \in 0 .. m /\ 0 \in 0 .. m
    BY <1>m
  <2> QED BY <1>4, <1>9, <2>1
<1>14. ASSUME NEW j \in 0 .. m - 1
       PROVE  w[j] = IF s[j] = 0 THEN w[j + 1]
                     ELSE E!zzp_point_add(w[j + 1], Signed(pre, s, j, p), p)
  <2>1. j \in 0 .. m /\ j + 1 \in 0 .. m
    BY <1>m
  <2>2. w[j] = E!Unproj(R[j], p) /\ w[j + 1] = E!Unproj(R[j + 1], p) /\ R[j + 1] \in Held(p)
    BY <1>12, <2>1
  <2> HIDE DEF w
  <2> QED BY <1>3, <1>10, <2>1, <2>2
<1> HIDE DEF w
<1> DEFINE V == {k \in 0 .. m : w[m - k] \in OrLost(p)}
<1>15. \A k \in 0 .. m : k \in V
  <2>1. 0 \in V
    <3>1. m - 0 = m /\ 0 \in 0 .. m /\ pre[m] \in OrLost(p)
      BY <1>m
    <3> QED BY <1>13, <3>1
  <2>2. ASSUME NEW k \in 1 .. m, k - 1 \in V PROVE k \in V
    <3> DEFINE j == m - k
    <3>1. j \in 0 .. m - 1 /\ j \in 0 .. m /\ j + 1 = m - (k - 1) /\ k \in 0 .. m
      BY <1>m
    <3>2. w[j + 1] \in OrLost(p)
      BY <2>2, <3>1
    <3> HIDE DEF j
    <3>3. Signed(pre, s, j, p) \in Entries(p) \cup {E!Lost}
      BY <1>2, <3>1
    <3>4. E!zzp_point_add(w[j + 1], Signed(pre, s, j, p), p) \in OrLost(p)
      BY <3>2, <3>3, AddType
    <3>5. w[j] \in OrLost(p)
      BY <1>14, <3>1, <3>2, <3>4
    <3> QED BY <3>1, <3>5 DEF j
  <2> HIDE DEF V
  <2> QED BY <1>m, <2>1, <2>2, UpTo
<1>16. w \in [0 .. m -> OrLost(p)]
  <2>1. ASSUME NEW j \in 0 .. m PROVE w[j] \in OrLost(p)
    <3>1. m - j \in 0 .. m /\ m - (m - j) = j
      BY <1>m
    <3>2. m - j \in V
      BY <1>15, <3>1
    <3> QED BY <3>1, <3>2
  <2> HIDE DEF V
  <2>2. w = [j \in 0 .. m |-> w[j]]
    BY DEF w
  <2> QED BY <2>1, <2>2
<1>17. AddedUp(w, pre, s, m, p)
  BY <1>13, <1>14, <1>16 DEF AddedUp
<1> QED BY <1>1, <1>13, <1>17 DEF s, m

\* A smaller number is not longer.
LEMMA SizesGrow ==
  ASSUME PowersOfTwo, NEW n \in Nat, NEW q \in Nat, n > 0, n <= q
  PROVE  E!BitSize(n) <= E!BitSize(q)
<1> DEFINE m == E!BitSize(n)
           b == E!BitSize(q)
           l == m - 1
<1>1. m \in Nat \ {0} /\ b \in Nat \ {0} /\ Above(q, b) = 0 /\ E!Bit(n, l) = 1
  BY SizeOf
<1> HIDE DEF m, b
<1>2. SUFFICES ASSUME b < m PROVE FALSE
  BY <1>1 DEF m, b
<1>3. l \in Nat /\ b \in Nat
  BY <1>1
<1>4. Above(n, b) = 0
  <2> DEFINE a == 2 ^ b
  <2>1. a \in Nat \ {0}
    BY <1>3 DEF PowersOfTwo
  <2>2. q \div a = 0
    BY <1>1 DEF Above
  <2> HIDE DEF a
  <2> DEFINE r == q % a
  <2>3. q = a * 0 + r /\ r \in 0 .. a - 1
    BY <2>1, <2>2, DivideBy
  <2>4. n < a
    BY <2>1, <2>3
  <2>5. n \div a = 0
    BY <2>1, <2>4, DivSmall
  <2> QED BY <2>5 DEF a, Above
<1> DEFINE S == {k \in 0 .. l : b + k \in Nat /\ Above(n, b + k) = 0}
<1>5. \A k \in 0 .. l : k \in S
  <2>1. 0 \in S
    <3>1. b + 0 = b /\ 0 \in 0 .. l
      BY <1>3
    <3> QED BY <1>3, <1>4, <3>1
  <2>2. ASSUME NEW k \in 1 .. l, k - 1 \in S PROVE k \in S
    <3> DEFINE i == b + (k - 1)
    <3>1. i \in Nat /\ i + 1 = b + k /\ i + 1 \in Nat /\ Above(n, i) = 0 /\ k \in 0 .. l
      BY <1>3, <2>2
    <3> HIDE DEF i
    <3>2. /\ Above(n, i) = 2 * Above(n, i + 1) + E!Bit(n, i) /\ E!Bit(n, i) \in 0 .. 1
          /\ Above(n, i + 1) \in Nat
      BY <3>1, BitOf
    <3>3. Above(n, i + 1) = 0
      BY <3>1, <3>2
    <3> QED BY <3>1, <3>3
  <2> HIDE DEF S
  <2> QED BY <1>3, <2>1, <2>2, UpTo
<1>6. Above(n, l) = 0
  <2>1. l - b \in 0 .. l /\ b + (l - b) = l
    BY <1>1, <1>2, <1>3
  <2>2. l - b \in S
    BY <1>5, <2>1
  <2> QED BY <2>1, <2>2
<1>7. E!Bit(n, l) = 0
  <2>1. l + 1 \in Nat
    BY <1>3
  <2>2. /\ Above(n, l) = 2 * Above(n, l + 1) + E!Bit(n, l) /\ E!Bit(n, l) \in 0 .. 1
        /\ Above(n, l + 1) \in Nat
    BY <1>3, <2>1, BitOf
  <2> QED BY <1>6, <2>2
<1> QED BY <1>1, <1>7

\* Lost or on E.
OnEOrLost(p) == {A \in OrLost(p) : A # E!Lost => OnE(A.x, A.y, p)}

LEMMA DoublesOnE ==
  ASSUME NEW p \in Nat, NEW b \in Nat, NEW pre, NEW A \in OnEOrLost(p),
         Prime(p), Doubles(pre, A, b, p)
  PROVE  \A i \in 0 .. b : pre[i] \in OnEOrLost(p)
<1> DEFINE S == {i \in 0 .. b : pre[i] \in OnEOrLost(p)}
<1>1. /\ pre \in [0 .. b -> OrLost(p)] /\ pre[0] = A
      /\ \A i \in 1 .. b : pre[i] = E!zzp_point_double(pre[i - 1], p)
  BY DEF Doubles
<1>2. 0 \in S
  BY <1>1
<1>3. ASSUME NEW k \in 1 .. b, k - 1 \in S PROVE k \in S
  <2> DEFINE B == pre[k - 1]
  <2>1. B \in OnEOrLost(p) /\ pre[k] = E!zzp_point_double(B, p) /\ k \in 0 .. b
    BY <1>1, <1>3
  <2>2. pre[k] \in OrLost(p)
    BY <1>1, <2>1
  <2> HIDE DEF B
  <2>3. CASE B = E!Lost
    <3>1. pre[k] = E!Lost
      BY <2>1, <2>3 DEF E!zzp_point_double
    <3> QED BY <2>1, <2>2, <3>1 DEF OnEOrLost
  <2>4. CASE B # E!Lost
    <3>1. B \in AffinePoints(p) /\ OnE(B.x, B.y, p)
      BY <2>1, <2>4 DEF OnEOrLost, OrLost
    <3>2. pre[k] = E!Lost \/ OnE(pre[k].x, pre[k].y, p)
      BY <2>1, <3>1, DoubleOnE
    <3> QED BY <2>1, <2>2, <3>2 DEF OnEOrLost
  <2> QED BY <2>3, <2>4
<1> HIDE DEF S
<1>4. \A k \in 0 .. b : k \in S
  BY <1>2, <1>3, UpTo
<1> QED BY <1>4 DEF S

LEMMA SignedOnE ==
  ASSUME NEW p \in Nat, NEW pre, NEW s, NEW j, Prime(p), pre[j] \in OnEOrLost(p)
  PROVE  LET B == Signed(pre, s, j, p)
         IN  B = E!Lost \/ (B.x \in Int /\ B.y \in Int /\ OnE(B.x, B.y, p))
<1> DEFINE A == pre[j]
<1>1. CASE A = E!Lost
  BY <1>1 DEF Signed, E!Negated
<1>2. CASE A # E!Lost
  <2>1. A \in AffinePoints(p) /\ OnE(A.x, A.y, p)
    BY <1>2 DEF OnEOrLost, OrLost
  <2>2. A.x \in Int /\ A.y \in Int
    BY <2>1, PointOf2
  <2> DEFINE N == E!Negated(A, p)
  <2>3. N.x \in Int /\ N.y \in Int /\ OnE(N.x, N.y, p)
    <3>1. N.x = A.x /\ N.x \in Int /\ N.y \in Int /\ OnE(N.x, N.y, p)
      <4> HIDE DEF A
      <4> QED BY <2>1, NegatedOnE
    <3> QED BY <3>1
  <2> QED BY <2>1, <2>2, <2>3 DEF Signed
<1> QED BY <1>1, <1>2

LEMMA SumOnE ==
  ASSUME NEW p \in Nat, NEW A \in OnEOrLost(p), NEW B, Prime(p),
         B = E!Lost \/ (B.x \in Int /\ B.y \in Int /\ OnE(B.x, B.y, p))
  PROVE  E!zzp_point_add(A, B, p) \in OnEOrLost(p)
<1> DEFINE S == E!zzp_point_add(A, B, p)
<1>1. CASE A = E!Lost \/ B = E!Lost
  <2>1. S = E!Lost
    BY <1>1 DEF E!zzp_point_add
  <2> QED BY <2>1 DEF OnEOrLost, OrLost
<1>2. CASE A # E!Lost /\ B # E!Lost
  <2>1. A \in AffinePoints(p) /\ OnE(A.x, A.y, p)
    BY <1>2 DEF OnEOrLost, OrLost
  <2>2. S = E!Lost \/ (S \in AffinePoints(p) /\ OnE(S.x, S.y, p))
    BY <1>2, <2>1, AddOnE
  <2> HIDE DEF S
  <2>3. S \in OnEOrLost(p)
    BY <2>2 DEF OnEOrLost, OrLost
  <2> QED BY <2>3 DEF S
<1> QED BY <1>1, <1>2

LEMMA AddedUpOnE ==
  ASSUME NEW p \in Nat, NEW m \in Nat, NEW pre, NEW s, NEW w,
         Prime(p), AddedUp(w, pre, s, m, p), \A j \in 0 .. m : pre[j] \in OnEOrLost(p)
  PROVE  w[0] \in OnEOrLost(p)
<1> DEFINE S == {k \in 0 .. m : w[m - k] \in OnEOrLost(p)}
<1>1. /\ w[m] = pre[m]
      /\ \A j \in 0 .. m - 1 :
           w[j] = IF s[j] = 0 THEN w[j + 1] ELSE E!zzp_point_add(w[j + 1], Signed(pre, s, j, p), p)
  BY DEF AddedUp
<1>2. 0 \in S
  <2>1. m - 0 = m /\ 0 \in 0 .. m /\ m \in 0 .. m
    OBVIOUS
  <2> QED BY <1>1, <2>1
<1>3. ASSUME NEW k \in 1 .. m, k - 1 \in S PROVE k \in S
  <2> DEFINE j == m - k
             B == Signed(pre, s, j, p)
  <2>1. j \in 0 .. m - 1 /\ j \in 0 .. m /\ j + 1 = m - (k - 1) /\ k \in 0 .. m
    OBVIOUS
  <2>2. w[j + 1] \in OnEOrLost(p)
    BY <1>3, <2>1
  <2> HIDE DEF j
  <2>3. B = E!Lost \/ (B.x \in Int /\ B.y \in Int /\ OnE(B.x, B.y, p))
    <3>1. pre[j] \in OnEOrLost(p)
      BY <2>1
    <3> QED BY <3>1, SignedOnE
  <2> HIDE DEF B
  <2>4. E!zzp_point_add(w[j + 1], B, p) \in OnEOrLost(p)
    BY <2>2, <2>3, SumOnE
  <2>5. w[j] \in OnEOrLost(p)
    BY <1>1, <2>1, <2>2, <2>4 DEF B
  <2> QED BY <2>1, <2>5 DEF j
<1> HIDE DEF S
<1>4. \A k \in 0 .. m : k \in S
  BY <1>2, <1>3, UpTo
<1>5. m \in S /\ m - m = 0
  BY <1>4
<1> QED BY <1>5 DEF S

(***************************************************************************)
(* point_mul_postprocess, for every odd prime, every number n up to q and  *)
(* every point: the saved multiples are doubled one by one, and for the    *)
(* digits of n, from the highest, are added or subtracted one by one as    *)
(* zzp_point_add does it, although the code computes with projective       *)
(* coordinates and inverts once.  What comes out is on E if A is, or lost. *)
(***************************************************************************)
THEOREM SavedMultiplesAddUp ==
  ASSUME PowersOfTwo, NEW p \in Nat, NEW c, NEW A \in AffinePoints(p), NEW n \in Nat,
         Prime(p), p > 2, c.p = p, c.q \in Nat, n > 0, n <= c.q
  PROVE  LET pre == E!point_mul_preprocess(A, c)
             s   == E!NAF(n)
             m   == E!Top(s, E!BitSize(n))
             nA  == E!point_mul_postprocess(n, pre, p)
         IN  /\ Doubles(pre, A, E!BitSize(c.q), p)
             /\ \E w : AddedUp(w, pre, s, m, p) /\ nA = w[0]
             /\ Special(A, p) => nA = E!Lost \/ (nA \in AffinePoints(p) /\ Special(nA, p))
<1> DEFINE pre == E!point_mul_preprocess(A, c)
           s   == E!NAF(n)
           k   == E!BitSize(n)
           m   == E!Top(s, k)
           nA  == E!point_mul_postprocess(n, pre, p)
           b   == E!BitSize(c.q)
<1>1. A \in OrLost(p) /\ b \in Nat
  <2>1. c.q > 0
    OBVIOUS
  <2> QED BY <2>1, SizeOf DEF OrLost
<1>2. Doubles(pre, A, b, p)
  <2> HIDE DEF b
  <2>1. E!BitSize(c.q) = b
    BY DEF b
  <2> QED BY <1>1, <2>1, PreprocessDoubles
<1>3. m \in 0 .. k /\ k \in Nat /\ k <= b
  BY NafIsNonAdjacentForm, SizesGrow
<1> HIDE DEF pre, k, b
<1>4. m \in Nat /\ 0 .. m \subseteq 0 .. b
  BY <1>1, <1>3
<1>5. \A j \in 0 .. m : pre[j] \in OrLost(p)
  <2>1. pre \in [0 .. b -> OrLost(p)]
    BY <1>2 DEF Doubles
  <2> QED BY <1>4, <2>1
<1>6. PICK w : AddedUp(w, pre, s, m, p) /\ nA = w[0]
  <2>1. m = E!Top(E!NAF(n), E!BitSize(n))
    BY DEF k
  <2>2. \E w : /\ AddedUp(w, pre, E!NAF(n), E!Top(E!NAF(n), E!BitSize(n)), p)
               /\ E!point_mul_postprocess(n, pre, p) = w[0]
    BY <1>4, <1>5, <2>1, PostprocessLoop
  <2> QED BY <2>1, <2>2
<1>7. ASSUME Special(A, p) PROVE nA = E!Lost \/ (nA \in AffinePoints(p) /\ Special(nA, p))
  <2>1. A \in OnEOrLost(p)
    <3>1. A.x \in Int /\ A.y \in Int
      BY PointOf2
    <3> QED BY <1>1, <1>7, <3>1, SpecialIsOnE DEF OnEOrLost
  <2>2. \A i \in 0 .. b : pre[i] \in OnEOrLost(p)
    BY <1>1, <1>2, <2>1, DoublesOnE
  <2>3. \A j \in 0 .. m : pre[j] \in OnEOrLost(p)
    BY <1>4, <2>2
  <2> HIDE DEF m, s, nA
  <2>4. w[0] \in OnEOrLost(p)
    BY <1>4, <1>6, <2>3, AddedUpOnE
  <2>5. CASE nA # E!Lost
    <3>1. nA \in AffinePoints(p) /\ OnE(nA.x, nA.y, p)
      BY <1>6, <2>4, <2>5 DEF OnEOrLost, OrLost
    <3>2. nA.x \in Int /\ nA.y \in Int
      BY <3>1, PointOf2
    <3> QED BY <3>1, <3>2, SpecialIsOnE
  <2> QED BY <2>5
<1> QED BY <1>2, <1>6, <1>7 DEF pre, k, b
=============================================================================
