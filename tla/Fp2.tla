-------------------------------- MODULE Fp2 --------------------------------
(***************************************************************************)
(* F_p^2 (fp2.c): a + b sqrt(-1), for a prime p = 3 (mod 4).  Coordinates  *)
(* are below p, except that fp2_neg makes p of 0.  Products are reduced at *)
(* once here and at the end there.                                         *)
(***************************************************************************)
EXTENDS Integers, Sequences, SequencesExt, FiniteSetsExt

Abs(x) == IF x < 0 THEN -x ELSE x

zp_add(x, y, p) == IF x + y >= p THEN x + y - p ELSE x + y
zp_sub(x, y, p) == IF x >= y THEN x - y ELSE x - y + p

\* mpz_invert, which is not to be used where x = 0 (mod p).
zp_inv(x, p) == CHOOSE y \in 1 .. p - 1 : (x * y) % p = 1

Zero == [a |-> 0, b |-> 0]
One  == [a |-> 1, b |-> 0]

\* An element of F_p.
Real(x) == [a |-> x, b |-> 0]

fp2_neg(u, p)        == [a |-> p - u.a, b |-> p - u.b]
fp2_add(u, v, p)     == [a |-> zp_add(u.a, v.a, p), b |-> zp_add(u.b, v.b, p)]
fp2_sub(u, v, p)     == [a |-> zp_sub(u.a, v.a, p), b |-> zp_sub(u.b, v.b, p)]
fp2_mul_mpz(u, x, p) == [a |-> (u.a * x) % p, b |-> (u.b * x) % p]
fp2_sqr(u, p)        == [a |-> ((u.a - u.b) * (u.a + u.b)) % p, b |-> (2 * u.a * u.b) % p]

fp2_mul(u, v, p) ==
  [a |-> (u.a * v.a - u.b * v.b) % p, b |-> (u.a * v.b + u.b * v.a) % p]

fp2_div(u, v, p) ==
  LET i == zp_inv(v.a * v.a + v.b * v.b, p)
  IN  [a |-> (((u.a * v.a + u.b * v.b) % p) * i) % p,
       b |-> (((u.b * v.a - u.a * v.b) % p) * i) % p]
-----------------------------------------------------------------------------
(***************************************************************************)
(* Numbers bit by bit: mpz_tstbit, mpz_sizeinbase(n, 2) and the sliding    *)
(* windows in which fp2_pow and point_mul read the digits s[m .. 0].       *)
(***************************************************************************)
windowsize == 5

Bit(n, i) == (n \div 2 ^ i) % 2

BitSize(n) == CHOOSE m \in 1 .. n + 1 : n < 2 ^ m /\ (m = 1 \/ 2 ^ (m - 1) <= n)

\* The digits s[l .. m] as a number.
DigitsValue(s, l, m) == MapThenSumSet(LAMBDA k : s[k] * 2 ^ (k - l), l .. m)

\* f(f(... v)), k times.
Iterated(f(_), k, v) ==
  LET it[i \in 0 .. k] == IF i = 0 THEN v ELSE f(it[i - 1])
  IN  it[k]

(***************************************************************************)
(* A window [size, value] is one digit 0, or at most windowsize digits of  *)
(* which the first and the last are not 0.                                 *)
(***************************************************************************)
Windows(s, top) ==
  LET from[m \in -1 .. top] ==
        IF m < 0 THEN <<>>
        ELSE IF s[m] = 0 THEN <<[size |-> 1, value |-> 0]>> \o from[m - 1]
        ELSE LET l == CHOOSE k \in 0 .. m :
                        /\ s[k] # 0 /\ m - k < windowsize
                        /\ \A h \in 0 .. k - 1 : m - h < windowsize => s[h] = 0
             IN  <<[size |-> m - l + 1, value |-> DigitsValue(s, l, m)]>> \o from[l - 1]
  IN  from[top]

\* g[j] = u^j for odd j.
OddPowers(u, p) ==
  LET g[j \in 1 .. 2 ^ windowsize - 1] ==
        IF j = 1 THEN u
        ELSE IF j = 2 THEN fp2_mul(u, u, p)
        ELSE fp2_mul(g[j - 2], g[2], p)
  IN  g

fp2_pow(u, n, p) ==
  LET g          == OddPowers(u, p)
      top        == BitSize(n) - 1
      Sqr(v)     == fp2_sqr(v, p)
      Times(v, j) == IF j = 0 THEN v ELSE fp2_mul(v, g[j], p)
      Step(v, w) == Times(Iterated(Sqr, w.size, v), w.value)
  IN  FoldLeft(Step, One, Windows([i \in 0 .. top |-> Bit(n, i)], top))

\* mpz_powm.
zp_powm(x, n, p) ==
  LET pow[k \in 0 .. n] ==
        IF k = 0 THEN 1
        ELSE LET half == pow[k \div 2]
             IN  (((half * half) % p) * (IF k % 2 = 0 THEN 1 ELSE x)) % p
  IN  pow[n]

\* A cube root of 1 that is not in F_p: (p - 1)/2 (1 + sqrt(3) sqrt(-1)).
fp2_set_cbrt_unity(p) ==
  [a |-> (p - 1) \div 2, b |-> (zp_powm(3, (p + 1) \div 4, p) * ((p - 1) \div 2)) % p]
=============================================================================
