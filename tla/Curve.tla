------------------------------- MODULE Curve -------------------------------
(***************************************************************************)
(* The curve E: y^2 = x^3 + 1 over F_p and F_p^2, p = 2 (mod 3) (curve.c). *)
(* A point that computations need the inverse of 0 for is Lost: what the   *)
(* program goes on with then is not defined.                               *)
(***************************************************************************)
EXTENDS Fp2

\* Points of E over F_p^2, and, as pairs of numbers, over F_p.
Point(x, y) == [x |-> x, y |-> y, infinity |-> FALSE]
point_O     == [x |-> Zero, y |-> One, infinity |-> TRUE]

Affine(x, y) == [x |-> x, y |-> y]
Lost         == Affine(-1, -1)
OnF_p(A)     == Point(Real(A.x), Real(A.y))
Coordinates(P) == Affine(P.x.a, P.y.a)

(***************************************************************************)
(* The non-adjacent form of n: digits -1, 0, 1 at 0 .. BitSize(n).         *)
(***************************************************************************)
NAF(n) ==
  LET m == BitSize(n)
      carry[j \in 0 .. m + 1] ==
        IF j = 0 THEN 0 ELSE (Bit(n, j - 1) + Bit(n, j) + carry[j - 1]) \div 2
  IN  [j \in 0 .. m |-> Bit(n, j) + carry[j] - 2 * carry[j + 1]]

Top(s, m) == IF s[m] = 0 THEN m - 1 ELSE m

(***************************************************************************)
(* q = 2^|a| +- 2^|b| +- 1, where b has the sign of 2^|b| and a that of 1; *)
(* b is 0 if there is no such term.  Any other q has a = b = 0.            *)
(***************************************************************************)
curve_init(p, q) ==
  LET s      == NAF(q)
      places == SetToSortSeq({i \in DOMAIN s : s[i] # 0}, <)
      i      == places[2]
  IN  [p |-> p, q |-> q,
       p1onq    |-> (p + 1) \div q,
       cbrtpwr  |-> (2 * p - 1) \div 3,
       solinasa |-> CASE Len(places) = 2 -> s[0] * i * s[i]
                      [] Len(places) = 3 -> s[0] * places[3]
                      [] OTHER -> 0,
       solinasb |-> IF Len(places) = 3 THEN i * s[i] ELSE 0]

\* A wrong variant of the next operator: 1 is added.
x_from_yPlus1(y, c) == zp_powm((y * y + 1) % c.p, c.cbrtpwr, c.p)

\* A point with the given y: x is the cube root of y^2 - 1.
x_from_y(y, c) == zp_powm((y * y - 1) % c.p, c.cbrtpwr, c.p)

point_valid_p(P, p) ==
  P.infinity \/ fp2_sqr(P.y, p) = fp2_add(fp2_mul(fp2_sqr(P.x, p), P.x, p), One, p)

\* On E/F_p and finite.
point_special_p(P, p) == ~ P.infinity /\ P.x.b = 0 /\ P.y.b = 0 /\ point_valid_p(P, p)
-----------------------------------------------------------------------------
(***************************************************************************)
(* Doubling and addition: over F_p^2, then over F_p, where the two points  *)
(* are expected to differ and their sum to be finite.                      *)
(***************************************************************************)
\* The third point on the line through P with this slope, reflected.
Third(slope, P, Qx, p) ==
  LET x == fp2_sub(fp2_sub(fp2_sqr(slope, p), P.x, p), Qx, p)
  IN  Point(x, fp2_sub(fp2_mul(fp2_sub(P.x, x, p), slope, p), P.y, p))

point_add(P, Q, p) ==
  IF P.infinity THEN Q
  ELSE IF Q.infinity THEN P
  ELSE IF P.x # Q.x
    THEN Third(fp2_div(fp2_sub(Q.y, P.y, p), fp2_sub(Q.x, P.x, p), p), P, Q.x, p)
  ELSE IF P.y = fp2_neg(Q.y, p) THEN point_O
  ELSE Third(fp2_div(fp2_mul(fp2_add(fp2_add(P.x, P.x, p), P.x, p), P.x, p),
                     fp2_add(P.y, P.y, p), p), P, P.x, p)

\* Where the slope is n/d.
ZzThird(n, d, A, Bx, p) ==
  LET slope == (n * zp_inv(d, p)) % p
      x     == (slope * slope - A.x - Bx) % p
  IN  IF d % p = 0 THEN Lost ELSE Affine(x, ((A.x - x) * slope - A.y) % p)

zzp_point_double(A, p) ==
  IF A = Lost THEN Lost ELSE ZzThird((3 * A.x * A.x) % p, 2 * A.y, A, A.x, p)

zzp_point_add(A, B, p) ==
  IF Lost \in {A, B} THEN Lost ELSE ZzThird(B.y - A.y, B.x - A.x, A, B.x, p)

(***************************************************************************)
(* Projective coordinates: (x, y, z) is the point (x/z^2, y/z^3).  They    *)
(* expect neither O nor equal points; z is and stays 0 where these come.   *)
(***************************************************************************)
proj_double(R, p) ==
  LET t1 == (3 * R.x * R.x) % p
      t5 == (R.y * R.y) % p
      t2 == (4 * t5 * R.x) % p
      x  == (t1 * t1 - 2 * t2) % p
  IN  [x |-> x, y |-> ((t2 - x) * t1 - 8 * t5 * t5) % p, z |-> (2 * R.y * R.z) % p]

Half(y, p) == (IF y % 2 = 1 THEN y + p ELSE y) \div 2

\* R + (A.x, A.y, 1).
proj_mix_in(R, A, p) ==
  LET zz == (R.z * R.z) % p
      l2 == (zz * A.x) % p
      l3 == R.x - l2
      l5 == (((zz * R.z) % p) * A.y) % p
      l6 == R.y - l5
      l7 == R.x + l2
      l8 == R.y + l5
      x  == (l6 * l6 - ((l3 * l3) % p) * l7) % p
      l9 == (l7 * ((l3 * l3) % p) - 2 * x) % p
      y  == (l9 * l6 - ((l8 * ((l3 * l3) % p)) % p) * l3) % p
  IN  [x |-> x, y |-> Half(y, p), z |-> (R.z * l3) % p]

Proj(A) == [x |-> A.x, y |-> A.y, z |-> IF A = Lost THEN 0 ELSE 1]

MixIn(R, A, p) == IF A = Lost THEN [R EXCEPT !.z = 0] ELSE proj_mix_in(R, A, p)

Unproj(R, p) ==
  LET i == zp_inv(R.z, p)
  IN  IF R.z = 0 THEN Lost
      ELSE Affine((R.x * ((i * i) % p)) % p, (R.y * ((((i * i) % p) * i) % p)) % p)

\* A wrong variant of the next operator: negative digits count as positive.
NegatedNot(A, p) == A

Negated(A, p) == IF A = Lost THEN Lost ELSE [A EXCEPT !.y = p - @]
-----------------------------------------------------------------------------
(***************************************************************************)
(* n A, for A on E/F_p and 0 < n, with the windows of the non-adjacent     *)
(* form.  (The program computes all of T, needed or not.)                  *)
(***************************************************************************)
OddMultiples(A, p) ==
  LET T[j \in 1 .. 2 ^ windowsize - 1] ==
        IF j = 1 THEN A
        ELSE IF j = 2 THEN zzp_point_double(A, p)
        ELSE zzp_point_add(T[j - 2], T[2], p)
  IN  T

point_mul(n, A, p) ==
  LET T          == OddMultiples(A, p)
      s          == NAF(n)
      Entry(j)   == LET B == T[Abs(j)] IN IF j < 0 THEN Negated(B, p) ELSE B
      Double(R)  == proj_double(R, p)
      Add(R, j)  == IF j = 0 THEN R ELSE MixIn(R, Entry(j), p)
      Step(R, w) == Add(Iterated(Double, w.size, R), w.value)
      Run(ws)    == FoldLeft(Step, Proj(Entry(Head(ws).value)), Tail(ws))
  IN  Unproj(Run(Windows(s, Top(s, BitSize(n)))), p)

\* pre[i] = 2^i A, for all i that n < q can need.
point_mul_preprocess(A, c) ==
  LET pre[i \in 0 .. BitSize(c.q)] == IF i = 0 THEN A ELSE zzp_point_double(pre[i - 1], c.p)
  IN  pre

\* n A from them, 0 < n < q.
point_mul_postprocess(n, pre, p) ==
  LET s       == NAF(n)
      m       == Top(s, BitSize(n))
      R[j \in 0 .. m] ==
        IF j = m THEN Proj(pre[m])
        ELSE IF s[j] = 0 THEN R[j + 1]
        ELSE MixIn(R[j + 1], IF s[j] < 0 THEN Negated(pre[j], p) ELSE pre[j], p)
  IN  Unproj(R[0], p)
=============================================================================
