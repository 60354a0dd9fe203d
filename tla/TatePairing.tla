---------------------------- MODULE TatePairing ----------------------------
(***************************************************************************)
(* The Tate pairing of curve.c for P of order q on E/F_p and Q on E/F_p^2, *)
(* q a Solinas prime: Miller's function f_q as a fraction of products of   *)
(* lines, and its power (p^2 - 1)/q.  Factors in F_p do not matter: the    *)
(* power makes them 1.                                                     *)
(***************************************************************************)
EXTENDS Curve

\* The line a x + b y + c, and its value at Q.
Line(a, b, c) == [a |-> a, b |-> b, c |-> c]

At(l, Q, p) ==
  fp2_add(fp2_add(fp2_mul_mpz(Q.x, l.a % p, p), fp2_mul_mpz(Q.y, l.b % p, p), p), Real(l.c % p), p)

(***************************************************************************)
(* Tangent and vertical at a point in projective coordinates, y # 0; line  *)
(* through two points with different x; vertical at a point.               *)
(***************************************************************************)
pts_get_tangent(R, p) ==
  LET zz == (R.z * R.z) % p
      xx == (3 * R.x * R.x) % p
  IN  Line(-xx * zz, 2 * R.y * ((zz * R.z) % p), xx * R.x - 2 * R.y * R.y)

pts_get_vertical(R, p) == Line(R.z * R.z, 0, -R.x)

tate_get_line(A, B) ==
  Line(A.y - B.y, B.x - A.x, -((A.y - B.y) * A.x + (B.x - A.x) * A.y))

tate_get_vertical(A) == Line(1, 0, -A.x)

\* The same as tate_preprocess saves them, divided by a coefficient.
pts_preprocess_tangent(R, p) ==
  LET a == -(((3 * R.x * R.x) % p) * zp_inv(2 * R.y * R.z, p)) % p
      z == (R.z * R.z) % p
  IN  Line(a, 1, -((((a * R.x) % p) * R.z + R.y) % p) * zp_inv(z * R.z, p))

pts_preprocess_vertical(R, p) == Line(1, 0, -(R.x * zp_inv(R.z * R.z, p)))

pts_preprocess_line(A, B, p) ==
  LET a == ((A.y - B.y) * zp_inv(B.x - A.x, p)) % p
  IN  Line(a, 1, -(A.y + a * A.x))
-----------------------------------------------------------------------------
(***************************************************************************)
(* P, 2 P, ... 2^a P as the loops leave them, affine at 2^b and 2^a.       *)
(***************************************************************************)
Doublings(P, c) ==
  LET Z[i \in 0 .. Abs(c.solinasa)] ==
        IF i = 0 THEN Proj(P)
        ELSE LET R == proj_double(Z[i - 1], c.p)
             IN  IF i \in {Abs(c.solinasa), Abs(c.solinasb)} THEN Proj(Unproj(R, c.p)) ELSE R
  IN  Z

(***************************************************************************)
(* The lines of f_q, as they are saved in a cache or as they are made on   *)
(* the fly.  num[i] and denom[i] belong to the step from Z[i] = 2^i P to   *)
(* 2^(i+1) P, denomsb to that from 2^b P to its inverse, the "l1" to the   *)
(* addition of 2^b P, denoms1 and numl2 to that of P: by then the sum is P *)
(* or -P.                                                                  *)
(***************************************************************************)
LinesAt(Z, c, cached) ==
  LET p     == c.p
      Tangent(R)  == IF cached THEN pts_preprocess_tangent(R, p) ELSE pts_get_tangent(R, p)
      Vertical(R) == IF cached THEN pts_preprocess_vertical(R, p) ELSE pts_get_vertical(R, p)
      Chord(A, B) == IF cached THEN pts_preprocess_line(A, B, p) ELSE tate_get_line(A, B)
      steps == 0 .. Abs(c.solinasa) - 1
      pow2a == Affine(Z[Abs(c.solinasa)].x, Z[Abs(c.solinasa)].y)
      pow2b == Affine(Z[Abs(c.solinasb)].x, Z[Abs(c.solinasb)].y)
      term  == IF c.solinasb < 0 THEN Negated(pow2b, p) ELSE pow2b
      sum   == IF c.solinasb = 0 THEN pow2a
               ELSE Coordinates(point_add(OnF_p(pow2a), OnF_p(term), p))
  IN  [num     |-> [i \in steps |-> Tangent(Z[i])],
       denom   |-> [i \in steps |-> Vertical(proj_double(Z[i], p))],
       denomsb |-> tate_get_vertical(pow2b),
       numl1   |-> IF c.solinasb = 0 THEN Line(0, 0, 1) ELSE Chord(pow2a, term),
       denoml1 |-> IF c.solinasb = 0 THEN Line(0, 0, 1) ELSE tate_get_vertical(sum),
       denoms1 |-> IF c.solinasa < 0 THEN tate_get_vertical(sum) ELSE Line(0, 0, 1),
       numl2   |-> tate_get_vertical(sum)]

\* What the cache holds for P.
tate_preprocess(P, c) == LinesAt(Doublings(P, c), c, TRUE)

(***************************************************************************)
(* f_q at Q: f = [v, vdenom] is squared and multiplied a times; the f of   *)
(* 2^b, or its inverse, comes in where the chain has passed it.            *)
(***************************************************************************)
Times(f, g, p) == [v |-> fp2_mul(f.v, g.v, p), vdenom |-> fp2_mul(f.vdenom, g.vdenom, p)]

LinesAtQ(num, denom, Q, p) == [v |-> At(num, Q, p), vdenom |-> At(denom, Q, p)]

Square(f, p) == [v |-> fp2_sqr(f.v, p), vdenom |-> fp2_sqr(f.vdenom, p)]

Inverted(f, vertical, Q, p) == [v |-> f.vdenom, vdenom |-> fp2_mul(f.v, At(vertical, Q, p), p)]

Quotient(f, p) == fp2_div(f.v, f.vdenom, p)

miller_postprocess(mc, Q, c) ==
  LET p  == c.p
      Through(f, num, denom) == Times(f, LinesAtQ(num, denom, Q, p), p)
      f[i \in 0 .. Abs(c.solinasa)] ==
        IF i = 0 THEN [v |-> One, vdenom |-> One]
        ELSE Through(Square(f[i - 1], p), mc.num[i - 1], mc.denom[i - 1])
      f2b == f[Abs(c.solinasb)]
      fb  == IF c.solinasb < 0 THEN Inverted(f2b, mc.denomsb, Q, p) ELSE f2b
      sum == Through(Times(f[Abs(c.solinasa)], fb, p), mc.numl1, mc.denoml1)
  IN  Quotient(Through(sum, mc.numl2, mc.denoms1), p)

\* A wrong variant of the next operator: only the factor (p + 1)/q of the power.
tate_powerHalf(f, c) == fp2_pow(f, c.p1onq, c.p)

\* t^(p - 1): the conjugate divided by the number.
PowerPMinus1(t, p) == fp2_div([t EXCEPT !.b = p - @], t, p)

\* (p^2 - 1)/q = (p - 1)(p + 1)/q.
tate_power(f, c) == PowerPMinus1(fp2_pow(f, c.p1onq, c.p), c.p)

tate_postprocess(mc, Q, c) == tate_power(miller_postprocess(mc, Q, c), c)

(***************************************************************************)
(* tate_solinas_miller makes the lines and multiplies in one pass.         *)
(***************************************************************************)
tate_solinas_miller(P, Q, c) ==
  LET lines == LinesAt(Doublings(P, c), c, FALSE)
  IN  miller_postprocess([lines EXCEPT !.denoms1 = IF c.solinasa < 0 THEN tate_get_vertical(P) ELSE @],
                         Q, c)

tate_pairing(P, Q, c) == tate_power(tate_solinas_miller(P, Q, c), c)
=============================================================================
