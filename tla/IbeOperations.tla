--------------------------- MODULE IbeOperations ---------------------------
(***************************************************************************)
(* The public operations of ibe_lib.c on real curves: setup, extraction,   *)
(* encryption and decryption of secrets, keys made of shares, certificates  *)
(* and signatures.                                                         *)
(* One action per operation, one legal sequence of calls per behaviour.    *)
(*                                                                         *)
(* Hashes and random numbers are any of those given.  A secret is the      *)
(* element of F_p^2 that hash_H is applied to.  An operation that needs    *)
(* the inverse of 0 goes on with something undefined, and one that         *)
(* multiplies by 0 fails an assertion.                                     *)
(***************************************************************************)
EXTENDS TatePairing, FiniteSets

CONSTANTS
  Systems,      \* the [p, q] that IBE_setup may find
  RandomY(_),   \* given p, some outcomes of hash_G and of the random y
  Scalars(_),   \* given q, some outcomes of mympz_randomm(q)
  Sharings(_)   \* given q, some of what IBE_split_master may draw: [poly, x]

IsPrime(n) == n > 1 /\ \A d \in 2 .. n - 1 : n % d # 0

\* p = 12 q r - 1, and curve_init finds the form of q.
ASSUME SystemsAssumption ==
  \A s \in Systems :
    /\ IsPrime(s.p) /\ IsPrime(s.q) /\ (s.p + 1) % (12 * s.q) = 0
    /\ curve_init(s.p, s.q).solinasa # 0

\* The polynomial but for its constant term, of degree t - 1, and n points.
ASSUME SharingsAssumption ==
  \A s \in Systems : \A d \in Sharings(s.q) :
    /\ d.poly \in Seq(0 .. s.q - 1) /\ d.x \in Seq(0 .. s.q - 1)
    /\ IsInjective(d.x) /\ Len(d.poly) < Len(d.x)

VARIABLES
  stage,    \* the operation that returned last, or how the program fell
  params,   \* params_t, with the curve and the caches in it
  master,   \* the master secret
  sharing,  \* t, the points robustx, the master shares and one id's key shares
  kem,      \* key, U, the recipients' secrets and the one that was revealed
  signing,  \* keys, certificate, signature and verdict
  mults     \* the multiplications of points that the last operation made

vars == <<stage, params, master, sharing, kem, signing, mults>>

NoSharing == [t |-> 1, x |-> <<>>, y |-> <<>>, order |-> <<>>, shares |-> <<>>]
NoKem     == [id |-> 0, key |-> Lost, to |-> <<>>, U |-> Lost, secrets |-> <<>>, revealed |-> Zero]
NoSigning == [private |-> 0, public |-> Lost, id |-> 0, cert |-> Lost, message |-> 0,
              sig |-> Lost, about |-> <<>>, verdict |-> FALSE]

Init ==
  /\ stage = "start"
  /\ \E s \in Systems : params = [c |-> curve_init(s.p, s.q), P |-> Lost, Ppub |-> Lost]
  /\ master = 0
  /\ sharing = NoSharing /\ kem = NoKem /\ signing = NoSigning
  /\ mults = {}

c == params.c
p == params.c.p
q == params.c.q

\* n A = R.
Mult(n, A, R) == [n |-> n, A |-> A, R |-> R]

(***************************************************************************)
(* The operation made these multiplications, in this order: the first one  *)
(* that fails is the last.                                                 *)
(***************************************************************************)
Returns(operation, ms) ==
  LET bad == {k \in DOMAIN ms : ms[k].n = 0 \/ ms[k].R = Lost}
      k   == Min(bad)
  IN  /\ mults' = {ms[h] : h \in IF bad = {} THEN DOMAIN ms ELSE 1 .. k - 1}
                  \cup (IF bad # {} /\ ms[k].n # 0 THEN {ms[k]} ELSE {})
      /\ stage' = IF bad = {} THEN operation
                  ELSE IF ms[k].n = 0 THEN "aborted" ELSE "undefined"

Mul(n, A) == Mult(n, A, IF n = 0 \/ A = Lost THEN Lost ELSE point_mul(n, A, p))

Multiples(S, A) == {Mul(n, A) : n \in S}

\* map_byte_string_to_point, for any hash y.  (The test whether the point is
\* infinite never succeeds: point_mul makes finite points only.)
HashedPoints == {Mul(c.p1onq, Affine(x_from_y(y, c), y)) : y \in RandomY(p)}

\* The hash it was made from.
HashOf(H) == H.A.y
-----------------------------------------------------------------------------
IBE_setup ==
  /\ stage = "start"
  /\ \E P \in HashedPoints : \E Ppub \in Multiples(Scalars(q), P.R) :
       /\ Returns("ready", <<P, Ppub>>)
       /\ master' = Ppub.n
       /\ params' = IF Ppub.R = Lost THEN params
                    ELSE [c |-> c, P |-> P.R, Ppub |-> Ppub.R,
                          pre |-> point_mul_preprocess(P.R, c),
                          Ppub_mc |-> tate_preprocess(Ppub.R, c)]
  /\ UNCHANGED <<sharing, kem, signing>>

IBE_extract ==
  /\ stage = "ready"
  /\ \E Q \in HashedPoints : \E key \in Multiples({master}, Q.R) :
       /\ Returns("extracted", <<Q, key>>)
       /\ kem' = [kem EXCEPT !.id = HashOf(Q), !.key = key.R]
  /\ UNCHANGED <<params, master, sharing, signing>>

\* A wrong variant of the next operator: sqrt(-1) is taken for the cube root.
PointPhiOf_i(A) == Point(fp2_mul(Real(A.x), [a |-> 0, b |-> 1], p), Real(A.y))

\* point_Phi, with params->zeta.
point_Phi(A) == Point(fp2_mul(Real(A.x), fp2_set_cbrt_unity(p), p), Real(A.y))

\* r P from the saved multiples of P.
RandomMultiples ==
  {Mult(r, params.P, IF r = 0 THEN Lost ELSE point_mul_postprocess(r, params.pre, p)) :
     r \in Scalars(q)}

\* IBE_KEM_encrypt_array, for two recipients.
IBE_KEM_encrypt ==
  /\ stage = "extracted"
  /\ \E U \in RandomMultiples, Q1 \in HashedPoints, Q2 \in HashedPoints :
       LET Secret(Q) == fp2_pow(tate_postprocess(params.Ppub_mc, point_Phi(Q.R), c), U.n, p)
       IN  /\ Returns("encrypted", <<U, Q1, Q2>>)
           /\ kem' = IF Lost \in {U.R, Q1.R, Q2.R} THEN kem
                     ELSE [kem EXCEPT !.to = <<HashOf(Q1), HashOf(Q2)>>, !.U = U.R,
                                      !.secrets = <<Secret(Q1), Secret(Q2)>>]
  /\ UNCHANGED <<params, master, sharing, signing>>

IBE_KEM_decrypt ==
  /\ stage = "encrypted"
  /\ kem' = [kem EXCEPT !.revealed = tate_pairing(kem.key, point_Phi(kem.U), c)]
  /\ Returns("decrypted", <<>>)
  /\ UNCHANGED <<params, master, sharing, signing>>

\* The key and the other's id make a secret of two, without a message.
IBE_get_shared_secret ==
  /\ stage = "extracted"
  /\ \E Q \in HashedPoints :
       /\ Returns("agreed", <<Q>>)
       /\ kem' = IF Q.R = Lost THEN kem
                 ELSE [kem EXCEPT !.to = <<HashOf(Q)>>,
                                  !.revealed = tate_pairing(kem.key, point_Phi(Q.R), c)]
  /\ UNCHANGED <<params, master, sharing, signing>>
-----------------------------------------------------------------------------
(***************************************************************************)
(* The master secret is shared, and t PKGs make a key.  A certificate is   *)
(* made in the same way: IBE_certify_share is IBE_extract_share for the    *)
(* hash of the public key and the id.                                      *)
(***************************************************************************)
\* Horner's rule, from the highest coefficient.
Eval(poly, x) == FoldRight(LAMBDA a, z : (z * x + a) % q, poly, 0)

\* robustP is made here, and not used.
IBE_split_master ==
  /\ stage = "ready"
  /\ \E d \in Sharings(q) :
       LET y == [i \in DOMAIN d.x |-> Eval(<<master>> \o d.poly, d.x[i])]
       IN  /\ Returns("split", [i \in DOMAIN y |-> Mul(y[i], params.Ppub)])
           /\ sharing' = [sharing EXCEPT !.t = Len(d.poly) + 1, !.x = d.x, !.y = y]
  /\ UNCHANGED <<params, master, kem, signing>>

IBE_extract_share(i) ==
  /\ stage = "split" \/ (stage = "shared" /\ Len(sharing.order) < sharing.t)
  /\ ~ Contains(sharing.order, i)
  /\ \E Q \in HashedPoints :
       /\ stage = "shared" => HashOf(Q) = kem.id
       /\ \E share \in Multiples({sharing.y[i]}, Q.R) :
            /\ Returns("shared", <<Q, share>>)
            /\ kem' = [kem EXCEPT !.id = HashOf(Q)]
            /\ sharing' = [sharing EXCEPT !.order = Append(@, i), !.shares = Append(@, share.R)]
  /\ UNCHANGED <<params, master, signing>>

\* A wrong variant of the next operator: shares are taken for those of PKGs 1 to t.
WeightByPlace(order, k) ==
  LET others == SetToSeq(DOMAIN order \ {k})
      Product(factor(_)) == FoldLeft(LAMBDA z, j : (z * factor(j)) % q, 1, others)
  IN  (Product(LAMBDA j : sharing.x[j]) *
       zp_inv(Product(LAMBDA j : sharing.x[j] - sharing.x[k]), q)) % q

\* The weight of the k-th of the shares with these indices.
Weight(order, k) ==
  LET x(j)    == sharing.x[order[j]]
      others  == SetToSeq(DOMAIN order \ {k})
      Product(factor(_)) == FoldLeft(LAMBDA z, j : (z * factor(j)) % q, 1, others)
  IN  (Product(x) * zp_inv(Product(LAMBDA j : x(j) - x(k)), q)) % q

Weighted == [k \in DOMAIN sharing.order |-> Mul(Weight(sharing.order, k), sharing.shares[k])]

IBE_combine ==
  /\ stage = "shared" /\ Len(sharing.order) = sharing.t
  /\ Returns("combined", Weighted)
  /\ kem' = IF \E k \in DOMAIN Weighted : Weighted[k].R = Lost THEN kem
            ELSE [kem EXCEPT !.key =
                    Coordinates(FoldLeft(LAMBDA d, m : point_add(d, OnF_p(m.R), p),
                                         point_O, Weighted))]
  /\ UNCHANGED <<params, master, sharing, signing>>
-----------------------------------------------------------------------------
\* BLS_keygen.
IBE_keygen ==
  /\ stage = "ready"
  /\ \E public \in Multiples(Scalars(q), params.P) :
       /\ Returns("keys", <<public>>)
       /\ signing' = [signing EXCEPT !.private = public.n, !.public = public.R]
  /\ UNCHANGED <<params, master, sharing, kem>>

\* H is the hash of the public key and the id.
IBE_certify ==
  /\ stage = "keys"
  /\ \E H \in HashedPoints : \E cert \in Multiples({master}, H.R) :
       /\ Returns("certified", <<H, cert>>)
       /\ signing' = [signing EXCEPT !.id = HashOf(H), !.cert = cert.R]
  /\ UNCHANGED <<params, master, sharing, kem>>

BLS_sign ==
  /\ stage = "keys"
  /\ \E M \in HashedPoints : \E sig \in Multiples({signing.private}, M.R) :
       /\ Returns("bls_signed", <<M, sig>>)
       /\ signing' = [signing EXCEPT !.message = HashOf(M), !.sig = sig.R]
  /\ UNCHANGED <<params, master, sharing, kem>>

\* The signature is the sum of the BLS signature and the certificate.
IBE_sign ==
  /\ stage = "certified"
  /\ \E M \in HashedPoints : \E xM \in Multiples({signing.private}, M.R) :
       /\ Returns("signed", <<M, xM>>)
       /\ signing' = IF xM.R = Lost THEN signing
                     ELSE [signing EXCEPT
                             !.message = HashOf(M),
                             !.sig = Coordinates(point_add(OnF_p(signing.cert), OnF_p(xM.R), p))]
  /\ UNCHANGED <<params, master, sharing, kem>>

\* is_DDH_tuple.
BLS_verify ==
  /\ stage = "bls_signed"
  /\ \E M \in HashedPoints :
       /\ Returns("bls_verified", <<M>>)
       /\ signing' = IF M.R = Lost THEN signing
                     ELSE [signing EXCEPT !.about = <<HashOf(M)>>,
                             !.verdict = tate_pairing(params.P, point_Phi(signing.sig), c)
                                         = tate_pairing(signing.public, point_Phi(M.R), c)]
  /\ UNCHANGED <<params, master, sharing, kem>>

\* Of any message, and with any public key and id whose hash is H.
IBE_verify ==
  /\ stage = "signed"
  /\ \E M \in HashedPoints, H \in HashedPoints :
       LET lhs == tate_pairing(params.P, point_Phi(signing.sig), c)
           rhs == fp2_mul(tate_pairing(signing.public, point_Phi(M.R), c),
                          tate_pairing(params.Ppub, point_Phi(H.R), c), p)
       IN  /\ Returns("verified", <<M, H>>)
           /\ signing' = IF Lost \in {M.R, H.R} THEN signing
                         ELSE [signing EXCEPT !.about = <<HashOf(M), HashOf(H)>>,
                                              !.verdict = lhs = rhs]
  /\ UNCHANGED <<params, master, sharing, kem>>

Next ==
  \/ IBE_setup
  \/ IBE_extract \/ IBE_KEM_encrypt \/ IBE_KEM_decrypt \/ IBE_get_shared_secret
  \/ IBE_split_master \/ IBE_combine \/ \E i \in DOMAIN sharing.x : IBE_extract_share(i)
  \/ IBE_keygen \/ IBE_certify \/ IBE_sign \/ IBE_verify \/ BLS_sign \/ BLS_verify

Spec == Init /\ [][Next]_vars
-----------------------------------------------------------------------------
(***************************************************************************)
(* The group of E over F_p as the textbooks have it: the reference.        *)
(***************************************************************************)
O == Affine(-2, -2)

Plus(A, B) ==
  LET n == IF A.x = B.x THEN 3 * A.x * A.x ELSE B.y - A.y
      d == IF A.x = B.x THEN 2 * A.y ELSE B.x - A.x
      slope == ((n % p) * zp_inv(d, p)) % p
      x == (slope * slope - A.x - B.x) % p
  IN  IF A = O THEN B
      ELSE IF B = O THEN A
      ELSE IF A.x = B.x /\ (A.y + B.y) % p = 0 THEN O
      ELSE Affine(x, ((A.x - x) * slope - A.y) % p)

Multiple(n, A) ==
  LET M[k \in 0 .. n] ==
        IF k = 0 THEN O
        ELSE LET half == M[k \div 2]
             IN  Plus(Plus(half, half), IF k % 2 = 1 THEN A ELSE O)
  IN  M[n]

OfOrderQ(A) == A # Lost /\ point_special_p(OnF_p(A), p) /\ Multiple(q, A) = O

IdPoint(y) == Multiple(c.p1onq, Affine(x_from_y(y, c), y))
-----------------------------------------------------------------------------
\* Public points, keys and certificates are points of E/F_p of order q,
\* secrets elements of F_p^2 of order q.
TypeOK ==
  /\ stage \notin {"start", "undefined", "aborted"} => OfOrderQ(params.P) /\ OfOrderQ(params.Ppub)
  /\ stage \in {"extracted", "encrypted", "decrypted"} => OfOrderQ(kem.key)
  /\ stage \in {"encrypted", "decrypted"} =>
       /\ OfOrderQ(kem.U)
       /\ \A i \in 1 .. 2 : kem.secrets[i] # One /\ fp2_pow(kem.secrets[i], q, p) = One
  /\ stage \in {"certified", "signed", "verified"} => OfOrderQ(signing.cert)

(***************************************************************************)
(* "R = nP" (curve.c:1846, 1919): windows, signed digits, tables and       *)
(* projective coordinates give the multiple of the group.  Two kinds of    *)
(* input make them divide by 0: those with nP = O, and q - 2, where the    *)
(* last digit -1 meets -P.                                                 *)
(***************************************************************************)
MultipleIsRight ==
  \A m \in mults :
    \/ m.R = Multiple(m.n, m.A)
    \/ m.R = Lost /\ (Multiple(m.n, m.A) = O \/ (m.n = q - 2 /\ q % 4 = 1))

(***************************************************************************)
(* A private key reveals the secrets of its own id and no others, though   *)
(* the two sides compute them in different ways: with cached lines and a   *)
(* power of the pairing, or with the pairing of the multiples.  And the    *)
(* secret of two is what the other one makes of the same, in which the     *)
(* points change sides.                                                    *)
(***************************************************************************)
SecretsAgree ==
  /\ stage = "decrypted" =>
       \A i \in 1 .. 2 :
         kem.revealed = kem.secrets[i] <=> IdPoint(kem.id) = IdPoint(kem.to[i])
  /\ stage = "agreed" =>
       kem.revealed = tate_pairing(Multiple(master, IdPoint(kem.to[1])),
                                   point_Phi(IdPoint(kem.id)), c)

(***************************************************************************)
(* "reconstruct a key from key shares" (ibe_lib.c:529): whichever t PKGs   *)
(* answer, and in whatever order, the key is the one that the master       *)
(* secret makes, although no two orders add the same points.  Only where   *)
(* the first k weighted shares add up to O on the way does point_add go    *)
(* wrong, and the key with it: it has no sum of opposite points over F_p.  *)
(***************************************************************************)
Partial(k) == FoldLeft(LAMBDA A, m : Plus(A, m.R), O, SubSeq(Weighted, 1, k))

CombinedIsKey ==
  stage = "combined" =>
    (kem.key = Multiple(master, IdPoint(kem.id)) <=> \A k \in 1 .. sharing.t : Partial(k) # O)

(***************************************************************************)
(* A signature is accepted for the message it was made for, under the key  *)
(* and id that were certified, and for nothing that differs from it in one *)
(* of them.  (Where certificate and BLS signature add up to O, point_add   *)
(* does not see it, and the signature is of no use.)                       *)
(***************************************************************************)
SumIsO == Plus(signing.cert, Multiple(signing.private, IdPoint(signing.message))) = O

SameMessage == IdPoint(signing.about[1]) = IdPoint(signing.message)
SameId      == IdPoint(signing.about[2]) = IdPoint(signing.id)

VerdictIsRight ==
  /\ stage = "bls_verified" => (signing.verdict <=> SameMessage)
  /\ stage = "verified" /\ ~ SumIsO =>
       /\ SameId => (signing.verdict <=> SameMessage)
       /\ SameMessage => (signing.verdict <=> SameId)
=============================================================================
