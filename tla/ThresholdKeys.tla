--------------------------- MODULE ThresholdKeys ---------------------------
(***************************************************************************)
(* Sharing of the master secret in ibe_lib.c: IBE_split_master, the round  *)
(* trip of the parameters through IBE_serialize_params and                 *)
(* IBE_deserialize_params, IBE_extract_share, IBE_combine and              *)
(* IBE_construct_master.                                                   *)
(*                                                                         *)
(* The points of order q form a group isomorphic to Z_q: a point is the    *)
(* number that multiplies the generator P.  PointOf(id) is the point that  *)
(* map_byte_string_to_point hashes an identity to; it is never O.          *)
(* Randomness (mympz_randomm) is any value of the range.  What a C array   *)
(* read out of bounds yields, or mpz_invert where there is no inverse, is  *)
(* any value too.  Left out: point_add misses P + (-P) where a coordinate  *)
(* of P is 0 (fp2.c:143-148), and O has no coordinates to be written.      *)
(***************************************************************************)
EXTENDS Integers, Sequences, SequencesExt

CONSTANTS
  Q,           \* params->q
  IntBase,     \* what survives byte_string_set_int: 256 in the code
  Ids,         \* identities
  PointOf(_),  \* map_byte_string_to_point
  Masters,     \* master secrets of the instance
  Thresholds,  \* values of gen's "threshold"
  Sizes        \* values of gen's "shares"

Zq == 0 .. Q - 1

ASSUME QAssumption       == Q \in Nat \ {0, 1} /\ \A d \in 2 .. Q - 1 : Q % d # 0
ASSUME IntBaseAssumption == IntBase \in Nat \ {0}
ASSUME PointAssumption   == \A id \in Ids : PointOf(id) \in Zq \ {0}
ASSUME MastersAssumption == Masters \subseteq Zq
ASSUME SplitAssumption   == Thresholds \subseteq Nat \ {0} /\ Sizes \subseteq Nat \ {0}

VARIABLES
  master,   \* the master secret IBE_setup drew
  poly,     \* the coefficients IBE_split_master drew, constant term first
  params,   \* what params holds about sharing: sharet, sharen, robustx
  mshare,   \* the share file of each PKG
  kshare,   \* the key shares a user collects, in the order of arrival
  key,      \* the result of the last IBE_combine or IBE_construct_master
  phase     \* "setup", "split", "loaded", then the outcome

vars == <<master, poly, params, mshare, kshare, key, phase>>

NoKey == -1

\* byte_string_set_int, then int_from_byte_string: the cast binds before the
\* shift, so that the three upper bytes are 0.
Int4(n) == n % IntBase

\* A wrong variant of Horner's rule: no reduction.
EvalUnreduced(p, x) ==
  LET z[k \in 0 .. Len(p)] == IF k = 0 THEN 0 ELSE z[k - 1] * x + p[Len(p) - k + 1]
  IN  z[Len(p)]

\* Horner's rule, from the highest coefficient down.
Eval(p, x) ==
  LET z[k \in 0 .. Len(p)] == IF k = 0 THEN 0 ELSE (z[k - 1] * x + p[Len(p) - k + 1]) % Q
  IN  z[Len(p)]

(***************************************************************************)
(* The loop that IBE_combine and IBE_construct_master share.  index[i] is  *)
(* the index in share i, x[index[i]] the point it belongs to; value[i] is  *)
(* weighted with a numerator over a denominator.                           *)
(***************************************************************************)
Product(f) ==
  LET num[k \in 0 .. Len(f)] == IF k = 0 THEN 1 ELSE (num[k - 1] * f[k]) % Q
  IN  num[Len(f)]

\* "if (j != i)": nothing is multiplied for i itself.
Others(f, i) == [f EXCEPT ![i] = 1]

\* Wrong variants: the share's own point in the numerator, the difference taken
\* the other way round.
NumeratorWithOwn(index, x, i) == Product([j \in DOMAIN index |-> x[index[j]]])

Numerator(index, x, i) == Product(Others([j \in DOMAIN index |-> x[index[j]]], i))

DenominatorReversed(index, x, i) ==
  Product(Others([j \in DOMAIN index |-> (x[index[i]] - x[index[j]]) % Q], i))

Denominator(index, x, i) ==
  Product(Others([j \in DOMAIN index |-> (x[index[j]] - x[index[i]]) % Q], i))

\* What mpz_invert may leave.
Inverses(d) == {v \in Zq : d # 0 => (v * d) % Q = 1}

Terms(index, x, value, i) ==
  {(Numerator(index, x, i) * v * value[i]) % Q : v \in Inverses(Denominator(index, x, i))}

\* robustx[k] for every index k that a share carries.
PointsAt(K) ==
  {x \in [K -> Zq] : \A k \in K : k < Len(params.robustx) => x[k] = params.robustx[k + 1]}

\* What the sum of the terms may be.
Added(S, T) == {(a + b) % Q : a \in S, b \in T}

Sums(index, x, value) ==
  LET d[k \in 0 .. Len(index)] ==
        IF k = 0 THEN {0} ELSE Added(d[k - 1], Terms(index, x, value, k))
  IN  d[Len(index)]

Interpolations(index, value) == UNION {Sums(index, x, value) : x \in PointsAt(Range(index))}
-----------------------------------------------------------------------------
\* IBE_setup, as far as sharing is concerned.
Init ==
  /\ master \in Masters
  /\ poly = <<>>
  /\ params = [sharet |-> 0, sharen |-> 0, robustx |-> <<>>]
  /\ mshare = <<>>
  /\ kshare = <<>>
  /\ key = NoKey
  /\ phase = "setup"

\* A wrong variant: degree at most t-2, as the comment at ibe_lib.c:762 has it.
PolynomialsAsCommented(m, t) ==
  {<<m>> \o coef : coef \in {c \in [1 .. t - 1 -> Zq] : 1 < t => c[t - 1] = 0}}

\* What IBE_split_master may draw: degree at most t-1, constant term m.
Polynomials(m, t) == {<<m>> \o coef : coef \in [1 .. t - 1 -> Zq]}

\* IBE_split_master.
SplitMaster(t, n) ==
  /\ phase = "setup"
  /\ \E p \in Polynomials(master, t), x \in [1 .. n -> Zq] :
       /\ poly' = p
       /\ params' = [sharet |-> t, sharen |-> n, robustx |-> x]
       /\ mshare' = [i \in 1 .. n |-> [index |-> Int4(i - 1), y |-> Eval(p, x[i])]]
  /\ phase' = "split"
  /\ UNCHANGED <<master, kshare, key>>

\* FMT_save_params by gen, FMT_load_params by everyone else.
LoadParams ==
  /\ phase = "split"
  /\ params' = [sharet  |-> Int4(params.sharet),
                sharen  |-> Int4(params.sharen),
                robustx |-> SubSeq(params.robustx, 1, Int4(params.sharen))]
  /\ phase' = "loaded"
  /\ UNCHANGED <<master, poly, mshare, kshare, key>>

\* IBE_extract_share by PKG i for an identity; the user keeps the share.
ExtractShare(i, id) ==
  /\ phase = "loaded" /\ Len(kshare) < params.sharet
  /\ kshare' = Append(kshare, [from  |-> i, id |-> id,
                               index |-> Int4(mshare[i].index),
                               point |-> (mshare[i].y * PointOf(id)) % Q])
  /\ UNCHANGED <<master, poly, params, mshare, key, phase>>

Indices(s) == [i \in DOMAIN s |-> s[i].index]

\* IBE_combine returns 0: an index occurs twice; key is left unallocated.
CombineRefuses ==
  /\ phase = "loaded" /\ Len(kshare) = params.sharet
  /\ ~ IsInjective(Indices(kshare))
  /\ phase' = "refused"
  /\ UNCHANGED <<master, poly, params, mshare, kshare, key>>

\* IBE_combine.
Combine ==
  /\ phase = "loaded" /\ Len(kshare) = params.sharet
  /\ IsInjective(Indices(kshare))
  /\ key' \in Interpolations(Indices(kshare), [i \in DOMAIN kshare |-> kshare[i].point])
  /\ phase' = "combined"
  /\ UNCHANGED <<master, poly, params, mshare, kshare>>

\* IBE_construct_master on the share files of the PKGs in s: no index is
\* checked, a repeated one makes a denominator 0.
ConstructMaster(s) ==
  /\ phase = "loaded" /\ kshare = <<>>
  /\ key' \in Interpolations([i \in DOMAIN s |-> mshare[s[i]].index],
                           [i \in DOMAIN s |-> mshare[s[i]].y])
  /\ kshare' = [i \in DOMAIN s |-> [from |-> s[i], id |-> "none",
                                    index |-> mshare[s[i]].index, point |-> mshare[s[i]].y]]
  /\ phase' = "constructed"
  /\ UNCHANGED <<master, poly, params, mshare>>

Next ==
  \/ \E t \in Thresholds, n \in Sizes : SplitMaster(t, n)
  \/ LoadParams
  \/ \E i \in DOMAIN mshare, id \in Ids : ExtractShare(i, id)
  \/ CombineRefuses
  \/ Combine
  \/ \E s \in [1 .. params.sharet -> DOMAIN mshare] : ConstructMaster(s)

Spec == Init /\ [][Next]_vars
-----------------------------------------------------------------------------
\* The variables hold what their C counterparts can.
TypeOK ==
  /\ master \in Zq
  /\ poly \in Seq(Zq)
  /\ params.sharet \in Nat /\ params.sharen \in Nat /\ params.robustx \in Seq(Zq)
  /\ \A i \in DOMAIN mshare : mshare[i].index \in 0 .. IntBase - 1 /\ mshare[i].y \in Zq
  /\ \A i \in DOMAIN kshare : kshare[i].index \in 0 .. IntBase - 1 /\ kshare[i].point \in Zq
  /\ key \in Zq \cup {NoKey}
  /\ phase \in {"setup", "split", "loaded", "refused", "combined", "constructed"}

\* The PKGs whose shares were used are different, and so are their points.
DistinctPKGs   == \A i, j \in DOMAIN kshare : i # j => kshare[i].from # kshare[j].from
DistinctPoints ==
  \A i, j \in DOMAIN kshare :
    i # j => params.robustx[kshare[i].from] # params.robustx[kshare[j].from]

(***************************************************************************)
(* Any t of the n PKGs make the key that IBE_extract would have made from  *)
(* the master secret, whichever they are and in whatever order.  Needs the *)
(* points of the PKGs to differ: nothing checks that (ibe_lib.c:966).      *)
(***************************************************************************)
QuorumMakesKey ==
  \A id \in Ids :
    (/\ phase = "combined" /\ DistinctPoints
     /\ \A i \in DOMAIN kshare : kshare[i].id = id) => key = (master * PointOf(id)) % Q

\* The same for the master secret itself, which checks no index.
QuorumMakesMaster ==
  (phase = "constructed" /\ DistinctPKGs /\ DistinctPoints) => key = master

(***************************************************************************)
(* Where one of the shares is for another id, a key share of last year for *)
(* instance (format.c:37), what t PKGs make is not the key, unless the     *)
(* share is worth nothing: its y is 0, or its weight, a point being 0.     *)
(***************************************************************************)
Foreign(id) == {i \in DOMAIN kshare : kshare[i].id # id}

Counts(i, id) ==
  /\ PointOf(kshare[i].id) # PointOf(id) /\ mshare[kshare[i].from].y # 0
  /\ \A j \in DOMAIN kshare \ {i} : params.robustx[kshare[j].from] # 0

ForeignShareSpoils ==
  (phase = "combined" /\ DistinctPoints) =>
    \A id \in Ids : \A i \in DOMAIN kshare :
      (Foreign(id) = {i} /\ Counts(i, id)) => key # (master * PointOf(id)) % Q

(***************************************************************************)
(* IBE_combine refuses no t shares of t different PKGs.  It compares       *)
(* indices, so that this needs the numbers of the PKGs to survive          *)
(* byte_string_set_int.                                                    *)
(***************************************************************************)
QuorumServes == phase = "refused" => ~ DistinctPKGs

(***************************************************************************)
(* "t of them are required to generate a key" (ibe.h:62-65): the shares of *)
(* t - 1 PKGs could come from any master secret, unless a point is 0 or    *)
(* shared by two of them, so that they tell nothing about it.              *)
(***************************************************************************)
TellsNothing(S) ==
  \A m \in Zq : \E p \in Polynomials(m, params.sharet) :
    \A i \in S : Eval(p, params.robustx[i]) = mshare[i].y

FewerTellNothing ==
  phase = "split" =>
    \A S \in SUBSET DOMAIN mshare :
      (/\ Cardinality(S) = params.sharet - 1
       /\ \A i \in S : params.robustx[i] # 0
       /\ \A i, j \in S : i # j => params.robustx[i] # params.robustx[j]) => TellsNothing(S)
-----------------------------------------------------------------------------
(***************************************************************************)
(* The inductive invariant: what gen dealt and what became of it.          *)
(***************************************************************************)
Phases == {"setup", "split", "loaded", "refused", "combined", "constructed"}

Secret == master \in Masters /\ phase \in Phases

NothingYet ==
  phase = "setup" =>
    poly = <<>> /\ mshare = <<>> /\ params = [sharet |-> 0, sharen |-> 0, robustx |-> <<>>]

\* Everything that IBE_split_master leaves comes from one polynomial and one
\* choice of points; loading cuts the parameters to what the file holds.
DealtBy(t, n, x) ==
  /\ poly \in Polynomials(master, t)
  /\ mshare = [i \in 1 .. n |-> [index |-> Int4(i - 1), y |-> Eval(poly, x[i])]]
  /\ params = IF phase = "split" THEN [sharet |-> t, sharen |-> n, robustx |-> x]
              ELSE [sharet |-> Int4(t), sharen |-> Int4(n),
                    robustx |-> SubSeq(x, 1, Int4(n))]

Dealt ==
  phase # "setup" =>
    \E t \in Thresholds, n \in Sizes : \E x \in [1 .. n -> Zq] : DealtBy(t, n, x)

\* Every collected share is what its PKG makes of its own share.
Share == [from : Nat, id : Ids \cup {"none"}, index : Nat, point : Zq]

OwnShare(k) ==
  /\ k.from \in DOMAIN mshare
  /\ k.index = mshare[k.from].index
  /\ IF phase = "constructed" THEN k.point = mshare[k.from].y
     ELSE k.id \in Ids /\ k.point = (mshare[k.from].y * PointOf(k.id)) % Q

Collected ==
  /\ kshare \in Seq(Share)
  /\ phase \in {"setup", "split"} => kshare = <<>>
  /\ phase \in {"refused", "combined", "constructed"} => Len(kshare) = params.sharet
  /\ \A i \in 1 .. Len(kshare) : OwnShare(kshare[i])

\* What came of them.
Pointed(s) == [i \in DOMAIN s |-> s[i].point]

RefusedRightly == phase = "refused" => ~ IsInjective(Indices(kshare))

KeyMade ==
  IF phase \in {"combined", "constructed"}
  THEN key \in Interpolations(Indices(kshare), Pointed(kshare))
  ELSE key = NoKey

KeysInv == Secret /\ NothingYet /\ Dealt /\ Collected /\ RefusedRightly /\ KeyMade
=============================================================================
