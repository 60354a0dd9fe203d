-------------------------- MODULE MCIbeOperations --------------------------
(***************************************************************************)
(* Small Solinas primes with all signs: 5 = 4 + 1, 7 = 8 - 1,              *)
(* 11 = 16 - 4 - 1, 13 = 16 - 4 + 1, 19 = 16 + 4 - 1, 37 = 32 + 4 + 1; the *)
(* last one has numbers of more than one window.                           *)
(***************************************************************************)
EXTENDS IbeOperations

MCSystems ==
  {[p |-> 59, q |-> 5], [p |-> 83, q |-> 7], [p |-> 131, q |-> 11], [p |-> 311, q |-> 13],
   [p |-> 227, q |-> 19], [p |-> 443, q |-> 37]}

\* Two points of high order, and one of order 3 that the cofactor makes O.
MCRandomY(p_) == {1, 2, 3}

\* All numbers below the smaller primes.
MCScalars(q_) == IF q_ < 20 THEN 0 .. q_ - 1 ELSE {0, 1, 2, q_ \div 2, q_ - 3, q_ - 2, q_ - 1}

\* Every 3-out-of-3 sharing over Z_7 with these points, 2-out-of-3 over Z_5,
\* and some 3-out-of-4 over Z_37, so that partial sums of shares may be O.
MCSharings(q_) ==
  CASE q_ = 5  -> [poly : [1 .. 1 -> 0 .. 4], x : {<<1, 2, 3>>}]
    [] q_ = 7  -> [poly : [1 .. 2 -> 0 .. 6], x : {<<1, 2, 5>>}]
    [] q_ = 37 -> [poly : {<<5, 11>>, <<36, 1>>}, x : {<<2, 9, 30, 35>>}]
    [] OTHER   -> {}
=============================================================================
