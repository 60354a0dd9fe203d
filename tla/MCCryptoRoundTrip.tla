------------------------- MODULE MCCryptoRoundTrip -------------------------
(***************************************************************************)
(* Every text of up to 4 bytes over two byte values, blocks of 2 bytes, an *)
(* IV of 2 bytes and a MAC of 3: texts that are and are not a multiple of  *)
(* the block, cut in every way before and after.                           *)
(***************************************************************************)
EXTENDS CryptoRoundTrip

MCByte  == {0, 1}
MCTexts == UNION {[1 .. n -> MCByte] : n \in 0 .. 4}
MCIvs   == {<<0, 1>>, <<1, 1>>}
MCKey   == <<1, 0, 1, 1>>

\* Any functions with the right lengths will do.
MCMacOf(s) ==
  [i \in 1 .. MdLen |-> IF s = <<>> THEN 0 ELSE (Len(s) + i * s[1] + s[Len(s)]) % 2]

MCCipherOf(salt, t) ==
  [i \in 1 .. Padded(Len(t)) |->
     IF i <= Len(t) THEN (t[i] + i + salt[1]) % 2 ELSE Len(t) % 2]
=============================================================================
