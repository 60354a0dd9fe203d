-------------------------- MODULE MCDecryptContext --------------------------
(***************************************************************************)
(* Every file of up to 9 bytes over two byte values, an IV of 2 bytes and  *)
(* a MAC of 3: files that end inside the IV, inside the MAC, exactly after *)
(* it and some bytes later, with a right or a wrong MAC.                   *)
(***************************************************************************)
EXTENDS DecryptContext

MCByte  == {0, 1}
MCFiles == UNION {[1 .. n -> MCByte] : n \in 0 .. 9}
MCKey   == <<1, 0, 1, 1>>

\* Any function of the bytes will do: no property here needs a strong MAC.
MCMacOf(s) ==
  [i \in 1 .. MdLen |-> IF s = <<>> THEN 0 ELSE (Len(s) + i * s[1] + s[Len(s)]) % 2]
=============================================================================
