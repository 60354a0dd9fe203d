---------------------------- MODULE SealedStream ----------------------------
(***************************************************************************)
(* What the decryption side of crypto.c promises to its callers, without   *)
(* saying how: the ciphertext  IV . body . MAC  may arrive in pieces of    *)
(* any size; at every moment the body received so far, all but what may    *)
(* still turn out to be the MAC, has been handed to the cipher once and in *)
(* order; and the verdict depends on the bytes read, never on how they     *)
(* were cut into pieces.  DecryptContext states what is assumed of the     *)
(* constants and implements this module.                                   *)
(***************************************************************************)
EXTENDS ByteSpans

CONSTANTS
  Byte,      \* the byte values
  IvLen,     \* iv_length of crypto.c
  MdLen,     \* md_length of crypto.c
  MacOf(_),  \* the HMAC of a byte sequence under the key of this context
  Files      \* the ciphertexts that may be presented

VARIABLES
  file,     \* the ciphertext being read
  fed,      \* how many of its bytes have been read
  plain,    \* the ciphertext bytes handed to the block cipher, in order
  verdict   \* the outcome

vars == <<file, fed, plain, verdict>>

\* How much of the body is known not to be MAC after f bytes.
Due(f) == IF f <= IvLen + MdLen THEN 0 ELSE f - IvLen - MdLen

\* The byte sequence carries the MAC of everything before the MAC.
Sealed(s) ==
  /\ IvLen + MdLen <= Len(s)
  /\ Span(s, Len(s) - MdLen, MdLen) = MacOf(Span(s, 0, Len(s) - MdLen))

Init ==
  /\ file \in Files
  /\ fed = 0
  /\ plain = <<>>
  /\ verdict = "open"

Feed(n) ==
  /\ verdict = "open"
  /\ fed' = fed + n
  /\ plain' = Span(file, IvLen, Due(fed + n))
  /\ UNCHANGED <<file, verdict>>

Judge ==
  /\ verdict = "open"
  /\ verdict' = IF Sealed(Span(file, 0, fed)) THEN "accepted" ELSE "rejected"
  /\ UNCHANGED <<file, fed, plain>>

\* The block cipher may give up; what it was given by then is still a prefix.
Abort(n) ==
  /\ verdict = "open"
  /\ verdict' = "failed"
  /\ fed' = fed + n
  /\ \E k \in Len(plain) .. Due(fed + n) : plain' = Span(file, IvLen, k)
  /\ UNCHANGED file

Next ==
  \/ \E n \in 0 .. Len(file) - fed : Feed(n) \/ Abort(n)
  \/ Judge

Spec == Init /\ [][Next]_vars
=============================================================================
