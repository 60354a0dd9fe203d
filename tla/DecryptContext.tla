--------------------------- MODULE DecryptContext ---------------------------
(***************************************************************************)
(* The decryption context of crypto.c (struct crypto_ctx_s, crypto.h:18):  *)
(* crypto_ctx_init, crypto_decrypt_init, crypto_decrypt_update,            *)
(* crypto_decrypt_final and crypto_ctx_clear, one action per return path.  *)
(*                                                                         *)
(* A byte_string is the sequence of its bytes; the empty sequence is a     *)
(* byte_string that is not allocated (len = 0).  OpenSSL is external: the  *)
(* HMAC context is the sequence of bytes it was given, the cipher context  *)
(* the key and IV it was set up with and the bytes it was given.  Any EVP  *)
(* call may fail; a caller that checks the results, as crypto_decrypt      *)
(* does, then goes straight to crypto_ctx_clear.                           *)
(***************************************************************************)
EXTENDS ByteSpans, Integers

CONSTANTS
  Byte, IvLen, MdLen, MacOf(_), Files,   \* as in SealedStream
  Key,                                   \* ckey, EVP_MAX_KEY_LENGTH bytes
  Junk                                   \* what realloc and malloc leave

ASSUME IvLenAssumption == IvLen \in Nat \ {0}
\* Holds for DES-EDE3-CBC (8) and SHA-1 (20).
ASSUME MdLenAssumption == MdLen \in Nat /\ IvLen <= MdLen
ASSUME FilesAssumption == Files \subseteq Seq(Byte)
ASSUME KeyAssumption   == Key \in Seq(Byte) /\ Key # <<>>

VARIABLES
  file,      \* the ciphertext the caller reads from
  fed,       \* bytes passed to crypto_decrypt_update so far
  state,     \* c->state: 0 while the IV is being collected
  count,     \* c->count
  ivbuf,     \* c->ivbuf
  auxbuf,    \* c->auxbuf: the key at first, then the last bytes received
  cipher,    \* c->ctx: the key and IV given to EVP_DecryptInit
  cipherin,  \* bytes given to EVP_DecryptUpdate
  macin,     \* bytes given to HMAC_Update
  phase,     \* where the caller is: "fresh", "open", "done", "cleared"
  verdict    \* "open" until a call decides or fails

vars == <<file, fed, state, count, ivbuf, auxbuf, cipher, cipherin, macin,
          phase, verdict>>

NoCipher == [key |-> <<>>, iv |-> <<>>]

\* malloc(n) and realloc(buf, n).
Fresh(n)     == [k \in 1 .. n |-> Junk]
Resize(b, n) == [k \in 1 .. n |-> IF k <= Len(b) THEN b[k] ELSE Junk]

(***************************************************************************)
(* crypto_decrypt_update, second half: a is auxbuf, its first c bytes are  *)
(* the last ones received, v is what is new.  All but MdLen bytes of the   *)
(* two are passed on, in at most two calls of crypto_decrypt_advance.      *)
(***************************************************************************)
FlushCount(c, v) == c + Len(v) - MdLen
FullFlush(c, v)  == c <= FlushCount(c, v)

FromAux(a, c, v) ==
  Span(a, 0, IF FlushCount(c, v) <= 0 THEN 0
             ELSE IF FullFlush(c, v) THEN c ELSE FlushCount(c, v))

FromIn(c, v) ==
  Span(v, 0, IF 0 < FlushCount(c, v) /\ FullFlush(c, v)
             THEN FlushCount(c, v) - c ELSE 0)

\* A wrong variant of the next operator: the part of auxbuf that was not
\* flushed is left where it is.
RetainedUnmoved(a, c, v) ==
  LET f == FlushCount(c, v)
  IN IF f <= 0 THEN Patch(a, c, v)
     ELSE IF FullFlush(c, v) THEN Patch(a, 0, Span(v, f - c, MdLen))
     ELSE Patch(a, c - f, v)

Retained(a, c, v) ==
  LET f == FlushCount(c, v)
  IN IF f <= 0 THEN Patch(a, c, v)
     ELSE IF FullFlush(c, v) THEN Patch(a, 0, Span(v, f - c, MdLen))
     ELSE Patch(Patch(a, 0, Span(a, f, c - f)), c - f, v)

RetainedCount(c, v) ==
  LET f == FlushCount(c, v)
  IN IF f <= 0 THEN c + Len(v)
     ELSE IF FullFlush(c, v) THEN MdLen
     ELSE (c - f) + Len(v)
-----------------------------------------------------------------------------
Init ==
  /\ file \in Files
  /\ fed = 0
  /\ state = 0
  /\ count = 0
  /\ ivbuf = <<>>
  /\ auxbuf = <<>>
  /\ cipher = NoCipher
  /\ cipherin = <<>>
  /\ macin = <<>>
  /\ phase = "fresh"
  /\ verdict = "open"

\* crypto_decrypt_init: auxbuf holds the key for now.
DecryptInit ==
  /\ phase = "fresh"
  /\ phase' = "open"
  /\ auxbuf' = Key
  /\ ivbuf' = Fresh(IvLen)
  /\ state' = 0
  /\ count' = 0
  /\ UNCHANGED <<file, fed, cipher, cipherin, macin, verdict>>

\* A wrong variant of the next action: the IV counts as incomplete one byte
\* too long.
CollectIvTooLong(n) ==
  /\ phase = "open" /\ state = 0 /\ count + n <= IvLen
  /\ fed' = fed + n
  /\ ivbuf' = Patch(ivbuf, count, Span(file, fed, n))
  /\ count' = count + n
  /\ UNCHANGED <<file, state, auxbuf, cipher, cipherin, macin, phase, verdict>>

\* crypto_decrypt_update that leaves the IV incomplete.
CollectIv(n) ==
  /\ phase = "open" /\ state = 0 /\ count + n < IvLen
  /\ fed' = fed + n
  /\ ivbuf' = Patch(ivbuf, count, Span(file, fed, n))
  /\ count' = count + n
  /\ UNCHANGED <<file, state, auxbuf, cipher, cipherin, macin, phase, verdict>>

\* crypto_decrypt_update whose first l bytes complete the IV: the cipher is
\* set up, auxbuf changes its role and the rest of the chunk goes through it.
CompleteIv(n) ==
  LET l  == IvLen - count
      iv == Patch(ivbuf, count, Span(file, fed, l))
      a  == Resize(auxbuf, MdLen)
      v  == Span(file, fed + l, n - l)
  IN /\ phase = "open" /\ state = 0 /\ IvLen <= count + n
     /\ fed' = fed + n
     /\ state' = 1
     /\ cipher' = [key |-> auxbuf, iv |-> iv]
     /\ ivbuf' = <<>>
     /\ macin' = macin \o iv \o FromAux(a, 0, v) \o FromIn(0, v)
     /\ cipherin' = cipherin \o FromAux(a, 0, v) \o FromIn(0, v)
     /\ auxbuf' = Retained(a, 0, v)
     /\ count' = RetainedCount(0, v)
     /\ UNCHANGED <<file, phase, verdict>>

\* A wrong variant: what auxbuf flushes is deciphered and not authenticated.
AbsorbUnmacced(n) ==
  LET v == Span(file, fed, n)
  IN /\ phase = "open" /\ state = 1
     /\ fed' = fed + n
     /\ macin' = macin \o FromIn(count, v)
     /\ cipherin' = cipherin \o FromAux(auxbuf, count, v) \o FromIn(count, v)
     /\ auxbuf' = Retained(auxbuf, count, v)
     /\ count' = RetainedCount(count, v)
     /\ UNCHANGED <<file, state, ivbuf, cipher, phase, verdict>>

\* crypto_decrypt_update once the cipher is set up.
Absorb(n) ==
  LET v == Span(file, fed, n)
  IN /\ phase = "open" /\ state = 1
     /\ fed' = fed + n
     /\ macin' = macin \o FromAux(auxbuf, count, v) \o FromIn(count, v)
     /\ cipherin' = cipherin \o FromAux(auxbuf, count, v) \o FromIn(count, v)
     /\ auxbuf' = Retained(auxbuf, count, v)
     /\ count' = RetainedCount(count, v)
     /\ UNCHANGED <<file, state, ivbuf, cipher, phase, verdict>>

\* EVP_DecryptInit fails: the state has moved on, the buffers have not.
CipherInitFails(n) ==
  /\ phase = "open" /\ state = 0 /\ IvLen <= count + n
  /\ fed' = fed + n
  /\ state' = 1
  /\ ivbuf' = Patch(ivbuf, count, Span(file, fed, IvLen - count))
  /\ count' = IvLen
  /\ phase' = "done" /\ verdict' = "failed"
  /\ UNCHANGED <<file, auxbuf, cipher, cipherin, macin>>

\* EVP_DecryptUpdate fails in the chunk that completed the IV.
CompleteIvFails(n) ==
  LET l  == IvLen - count
      iv == Patch(ivbuf, count, Span(file, fed, l))
      v  == Span(file, fed + l, n - l)
  IN /\ phase = "open" /\ state = 0 /\ IvLen <= count + n
     /\ FromIn(0, v) # <<>>
     /\ fed' = fed + n
     /\ state' = 1
     /\ cipher' = [key |-> auxbuf, iv |-> iv]
     /\ ivbuf' = <<>>
     /\ macin' = macin \o iv \o FromIn(0, v)
     /\ auxbuf' = Resize(auxbuf, MdLen)
     /\ count' = 0
     /\ phase' = "done" /\ verdict' = "failed"
     /\ UNCHANGED <<file, cipherin>>

\* EVP_DecryptUpdate fails in a later chunk, in the first or in the second
\* call of crypto_decrypt_advance; the HMAC has seen the bytes already.
AbsorbFails(n) ==
  LET v == Span(file, fed, n)
  IN /\ phase = "open" /\ state = 1
     /\ fed' = fed + n
     /\ \/ /\ FromAux(auxbuf, count, v) # <<>>
           /\ macin' = macin \o FromAux(auxbuf, count, v)
           /\ UNCHANGED cipherin
        \/ /\ FromIn(count, v) # <<>>
           /\ macin' = macin \o FromAux(auxbuf, count, v) \o FromIn(count, v)
           /\ cipherin' = cipherin \o FromAux(auxbuf, count, v)
     /\ phase' = "done" /\ verdict' = "failed"
     /\ UNCHANGED <<file, state, count, ivbuf, auxbuf, cipher>>

\* crypto_decrypt_final: too short to contain a MAC.
FinalTooShort ==
  /\ phase = "open" /\ count # MdLen
  /\ phase' = "done" /\ verdict' = "rejected"
  /\ UNCHANGED <<file, fed, state, count, ivbuf, auxbuf, cipher, cipherin, macin>>

\* crypto_decrypt_final: byte_string_cmp(mac, c->auxbuf) finds a difference.
FinalMismatch ==
  /\ phase = "open" /\ count = MdLen
  /\ MacOf(macin) # auxbuf
  /\ phase' = "done" /\ verdict' = "rejected"
  /\ UNCHANGED <<file, fed, state, count, ivbuf, auxbuf, cipher, cipherin, macin>>

\* A wrong variant: a context that is not full may match.
FinalMatchShort ==
  /\ phase = "open"
  /\ MacOf(macin) = auxbuf
  /\ auxbuf' = <<>>
  /\ phase' = "done" /\ verdict' \in {"accepted", "failed"}
  /\ UNCHANGED <<file, fed, state, count, ivbuf, cipher, cipherin, macin>>

\* crypto_decrypt_final: the MAC is right; EVP_DecryptFinal, which checks the
\* padding, may still fail.
FinalMatch ==
  /\ phase = "open" /\ count = MdLen
  /\ MacOf(macin) = auxbuf
  /\ auxbuf' = <<>>
  /\ phase' = "done" /\ verdict' \in {"accepted", "failed"}
  /\ UNCHANGED <<file, fed, state, count, ivbuf, cipher, cipherin, macin>>

\* crypto_ctx_clear, on every path of crypto_decrypt.
CtxClear ==
  /\ phase = "done"
  /\ phase' = "cleared"
  /\ auxbuf' = <<>>
  /\ ivbuf' = <<>>
  /\ UNCHANGED <<file, fed, state, count, cipher, cipherin, macin, verdict>>

Update ==
  \E n \in 0 .. Len(file) - fed :
    \/ CollectIv(n) \/ CompleteIv(n) \/ Absorb(n)
    \/ CipherInitFails(n) \/ CompleteIvFails(n) \/ AbsorbFails(n)

Final == FinalTooShort \/ FinalMismatch \/ FinalMatch

Next == DecryptInit \/ Update \/ Final \/ CtxClear

Spec == Init /\ [][Next]_vars
-----------------------------------------------------------------------------
\* The context's variables have the types of struct crypto_ctx_s.
TypeOK ==
  /\ file \in Files
  /\ fed \in 0 .. Len(file)
  /\ state \in {0, 1}
  /\ count \in Nat
  /\ ivbuf \in Seq(Byte \cup {Junk})
  /\ auxbuf \in Seq(Byte \cup {Junk})
  /\ cipherin \in Seq(Byte)
  /\ macin \in Seq(Byte)
  /\ phase \in {"fresh", "open", "done", "cleared"}
  /\ verdict \in {"open", "accepted", "rejected", "failed"}

\* The IV as the file has it.
FileIv == Span(file, 0, IvLen)

(***************************************************************************)
(* No memcpy of crypto_decrypt_update runs past the buffer it writes to:   *)
(* while a context is open the buffers have the size they were allocated   *)
(* with, and count stays inside the one it indexes.                        *)
(***************************************************************************)
BuffersFit ==
  phase = "open" =>
    \/ state = 0 /\ Len(ivbuf) = IvLen /\ auxbuf = Key /\ count < IvLen
    \/ state = 1 /\ Len(auxbuf) = MdLen /\ ivbuf = <<>> /\ count <= MdLen

(***************************************************************************)
(* auxbuf is the window of the last bytes received: whatever sizes the     *)
(* chunks had, its first count bytes are those of the file that follow     *)
(* the ones already passed on.                                             *)
(***************************************************************************)
AuxIsWindow ==
  (phase = "open" /\ state = 1) =>
    /\ Span(auxbuf, 0, count) = Span(file, fed - count, count)
    /\ Len(macin) + count = fed

(***************************************************************************)
(* The cipher is keyed with the key, never with what auxbuf holds later,   *)
(* and with the IV of the file, even when the IV came in pieces.           *)
(***************************************************************************)
CipherSetUp ==
  cipher = NoCipher \/ cipher = [key |-> Key, iv |-> FileIv]

(***************************************************************************)
(* No byte reaches the block cipher that the HMAC has not seen before it,  *)
(* in the same order, after the IV.                                        *)
(***************************************************************************)
MacBeforeCipher ==
  \/ macin = <<>> /\ cipherin = <<>>
  \/ /\ IvLen + Len(cipherin) <= Len(macin)
     /\ Span(macin, 0, IvLen + Len(cipherin)) = FileIv \o cipherin

(***************************************************************************)
(* The verdict is about the bytes read and nothing else: accepted only     *)
(* what carries its MAC, rejected only what does not.                      *)
(***************************************************************************)
S == INSTANCE SealedStream WITH plain <- cipherin

VerdictIsSound ==
  /\ verdict = "accepted" => S!Sealed(Span(file, 0, fed))
  /\ verdict = "rejected" => ~ S!Sealed(Span(file, 0, fed))

\* The context implements the abstract stream.
Refines == S!Spec
-----------------------------------------------------------------------------
(***************************************************************************)
(* The inductive invariant behind the properties above: for each phase of  *)
(* a context, how far the file has been read and where its bytes are.      *)
(***************************************************************************)
InvFresh ==
  phase = "fresh" =>
    /\ fed = 0 /\ state = 0 /\ count = 0
    /\ cipher = NoCipher /\ macin = <<>> /\ cipherin = <<>>
    /\ verdict = "open"

InvIv ==
  (phase = "open" /\ state = 0) =>
    /\ fed = count /\ count < IvLen
    /\ auxbuf = Key
    /\ Len(ivbuf) = IvLen /\ Span(ivbuf, 0, count) = Span(file, 0, count)
    /\ cipher = NoCipher /\ macin = <<>> /\ cipherin = <<>>
    /\ verdict = "open"

InvBody ==
  (phase = "open" /\ state = 1) =>
    /\ IvLen <= fed
    /\ count = IF fed - IvLen <= MdLen THEN fed - IvLen ELSE MdLen
    /\ ivbuf = <<>>
    /\ Len(auxbuf) = MdLen
    /\ Span(auxbuf, 0, count) = Span(file, fed - count, count)
    /\ cipher = [key |-> Key, iv |-> FileIv]
    /\ macin = Span(file, 0, fed - count)
    /\ cipherin = Span(file, IvLen, fed - count - IvLen)
    /\ verdict = "open"

\* After a failure the HMAC may be ahead of the cipher, never behind.
InvDone ==
  phase \in {"done", "cleared"} =>
    /\ CipherSetUp
    /\ Len(macin) <= fed /\ macin = Span(file, 0, Len(macin))
    /\ \/ cipherin = <<>>
       \/ /\ IvLen + Len(cipherin) <= Len(macin)
          /\ cipherin = Span(file, IvLen, Len(cipherin))
    /\ macin = <<>> \/ IvLen <= Len(macin)
    /\ verdict # "open"
    /\ VerdictIsSound

IInv == TypeOK /\ InvFresh /\ InvIv /\ InvBody /\ InvDone

(***************************************************************************)
(* The block cipher has got exactly the bytes that cannot be MAC any more; *)
(* after a failure it may have got fewer, never others.  What is accepted  *)
(* has been deciphered with the IV of the file.                            *)
(***************************************************************************)
DueDeciphered ==
  /\ \E k \in 0 .. S!Due(fed) : cipherin = Span(file, IvLen, k)
  /\ verdict # "failed" => cipherin = Span(file, IvLen, S!Due(fed))
  /\ verdict = "accepted" => cipher = [key |-> Key, iv |-> FileIv]
=============================================================================
