--------------------------- MODULE EncryptContext ---------------------------
(***************************************************************************)
(* The encryption context of crypto.c: crypto_ctx_init,                    *)
(* crypto_encrypt_init, crypto_encrypt_update, crypto_encrypt_final and    *)
(* crypto_ctx_clear, as crypto_encrypt and FMT_encrypt_stream_array call   *)
(* them: update at least once, the whole text in pieces of any size, and   *)
(* after a failure nothing but crypto_ctx_clear (that is crypto_encrypt;   *)
(* FMT_encrypt_stream_array does not look at the results).                 *)
(*                                                                         *)
(* OpenSSL is external.  EVP passes on every full block it has got and     *)
(* keeps the rest; EVP_EncryptFinal pads, by a whole block if there is no  *)
(* rest.  CipherOf is the ciphertext of a text, with its padding, under    *)
(* ckey and the IV.                                                        *)
(***************************************************************************)
EXTENDS ByteSpans, Integers

CONSTANTS
  Byte, IvLen, MdLen,  \* as in SealedStream
  Block,               \* EVP_CIPHER_block_size
  MacOf(_),            \* the HMAC under hkey
  CipherOf(_, _),      \* the ciphertext for an IV and a text
  Ivs,                 \* what RAND_bytes may draw
  Texts                \* the texts that may be encrypted

Whole(n)  == n - (n % Block)   \* bytes EVP has passed on after n bytes
Padded(n) == Whole(n) + Block

ASSUME BlockAssumption  == Block \in Nat \ {0}
ASSUME LengthAssumption == IvLen \in Nat /\ MdLen \in Nat
ASSUME IvsAssumption    == \A iv \in Ivs : iv \in Seq(Byte) /\ Len(iv) = IvLen
ASSUME CipherAssumption ==
  \A iv \in Ivs, t \in Texts :
    CipherOf(iv, t) \in Seq(Byte) /\ Len(CipherOf(iv, t)) = Padded(Len(t))
ASSUME MacAssumption ==
  \A iv \in Ivs, t \in Texts :
    LET mac == MacOf(iv \o CipherOf(iv, t)) IN mac \in Seq(Byte) /\ Len(mac) = MdLen
ASSUME TextsAssumption == \A t \in Texts : t \in Seq(Byte)

VARIABLES
  text,     \* what is to be encrypted
  taken,    \* bytes of it passed to crypto_encrypt_update
  estate,   \* c->state: 0 until the IV has been written
  eivbuf,   \* c->ivbuf
  iv,       \* the IV given to EVP_EncryptInit
  emacin,   \* bytes given to HMAC_Update
  out,      \* what the calls have written so far
  outl,     \* how much the last call wrote
  ephase    \* "fresh", "open", "sealed", "failed", then "cleared"

evars == <<text, taken, estate, eivbuf, iv, emacin, out, outl, ephase>>

EncInit ==
  /\ text \in Texts
  /\ taken = 0 /\ estate = 0
  /\ eivbuf = <<>> /\ iv = <<>>
  /\ emacin = <<>> /\ out = <<>> /\ outl = 0
  /\ ephase = "fresh"

\* crypto_encrypt_init.
EncryptInit ==
  /\ ephase = "fresh"
  /\ \E salt \in Ivs : eivbuf' = salt
  /\ iv' = eivbuf'
  /\ estate' = 0
  /\ ephase' = "open"
  /\ UNCHANGED <<text, taken, emacin, out, outl>>

\* crypto_generate_salt fails, or EVP_EncryptInit does.
EncryptInitFails ==
  /\ ephase = "fresh"
  /\ eivbuf' \in Ivs \cup {<<>>}
  /\ ephase' = "failed"
  /\ UNCHANGED <<text, taken, estate, iv, emacin, out, outl>>

\* What EVP_EncryptUpdate makes of the next n bytes.
Enciphered(n) == Span(CipherOf(iv, text), Whole(taken), Whole(taken + n) - Whole(taken))

Emit(bytes) == out' = out \o bytes /\ outl' = Len(bytes)

\* A wrong variant of the next action: the IV is written every time.
EncryptUpdateIvAgain(n) ==
  /\ ephase = "open"
  /\ taken' = taken + n
  /\ Emit(iv \o Enciphered(n))
  /\ emacin' = emacin \o iv \o Enciphered(n)
  /\ estate' = estate + 1
  /\ eivbuf' = <<>>
  /\ UNCHANGED <<text, iv, ephase>>

\* crypto_encrypt_update: the first call writes the IV first.
EncryptUpdate(n) ==
  LET prefix == IF estate = 0 THEN eivbuf ELSE <<>>
  IN /\ ephase = "open"
     /\ taken' = taken + n
     /\ Emit(prefix \o Enciphered(n))
     /\ emacin' = emacin \o prefix \o Enciphered(n)
     /\ estate' = 1
     /\ eivbuf' = <<>>
     /\ UNCHANGED <<text, iv, ephase>>

\* EVP_EncryptUpdate fails; the IV is in the buffer by then.
EncryptUpdateFails(n) ==
  /\ ephase = "open"
  /\ taken' = taken + n
  /\ estate' = 1
  /\ eivbuf' = <<>>
  /\ ephase' = "failed"
  /\ UNCHANGED <<text, iv, emacin, out, outl>>

\* A wrong variant of the next action: the last block comes after the MAC is
\* computed.
EncryptFinalEarlyMac ==
  LET last == Span(CipherOf(iv, text), Whole(taken), Block)
  IN /\ ephase = "open" /\ estate = 1 /\ taken = Len(text)
     /\ emacin' = emacin \o last
     /\ Emit(last \o MacOf(emacin))
     /\ ephase' = "sealed"
     /\ UNCHANGED <<text, taken, estate, eivbuf, iv>>

\* crypto_encrypt_final: the last block, then the MAC of everything.
EncryptFinal ==
  LET last == Span(CipherOf(iv, text), Whole(taken), Block)
  IN /\ ephase = "open" /\ estate = 1 /\ taken = Len(text)
     /\ emacin' = emacin \o last
     /\ Emit(last \o MacOf(emacin'))
     /\ ephase' = "sealed"
     /\ UNCHANGED <<text, taken, estate, eivbuf, iv>>

\* EVP_EncryptFinal fails.
EncryptFinalFails ==
  /\ ephase = "open" /\ estate = 1 /\ taken = Len(text)
  /\ ephase' = "failed"
  /\ UNCHANGED <<text, taken, estate, eivbuf, iv, emacin, out, outl>>

\* crypto_ctx_clear; crypto_encrypt also clears ctext if a call failed.
EncryptClear ==
  /\ ephase \in {"sealed", "failed"}
  /\ ephase' = "cleared"
  /\ eivbuf' = <<>>
  /\ out' = IF ephase = "failed" THEN <<>> ELSE out
  /\ UNCHANGED <<text, taken, estate, iv, emacin, outl>>

EncNext ==
  \/ EncryptInit \/ EncryptInitFails
  \/ \E n \in 0 .. Len(text) - taken : EncryptUpdate(n) \/ EncryptUpdateFails(n)
  \/ EncryptFinal \/ EncryptFinalFails
  \/ EncryptClear

EncSpec == EncInit /\ [][EncNext]_evars
-----------------------------------------------------------------------------
\* The context's variables have the types of struct crypto_ctx_s.
EncTypeOK ==
  /\ text \in Texts
  /\ taken \in 0 .. Len(text)
  /\ estate \in {0, 1}
  /\ eivbuf \in Ivs \cup {<<>>} /\ iv \in Ivs \cup {<<>>}
  /\ emacin \in Seq(Byte) /\ out \in Seq(Byte)
  /\ outl \in 0 .. Len(text) + Block + IvLen + MdLen
  /\ ephase \in {"fresh", "open", "sealed", "failed", "cleared"}

(***************************************************************************)
(* crypto_encrypt allocates Len(text) + crypto_block_size() bytes and lets *)
(* every call write into them: they are enough, however the text is cut.   *)
(***************************************************************************)
OutFits == Len(out) <= Len(text) + Block + IvLen + MdLen

(***************************************************************************)
(* Whatever the pieces were, a sealed stream is the IV, the ciphertext of  *)
(* the whole text and the MAC of the two.                                  *)
(***************************************************************************)
SealsExactly ==
  ephase = "sealed" =>
    out = iv \o CipherOf(iv, text) \o MacOf(iv \o CipherOf(iv, text))

(***************************************************************************)
(* What the properties above follow from: an open context has written, and *)
(* its HMAC has got, the IV and the ciphertext of whole blocks.            *)
(***************************************************************************)
WrittenSoFar ==
  /\ ephase = "fresh" =>
       taken = 0 /\ estate = 0 /\ eivbuf = <<>> /\ out = <<>> /\ emacin = <<>>
  /\ ephase = "open" =>
       /\ iv \in Ivs
       /\ estate = 0 => taken = 0 /\ eivbuf = iv /\ out = <<>>
       /\ estate = 1 => eivbuf = <<>> /\ out = iv \o Span(CipherOf(iv, text), 0, Whole(taken))
       /\ emacin = out

EncIInv == EncTypeOK /\ WrittenSoFar /\ OutFits /\ SealsExactly
=============================================================================
