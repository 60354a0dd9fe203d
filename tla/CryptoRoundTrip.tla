-------------------------- MODULE CryptoRoundTrip --------------------------
(***************************************************************************)
(* The two contexts of crypto.c end to end: what the encryption context    *)
(* wrote is read by a decryption context with the same key, in pieces that *)
(* have nothing to do with those it was written in.  crypto_decrypt of     *)
(* crypto_encrypt, and FMT_decrypt_stream of FMT_encrypt_stream through    *)
(* base64 lines.                                                           *)
(***************************************************************************)
EXTENDS EncryptContext

CONSTANTS Key, Junk   \* as in DecryptContext

\* What DecryptContext assumes of the lengths and of the key.
ASSUME HeaderAssumption  == IvLen # 0 /\ IvLen <= MdLen
ASSUME SameKeyAssumption == Key \in Seq(Byte) /\ Key # <<>>

VARIABLES file, fed, state, count, ivbuf, auxbuf, cipher, cipherin, macin, phase, verdict

dvars == <<file, fed, state, count, ivbuf, auxbuf, cipher, cipherin, macin, phase, verdict>>

\* The files are whatever the encryption context writes.
Dec == INSTANCE DecryptContext WITH Files <- Seq(Byte)

NoFile == <<>>

Init ==
  /\ EncInit
  /\ file = NoFile /\ fed = 0 /\ state = 0 /\ count = 0
  /\ ivbuf = <<>> /\ auxbuf = <<>> /\ cipher = Dec!NoCipher
  /\ cipherin = <<>> /\ macin = <<>>
  /\ phase = "waiting" /\ verdict = "open"

\* The stream is complete and the recipient opens it.
HandOver ==
  /\ ephase = "sealed" /\ phase = "waiting"
  /\ file' = out
  /\ phase' = "fresh"
  /\ UNCHANGED <<fed, state, count, ivbuf, auxbuf, cipher, cipherin, macin, verdict, evars>>

Next ==
  \/ EncNext /\ UNCHANGED dvars
  \/ HandOver
  \/ Dec!Next /\ UNCHANGED evars

Spec == Init /\ [][Next]_<<evars, dvars>>
-----------------------------------------------------------------------------
(***************************************************************************)
(* Decryption undoes encryption: a stream read to its end is accepted      *)
(* unless OpenSSL fails, and the cipher has got the IV and exactly the     *)
(* ciphertext that encryption produced: no byte of the MAC, no byte less.  *)
(***************************************************************************)
RoundTrip ==
  (verdict # "open" /\ fed = Len(file)) =>
    /\ verdict # "rejected"
    /\ verdict = "accepted" =>
         cipherin = CipherOf(iv, text) /\ cipher = [key |-> Key, iv |-> iv]

(***************************************************************************)
(* A recipient that reads ahead of the end has given its cipher nothing    *)
(* but a prefix of the ciphertext, whatever happened.                      *)
(***************************************************************************)
NothingElseDeciphered ==
  phase # "waiting" => cipherin = Span(CipherOf(iv, text), 0, Len(cipherin))
-----------------------------------------------------------------------------
(***************************************************************************)
(* Why the two hold.  Nothing moves on the recipient's side before there   *)
(* is a file, the file is the stream of the sealed text and stays so when  *)
(* its author clears the context, and DecryptContext does the rest: what   *)
(* it says of every file is said of this one.                              *)
(***************************************************************************)
Stream == iv \o CipherOf(iv, text) \o MacOf(iv \o CipherOf(iv, text))

Waits ==
  phase = "waiting" =>
    /\ file = NoFile /\ fed = 0 /\ state = 0 /\ count = 0
    /\ ivbuf = <<>> /\ auxbuf = <<>> /\ cipher = Dec!NoCipher
    /\ cipherin = <<>> /\ macin = <<>> /\ verdict = "open"

SealedHasIv == ephase = "sealed" => iv \in Ivs

HasStream ==
  phase # "waiting" =>
    ephase \in {"sealed", "cleared"} /\ iv \in Ivs /\ file = Stream

Opens == phase # "waiting" => Dec!IInv /\ Dec!DueDeciphered

TripInv == EncIInv /\ Waits /\ SealedHasIv /\ HasStream /\ Opens
=============================================================================
