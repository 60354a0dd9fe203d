----------------------- MODULE CryptoRoundTrip_proofs -----------------------
(***************************************************************************)
(* Encryption seals, and decryption undoes it, for every length, cipher,   *)
(* MAC, key and text, however the text is cut before and the stream after. *)
(* First the properties of EncryptContext; those of the other half are     *)
(* proved in DecryptContext_proofs; what is left is that they meet.        *)
(***************************************************************************)
EXTENDS CryptoRoundTrip, SequenceTheorems, TLAPS

\* The theorems about a decryption context, for the files of this module.
DecP == INSTANCE DecryptContext_proofs WITH Files <- Seq(Byte)

(***************************************************************************)
(* A theorem of DecP holds under the assumptions of DecryptContext, which  *)
(* follow from those of this module.                                       *)
(***************************************************************************)
LEMMA DecryptAssumptions ==
  /\ IvLen \in Nat \ {0}
  /\ MdLen \in Nat /\ IvLen <= MdLen
  /\ Seq(Byte) \subseteq Seq(Byte)
  /\ Key \in Seq(Byte) /\ Key # <<>>
BY SameKeyAssumption, HeaderAssumption, LengthAssumption

\* What is proved there about buffers.
LEMMA SpanType ==
  ASSUME NEW S, NEW s \in Seq(S), NEW from \in Nat, NEW n \in Nat,
         from + n <= Len(s)
  PROVE  /\ Span(s, from, n) \in Seq(S)
         /\ Len(Span(s, from, n)) = n
         /\ \A k \in 1 .. n : Span(s, from, n)[k] = s[from + k]
BY DEF Span

LEMMA SpanLen ==
  ASSUME NEW s, NEW from, NEW n \in Nat
  PROVE  Len(Span(s, from, n)) = n
<1>1. Len(DecP!Span(s, from, n)) = n
  BY DecP!SpanLen, DecryptAssumptions
<1> QED BY <1>1 DEF Span, DecP!Span

TwoJoin(s, from, m, i, x, n) == Span(s, from, m) \o Span(s, i, x) = Span(s, from, n)

LEMMA SpanJoin2 ==
  ASSUME NEW s, NEW from \in Nat, NEW m \in Nat, NEW x \in Nat,
         NEW i, i = from + m, NEW n, n = m + x
  PROVE  TwoJoin(s, from, m, i, x, n)
<1>1. DecP!TwoJoin(s, from, m, i, x, n)
  BY DecP!SpanJoin2, DecryptAssumptions
<1> QED BY <1>1 DEF TwoJoin, DecP!TwoJoin, Span, DecP!Span

LEMMA SpanEmpty == ASSUME NEW s, NEW from PROVE Span(s, from, 0) = <<>>
BY DEF Span

USE BlockAssumption, LengthAssumption

\* What EVP has passed on after n bytes lags by less than a block, ...
LEMMA WholeBounds ==
  ASSUME NEW n \in Nat
  PROVE  Whole(n) \in Nat /\ Whole(n) <= n /\ n < Whole(n) + Block
BY DEF Whole

\* starts at 0, ...
LEMMA WholeZero == Whole(0) = 0
BY DEF Whole

\* ... and never shrinks.
LEMMA WholeMonotone ==
  ASSUME NEW m \in Nat, NEW n \in Nat, m <= n
  PROVE  Whole(m) <= Whole(n)
BY DEF Whole

\* The pieces of the ciphertext c fit together: p is what lies between its first
\* w bytes and its first m.
Joins(c, w, p, m) == Span(c, 0, w) \o p = Span(c, 0, m)

\* What the next n bytes of the text add to the ciphertext.
LEMMA NextPiece ==
  ASSUME NEW c, NEW t \in Nat, NEW n \in Nat
  PROVE  Joins(c, Whole(t), Span(c, Whole(t), Whole(t + n) - Whole(t)), Whole(t + n))
<1>1. /\ Whole(t) \in Nat /\ Whole(t + n) \in Nat
      /\ Whole(t + n) - Whole(t) \in Nat
      /\ Whole(t) = 0 + Whole(t)
      /\ Whole(t + n) = Whole(t) + (Whole(t + n) - Whole(t))
  BY WholeBounds, WholeMonotone
<1>2. TwoJoin(c, 0, Whole(t), Whole(t), Whole(t + n) - Whole(t), Whole(t + n))
  <2> DEFINE a == Whole(t)
             b == Whole(t + n) - Whole(t)
             e == Whole(t + n)
  <2>1. 0 \in Nat /\ a \in Nat /\ b \in Nat /\ a = 0 + a /\ e = a + b
    BY <1>1
  <2> HIDE DEF a, b, e
  <2>2. TwoJoin(c, 0, a, a, b, e)
    BY <2>1, SpanJoin2, Zenon
  <2> QED BY <2>2 DEF a, b, e
<1> QED BY <1>2 DEF TwoJoin, Joins

\* What EVP_EncryptFinal adds completes the ciphertext.
LEMMA LastBlock ==
  ASSUME NEW t \in Texts, NEW salt \in Ivs, t \in Seq(Byte)
  PROVE  Span(CipherOf(salt, t), 0, Whole(Len(t))) \o Span(CipherOf(salt, t), Whole(Len(t)), Block)
           = CipherOf(salt, t)
<1> DEFINE c == CipherOf(salt, t)
           w == Whole(Len(t))
<1>1. c \in Seq(Byte) /\ Len(c) = w + Block
  BY CipherAssumption DEF Padded
<1>2. w \in Nat /\ Block \in Nat /\ w = 0 + w
  BY WholeBounds
<1> HIDE DEF c, w
<1>3. Span(c, 0, w) \o Span(c, w, Block) = Span(c, 0, w + Block)
  <2>1. w + Block \in Nat
    BY <1>2
  <2>2. TwoJoin(c, 0, w, w, Block, w + Block)
    BY <1>2, SpanJoin2, Zenon
  <2> QED BY <2>2 DEF TwoJoin
<1>4. Span(c, 0, w + Block) = c
  BY <1>1, <1>2 DEF Span
<1> QED BY <1>3, <1>4 DEF c, w

(***************************************************************************)
(* Before crypto_encrypt_init nothing has been taken and nothing written.  *)
(***************************************************************************)
LEMMA EncInitInv == EncInit => EncIInv
<1> SUFFICES ASSUME EncInit PROVE EncIInv
  OBVIOUS
<1>1. text \in Seq(Byte) /\ Len(text) \in Nat
  BY TextsAssumption DEF EncInit
<1>2. out = <<>> /\ Len(out) = 0 /\ out \in Seq(Byte) /\ emacin \in Seq(Byte)
  BY DEF EncInit
<1>3. EncTypeOK
  BY <1>1, <1>2 DEF EncInit, EncTypeOK
<1>4. WrittenSoFar /\ SealsExactly
  BY DEF EncInit, WrittenSoFar, SealsExactly
<1>5. OutFits
  BY <1>1, <1>2 DEF OutFits
<1> QED BY <1>3, <1>4, <1>5 DEF EncIInv

\* What the steps below use of the types.
LEMMA Typed ==
  ASSUME EncIInv
  PROVE  /\ text \in Texts /\ text \in Seq(Byte) /\ Len(text) \in Nat
         /\ taken \in Nat /\ taken <= Len(text)
         /\ out \in Seq(Byte) /\ Len(out) \in Nat /\ emacin \in Seq(Byte)
BY TextsAssumption DEF EncIInv, EncTypeOK

\* The IV that the cipher is set up with is the one that will be written.
LEMMA EncryptInitInv == ASSUME EncIInv, EncryptInit PROVE EncIInv'
<1>1. EncTypeOK'
  BY DEF EncIInv, EncTypeOK, EncryptInit
<1>2. WrittenSoFar'
  BY DEF EncIInv, WrittenSoFar, EncryptInit
<1>3. OutFits' /\ SealsExactly'
  BY DEF EncIInv, OutFits, SealsExactly, EncryptInit
<1> QED BY <1>1, <1>2, <1>3 DEF EncIInv

(***************************************************************************)
(* A failure writes nothing, whatever it has read by then.                 *)
(***************************************************************************)
LEMMA FailInv ==
  ASSUME EncIInv, NEW n \in 0 .. Len(text) - taken,
         EncryptInitFails \/ EncryptUpdateFails(n) \/ EncryptFinalFails
  PROVE  EncIInv'
<1> USE Typed DEF EncryptInitFails, EncryptUpdateFails, EncryptFinalFails
<1>1. EncTypeOK'
  BY DEF EncIInv, EncTypeOK
<1>2. WrittenSoFar' /\ OutFits' /\ SealsExactly'
  BY DEF EncIInv, WrittenSoFar, OutFits, SealsExactly
<1> QED BY <1>1, <1>2 DEF EncIInv

(***************************************************************************)
(* One update adds the next whole blocks, and the IV if it is the first.   *)
(***************************************************************************)
LEMMA EncryptUpdateInv ==
  ASSUME EncIInv, NEW n \in 0 .. Len(text) - taken, EncryptUpdate(n)
  PROVE  EncIInv'
<1> DEFINE c == CipherOf(iv, text)
           w == Whole(taken)
           e == Whole(taken + n)
           p == Span(c, w, e - w)
           prefix == IF estate = 0 THEN eivbuf ELSE <<>>
<1>1. /\ ephase = "open" /\ ephase' = "open" /\ estate \in {0, 1} /\ estate' = 1
      /\ eivbuf' = <<>> /\ taken' = taken + n
      /\ text' = text /\ iv' = iv
      /\ out' = out \o (prefix \o p) /\ outl' = Len(prefix \o p)
      /\ emacin' = emacin \o prefix \o p
  BY DEF EncIInv, EncTypeOK, EncryptUpdate, Emit, Enciphered
<1>2. iv \in Ivs /\ iv \in Seq(Byte) /\ Len(iv) = IvLen /\ emacin = out
  BY <1>1, IvsAssumption DEF EncIInv, WrittenSoFar
<1>3. c \in Seq(Byte) /\ Len(c) = Whole(Len(text)) + Block
  BY <1>2, Typed, CipherAssumption DEF Padded
<1>4. /\ n \in Nat /\ taken + n \in Nat /\ taken + n <= Len(text)
      /\ w \in Nat /\ e \in Nat /\ w <= e /\ e <= Len(text) /\ e <= Len(c)
  <2>1. n \in Nat /\ taken + n \in Nat /\ taken + n <= Len(text) /\ taken <= taken + n
    BY Typed
  <2>2. w \in Nat /\ e \in Nat /\ e <= taken + n
    BY <2>1, Typed, WholeBounds
  <2>3. w <= e /\ e <= Whole(Len(text))
    BY <2>1, Typed, WholeMonotone
  <2>4. Whole(Len(text)) \in Nat
    BY Typed, WholeBounds
  <2> QED BY <1>3, <2>1, <2>2, <2>3, <2>4, Typed
<1>5. p \in Seq(Byte) /\ Len(p) = e - w
  <2>1. w \in Nat /\ e - w \in Nat /\ w + (e - w) <= Len(c)
    BY <1>4, <1>3
  <2> HIDE DEF c, w, e
  <2> QED BY <2>1, <1>3, SpanType
<1>6. Span(c, 0, w) \o p = Span(c, 0, e)
  <2>1. Joins(c, w, p, e)
    BY <1>4, Typed, NextPiece
  <2> QED BY <2>1 DEF Joins
<1>7. Span(c, 0, w) \in Seq(Byte) /\ Span(c, 0, e) \in Seq(Byte) /\ Len(Span(c, 0, e)) = e
  <2>1. 0 \in Nat /\ 0 + w <= Len(c) /\ 0 + e <= Len(c)
    BY <1>4, <1>3
  <2> HIDE DEF c, w, e, p
  <2>2. Span(c, 0, w) \in Seq(Byte)
    BY <2>1, <1>3, <1>4, SpanType
  <2>3. Span(c, 0, e) \in Seq(Byte) /\ Len(Span(c, 0, e)) = e
    BY <2>1, <1>3, <1>4, SpanType
  <2> QED BY <2>2, <2>3
<1>8. out' = iv \o Span(c, 0, e) /\ emacin' = out'
  <2>1. CASE estate = 0
    <3>1. out = <<>> /\ taken = 0 /\ prefix = iv
      BY <1>1, <2>1 DEF EncIInv, WrittenSoFar
    <3>2. w = 0 /\ Span(c, 0, w) = <<>>
      BY <3>1, WholeZero, SpanEmpty
    <3> HIDE DEF c, w, e, p, prefix
    <3>3. p = Span(c, 0, e)
      BY <1>5, <1>6, <3>2
    <3> QED BY <1>1, <1>2, <1>5, <3>1, <3>3
  <2>2. CASE estate = 1
    <3>1. out = iv \o Span(c, 0, w) /\ prefix = <<>>
      BY <1>1, <2>2 DEF EncIInv, WrittenSoFar
    <3> HIDE DEF c, w, e, p, prefix
    <3>2. out' = out \o p /\ emacin' = out \o p
      BY <1>1, <1>2, <1>5, <3>1, Typed
    <3>3. (iv \o Span(c, 0, w)) \o p = iv \o (Span(c, 0, w) \o p)
      BY <1>2, <1>5, <1>7, ConcatAssociative
    <3> QED BY <1>6, <3>1, <3>2, <3>3
  <2> QED BY <1>1, <2>1, <2>2
<1> HIDE DEF c, w, e, p, prefix
<1>9. out' \in Seq(Byte) /\ Len(out') = IvLen + e
  BY <1>2, <1>7, <1>8, ConcatProperties
<1>10. outl' \in 0 .. Len(out')
  <2>1. prefix \o p \in Seq(Byte)
    BY <1>1, <1>2, <1>5 DEF prefix, EncIInv, WrittenSoFar
  <2> QED BY <1>1, <2>1, Typed
<1>11. EncTypeOK'
  BY <1>1, <1>4, <1>8, <1>9, <1>10, Typed DEF EncIInv, EncTypeOK
<1>12. WrittenSoFar'
  <2>1. CipherOf(iv, text)' = c /\ Whole(taken)' = e
    BY <1>1 DEF c, e
  <2>2. out' = (iv \o Span(CipherOf(iv, text), 0, Whole(taken)))'
    BY <1>1, <1>8, <2>1, Zenon
  <2>3. ephase' # "fresh" /\ estate' # 0 /\ eivbuf' = <<>> /\ iv' \in Ivs
    BY <1>1, <1>2
  <2>4. emacin' = out'
    BY <1>8
  <2> QED BY <2>2, <2>3, <2>4, Zenon DEF WrittenSoFar
<1>13. OutFits' /\ SealsExactly'
  BY <1>1, <1>4, <1>9, Typed DEF OutFits, SealsExactly
<1> QED BY <1>11, <1>12, <1>13 DEF EncIInv

(***************************************************************************)
(* The last block and the MAC complete the stream.                         *)
(***************************************************************************)
LEMMA EncryptFinalInv == ASSUME EncIInv, EncryptFinal PROVE EncIInv'
<1> DEFINE c == CipherOf(iv, text)
           w == Whole(Len(text))
           last == Span(c, w, Block)
           mac == MacOf(iv \o c)
<1>1. /\ ephase = "open" /\ estate = 1 /\ taken = Len(text) /\ ephase' = "sealed"
      /\ UNCHANGED <<text, taken, estate, eivbuf, iv>>
      /\ emacin' = emacin \o last
      /\ out' = out \o (last \o MacOf(emacin')) /\ outl' = Len(last \o MacOf(emacin'))
  BY DEF EncryptFinal, Emit
<1>2. /\ iv \in Ivs /\ iv \in Seq(Byte) /\ Len(iv) = IvLen
      /\ out = iv \o Span(c, 0, w) /\ emacin = out
  BY <1>1, IvsAssumption DEF EncIInv, WrittenSoFar
<1>3. c \in Seq(Byte) /\ Len(c) = w + Block /\ mac \in Seq(Byte) /\ Len(mac) = MdLen
  BY <1>2, Typed, CipherAssumption, MacAssumption DEF Padded
<1>4. w \in Nat /\ w <= Len(text) /\ Block \in Nat
  BY Typed, WholeBounds
<1>5. Span(c, 0, w) \o last = c
  BY <1>2, Typed, LastBlock
<1> HIDE DEF c, w, mac
<1>6. Span(c, 0, w) \in Seq(Byte)
  <2>1. 0 \in Nat /\ 0 + w <= Len(c)
    BY <1>3, <1>4
  <2> QED BY <2>1, <1>3, <1>4, SpanType
<1>7. last \in Seq(Byte) /\ Len(last) = Block
  BY <1>3, <1>4, SpanType
<1> HIDE DEF last
<1>8. emacin' = iv \o c
  <2>1. (iv \o Span(c, 0, w)) \o last = iv \o (Span(c, 0, w) \o last)
    BY <1>2, <1>6, <1>7, ConcatAssociative
  <2> QED BY <1>1, <1>2, <1>5, <2>1
<1>9. out' = iv \o c \o mac
  <2>1. MacOf(emacin') = mac
    BY <1>8 DEF mac
  <2>2. (out \o last) \o mac = out \o (last \o mac)
    <3>1. out \in Seq(Byte) /\ last \in Seq(Byte) /\ mac \in Seq(Byte)
      BY <1>3, <1>7, Typed
    <3> QED BY <3>1, ConcatAssociative
  <2>3. out \o last = iv \o c
    BY <1>1, <1>2, <1>8
  <2> QED BY <1>1, <2>1, <2>2, <2>3
<1>10. /\ iv \o c \in Seq(Byte) /\ Len(iv \o c) = IvLen + (w + Block)
       /\ out' \in Seq(Byte) /\ Len(out') = (IvLen + (w + Block)) + MdLen
  <2>1. iv \o c \in Seq(Byte) /\ Len(iv \o c) = IvLen + (w + Block)
    BY <1>2, <1>3, ConcatProperties
  <2> QED BY <2>1, <1>3, <1>9, ConcatProperties
<1>11. outl' = Block + MdLen
  <2>1. MacOf(emacin') = mac
    BY <1>8 DEF mac
  <2> QED BY <1>1, <1>3, <1>7, <2>1, ConcatProperties
<1>12. EncTypeOK'
  BY <1>1, <1>4, <1>8, <1>10, <1>11, Typed DEF EncIInv, EncTypeOK
<1>13. WrittenSoFar' /\ OutFits'
  BY <1>1, <1>4, <1>10, Typed DEF WrittenSoFar, OutFits
<1>14. SealsExactly'
  <2>1. out' = (iv \o CipherOf(iv, text) \o MacOf(iv \o CipherOf(iv, text)))'
    BY <1>1, <1>9, Zenon DEF c, mac
  <2> QED BY <2>1, Zenon DEF SealsExactly
<1> QED BY <1>12, <1>13, <1>14 DEF EncIInv

\* What is cleared was sealed, or failed and is dropped.
LEMMA EncryptClearInv == ASSUME EncIInv, EncryptClear PROVE EncIInv'
<1>1. EncTypeOK' /\ WrittenSoFar' /\ SealsExactly'
  BY DEF EncIInv, EncTypeOK, WrittenSoFar, SealsExactly, EncryptClear
<1>2. OutFits'
  BY Typed DEF EncIInv, OutFits, EncryptClear
<1> QED BY <1>1, <1>2 DEF EncIInv

(***************************************************************************)
(* EncIInv is inductive.                                                   *)
(***************************************************************************)
LEMMA EncNextInv == EncIInv /\ [EncNext]_evars => EncIInv'
<1> SUFFICES ASSUME EncIInv, [EncNext]_evars PROVE EncIInv'
  OBVIOUS
<1>1. 0 \in 0 .. Len(text) - taken
  BY Typed
<1>2. CASE EncryptInit
  BY <1>2, EncryptInitInv
<1>3. CASE EncryptInitFails \/ EncryptFinalFails
  BY <1>1, <1>3, FailInv
<1>4. ASSUME NEW n \in 0 .. Len(text) - taken, EncryptUpdate(n) \/ EncryptUpdateFails(n)
      PROVE  EncIInv'
  BY <1>4, EncryptUpdateInv, FailInv
<1>5. CASE EncryptFinal
  BY <1>5, EncryptFinalInv
<1>6. CASE EncryptClear
  BY <1>6, EncryptClearInv
<1>7. CASE UNCHANGED evars
  BY <1>7 DEF evars, EncIInv, EncTypeOK, WrittenSoFar, OutFits, SealsExactly
<1> QED BY <1>2, <1>3, <1>4, <1>5, <1>6, <1>7 DEF EncNext

(***************************************************************************)
(* The inductive invariant holds in every reachable state of a context.    *)
(***************************************************************************)
THEOREM EncInvariance == EncSpec => []EncIInv
<1> QED BY EncInitInv, EncNextInv, PTL DEF EncSpec

(***************************************************************************)
(* The fields of the encryption context keep their types.                  *)
(***************************************************************************)
THEOREM EncTypeCorrect == EncSpec => []EncTypeOK
<1>1. EncIInv => EncTypeOK
  BY DEF EncIInv
<1> QED BY EncInvariance, <1>1, PTL

(***************************************************************************)
(* The buffer that crypto_encrypt allocates is never overrun.              *)
(***************************************************************************)
THEOREM OutAlwaysFits == EncSpec => []OutFits
<1>1. EncIInv => OutFits
  BY DEF EncIInv
<1> QED BY EncInvariance, <1>1, PTL

(***************************************************************************)
(* However a text is cut, what is sealed is its IV, its ciphertext and     *)
(* their MAC.                                                              *)
(***************************************************************************)
THEOREM AlwaysSealsExactly == EncSpec => []SealsExactly
<1>1. EncIInv => SealsExactly
  BY DEF EncIInv
<1> QED BY EncInvariance, <1>1, PTL
-----------------------------------------------------------------------------

USE HeaderAssumption

\* They speak of the same formulas as this module does.
LEMMA SameInv == (DecP!IInv <=> Dec!IInv) /\ (DecP!IInv <=> Dec!IInv)'
BY Zenon
DEF DecP!IInv, DecP!TypeOK, DecP!InvFresh, DecP!InvIv, DecP!InvBody, DecP!InvDone,
    DecP!CipherSetUp, DecP!VerdictIsSound, DecP!NoCipher, DecP!FileIv, DecP!S!Sealed,
    DecP!S!Span, DecP!Span,
    Dec!IInv, Dec!TypeOK, Dec!InvFresh, Dec!InvIv, Dec!InvBody, Dec!InvDone,
    Dec!CipherSetUp, Dec!VerdictIsSound, Dec!NoCipher, Dec!FileIv, Dec!S!Sealed,
    Dec!S!Span, Dec!Span

LEMMA SameDue ==
  (DecP!DueDeciphered <=> Dec!DueDeciphered) /\ (DecP!DueDeciphered <=> Dec!DueDeciphered)'
BY Zenon
DEF DecP!DueDeciphered, DecP!FileIv, DecP!S!Due, DecP!Span,
    Dec!DueDeciphered, Dec!FileIv, Dec!S!Due, Dec!Span

LEMMA SameNext == DecP!Next <=> Dec!Next
BY Zenon
DEF DecP!Next, DecP!DecryptInit, DecP!Update, DecP!CollectIv, DecP!CompleteIv,
    DecP!Absorb, DecP!CipherInitFails, DecP!CompleteIvFails, DecP!AbsorbFails,
    DecP!Final, DecP!FinalTooShort, DecP!FinalMismatch, DecP!FinalMatch, DecP!CtxClear,
    DecP!Fresh, DecP!Resize, DecP!FlushCount, DecP!FullFlush, DecP!FromAux, DecP!FromIn,
    DecP!Retained, DecP!RetainedCount, DecP!Span, DecP!Patch, DecP!Longer,
    Dec!Next, Dec!DecryptInit, Dec!Update, Dec!CollectIv, Dec!CompleteIv,
    Dec!Absorb, Dec!CipherInitFails, Dec!CompleteIvFails, Dec!AbsorbFails,
    Dec!Final, Dec!FinalTooShort, Dec!FinalMismatch, Dec!FinalMatch, Dec!CtxClear,
    Dec!Fresh, Dec!Resize, Dec!FlushCount, Dec!FullFlush, Dec!FromAux, Dec!FromIn,
    Dec!Retained, Dec!RetainedCount, Dec!Span, Dec!Patch, Dec!Longer

\* What is used of them.
LEMMA DecryptInvariant == DecP!NextInv
BY DecP!NextInv

LEMMA DecryptDue == DecP!DueStep
BY DecP!DueStep

\* A step of the recipient, or none, keeps what DecryptContext says of it.
LEMMA DecryptStep ==
  ASSUME Dec!IInv, Dec!DueDeciphered, Dec!Next \/ UNCHANGED dvars
  PROVE  Dec!IInv' /\ Dec!DueDeciphered'
<1>1. DecP!IInv /\ DecP!DueDeciphered
  BY SameInv, SameDue
<1>2. [DecP!Next]_DecP!vars
  BY SameNext, Zenon DEF dvars, DecP!vars
<1>3. DecP!IInv'
  BY <1>1, <1>2, DecryptAssumptions, DecryptInvariant
<1>4. DecP!DueDeciphered'
  BY <1>1, <1>2, <1>3, DecryptAssumptions, DecryptDue
<1> QED BY <1>3, <1>4, SameInv, SameDue

\* The recipient takes no step before there is a file, and does not change it.
LEMMA DecryptKeepsFile ==
  ASSUME Dec!Next
  PROVE  phase # "waiting" /\ phase' # "waiting" /\ file' = file
<1>1. CASE Dec!DecryptInit
  BY <1>1 DEF Dec!DecryptInit
<1>2. CASE Dec!Update
  BY <1>2 DEF Dec!Update, Dec!CollectIv, Dec!CompleteIv, Dec!Absorb, Dec!CipherInitFails,
     Dec!CompleteIvFails, Dec!AbsorbFails
<1>3. CASE Dec!Final
  BY <1>3 DEF Dec!Final, Dec!FinalTooShort, Dec!FinalMismatch, Dec!FinalMatch
<1>4. CASE Dec!CtxClear
  BY <1>4 DEF Dec!CtxClear
<1> QED BY <1>1, <1>2, <1>3, <1>4 DEF Dec!Next
-----------------------------------------------------------------------------
\* At first both sides are idle.
LEMMA TripInit == Init => TripInv
<1> SUFFICES ASSUME Init PROVE TripInv
  OBVIOUS
<1>1. EncIInv
  BY EncInitInv DEF Init
<1>2. Waits /\ HasStream /\ Opens
  BY DEF Init, Waits, HasStream, Opens
<1>3. SealedHasIv
  BY DEF Init, EncInit, SealedHasIv
<1> QED BY <1>1, <1>2, <1>3 DEF TripInv

\* What the author does before the stream is sealed, and the clearing after it.
LEMMA TripEncrypt == ASSUME TripInv, [EncNext]_evars, UNCHANGED dvars PROVE TripInv'
<1> USE DEF EncNext, EncryptInit, EncryptInitFails, EncryptUpdate, EncryptUpdateFails,
            EncryptFinal, EncryptFinalFails, EncryptClear, evars
<1>1. EncIInv'
  BY EncNextInv DEF TripInv
<1>2. file' = file /\ phase' = phase
  BY DEF dvars
<1>3. Waits'
  BY Zenon DEF TripInv, Waits, NoFile, Dec!NoCipher, dvars
<1>4. SealedHasIv'
  BY DEF TripInv, SealedHasIv, EncIInv, WrittenSoFar
<1>5. HasStream'
  <2>1. SUFFICES ASSUME phase' # "waiting"
                 PROVE  (ephase \in {"sealed", "cleared"} /\ iv \in Ivs /\ file = Stream)'
    BY DEF HasStream
  <2>2. ephase \in {"sealed", "cleared"} /\ iv \in Ivs /\ file = Stream
    BY <1>2, <2>1 DEF TripInv, HasStream
  <2>3. ephase' \in {ephase, "cleared"} /\ UNCHANGED <<iv, text>>
    BY <2>2
  <2>4. Stream' = Stream
    BY <2>3, Zenon DEF Stream
  <2> QED BY <1>2, <2>2, <2>3, <2>4
<1>6. Opens'
  BY <1>2, DecryptStep DEF TripInv, Opens
<1> QED BY <1>1, <1>3, <1>4, <1>5, <1>6 DEF TripInv

\* What is handed over is the sealed stream, to a context that is fresh.
LEMMA TripHandOver == ASSUME TripInv, HandOver PROVE TripInv'
<1>1. /\ ephase = "sealed" /\ phase = "waiting" /\ file' = out /\ phase' = "fresh"
      /\ UNCHANGED <<fed, state, count, ivbuf, auxbuf, cipher, cipherin, macin, verdict, evars>>
  BY DEF HandOver
<1>2. EncIInv'
  <2>1. UNCHANGED evars
    BY <1>1
  <2> QED BY <2>1, EncNextInv DEF TripInv
<1>3. UNCHANGED <<text, iv, out, ephase>>
  BY <1>1 DEF evars
<1>4. Waits' /\ SealedHasIv'
  BY <1>1, <1>3 DEF TripInv, Waits, SealedHasIv
<1>5. HasStream'
  <2>1. out = Stream
    BY <1>1 DEF TripInv, EncIInv, SealsExactly, Stream
  <2>2. Stream' = Stream
    BY <1>3, Zenon DEF Stream
  <2>3. iv \in Ivs
    BY <1>1 DEF TripInv, SealedHasIv
  <2> QED BY <1>1, <1>3, <2>1, <2>2, <2>3 DEF HasStream
<1>6. /\ fed' = 0 /\ state' = 0 /\ count' = 0 /\ ivbuf' = <<>> /\ auxbuf' = <<>>
      /\ cipher' = Dec!NoCipher /\ cipherin' = <<>> /\ macin' = <<>> /\ verdict' = "open"
  BY <1>1 DEF TripInv, Waits
<1>7. Dec!IInv'
  <2>1. out \in Seq(Byte) /\ Len(out) \in Nat
    BY DEF TripInv, EncIInv, EncTypeOK
  <2>2. Dec!TypeOK'
    BY <1>1, <1>6, <2>1 DEF Dec!TypeOK
  <2>3. Dec!InvFresh' /\ Dec!InvIv' /\ Dec!InvBody' /\ Dec!InvDone'
    BY <1>1, <1>6 DEF Dec!InvFresh, Dec!InvIv, Dec!InvBody, Dec!InvDone, Dec!NoCipher
  <2> QED BY <2>2, <2>3 DEF Dec!IInv
<1>8. Dec!DueDeciphered'
  <2>1. Dec!S!Due(0) = 0
    BY DEF Dec!S!Due
  <2>2. Dec!Span(file', IvLen, 0) = <<>>
    BY DEF Dec!Span
  <2> QED BY <1>6, <2>1, <2>2 DEF Dec!DueDeciphered
<1>9. Opens'
  BY <1>7, <1>8 DEF Opens
<1> QED BY <1>2, <1>4, <1>5, <1>9 DEF TripInv

\* The recipient's steps.
LEMMA TripDecrypt == ASSUME TripInv, Dec!Next, UNCHANGED evars PROVE TripInv'
<1>1. phase # "waiting" /\ phase' # "waiting" /\ file' = file
  BY DecryptKeepsFile
<1>2. EncIInv'
  BY EncNextInv DEF TripInv
<1>3. UNCHANGED <<text, iv, ephase>>
  BY DEF evars
<1>4. Waits' /\ SealedHasIv'
  BY <1>1, <1>3 DEF TripInv, Waits, SealedHasIv
<1>5. HasStream'
  <2>1. Stream' = Stream
    BY <1>3, Zenon DEF Stream
  <2> QED BY <1>1, <1>3, <2>1 DEF TripInv, HasStream
<1>6. Opens'
  BY <1>1, DecryptStep DEF TripInv, Opens
<1> QED BY <1>2, <1>4, <1>5, <1>6 DEF TripInv

(***************************************************************************)
(* The invariant of the two contexts and the file between them.            *)
(***************************************************************************)
THEOREM TripInvariance == Spec => []TripInv
<1>1. TripInv /\ [Next]_<<evars, dvars>> => TripInv'
  <2> SUFFICES ASSUME TripInv, [Next]_<<evars, dvars>> PROVE TripInv'
    OBVIOUS
  <2>1. CASE [EncNext]_evars /\ UNCHANGED dvars
    BY <2>1, TripEncrypt
  <2>2. CASE HandOver
    BY <2>2, TripHandOver
  <2>3. CASE Dec!Next /\ UNCHANGED evars
    BY <2>3, TripDecrypt
  <2> QED BY <2>1, <2>2, <2>3 DEF Next
<1> QED BY <1>1, TripInit, PTL DEF Spec
-----------------------------------------------------------------------------
\* Where the three parts of a stream are.
HasParts(f, a, c, m) ==
  /\ f \in Seq(Byte) /\ Len(f) = Len(a) + Len(c) + Len(m)
  /\ Dec!Span(f, 0, Len(f)) = f
  /\ Dec!Span(f, 0, Len(a)) = a
  /\ Dec!Span(f, Len(a), Len(c)) = c
  /\ Dec!Span(f, 0, Len(a) + Len(c)) = a \o c
  /\ Dec!Span(f, Len(a) + Len(c), Len(m)) = m

LEMMA StreamParts ==
  ASSUME NEW a \in Seq(Byte), NEW c \in Seq(Byte), NEW m \in Seq(Byte)
  PROVE  HasParts(a \o c \o m, a, c, m)
<1> DEFINE f == a \o c \o m
           h == a \o c
<1>1. Len(a) \in Nat /\ Len(c) \in Nat /\ Len(m) \in Nat
  OBVIOUS
<1>2. h \in Seq(Byte) /\ Len(h) = Len(a) + Len(c)
  BY ConcatProperties
<1>3. f \in Seq(Byte) /\ Len(f) = Len(a) + Len(c) + Len(m)
  BY <1>2, ConcatProperties
<1>4. \A k \in 1 .. Len(a) : h[k] = a[k] /\ f[k] = a[k]
  BY <1>2
<1>5. \A k \in 1 .. Len(c) : h[Len(a) + k] = c[k] /\ f[Len(a) + k] = c[k]
  BY <1>2
<1>6. \A k \in 1 .. Len(h) : f[k] = h[k]
  BY <1>2
<1>7. \A k \in 1 .. Len(m) : f[Len(a) + Len(c) + k] = m[k]
  BY <1>2
<1> HIDE DEF f, h
<1> DEFINE At(g, from) == \A k \in 1 .. Len(g) : f[from + k] = g[k]
<1>8. ASSUME NEW g \in Seq(Byte), NEW from \in Nat, At(g, from)
      PROVE  Dec!Span(f, from, Len(g)) = g
  <2>1. Dec!Span(f, from, Len(g)) = [k \in 1 .. Len(g) |-> g[k]]
    BY <1>8 DEF Dec!Span
  <2>2. g = [k \in 1 .. Len(g) |-> g[k]]
    OBVIOUS
  <2> QED BY <2>1, <2>2
<1>9. Dec!Span(f, 0, Len(f)) = f /\ Dec!Span(f, 0, Len(a)) = a
  <2>1. At(f, 0) /\ At(a, 0)
    BY <1>1, <1>3, <1>4
  <2> QED BY <1>3, <1>8, <2>1
<1>10. Dec!Span(f, Len(a), Len(c)) = c
  BY <1>1, <1>5, <1>8
<1>11. Dec!Span(f, 0, Len(h)) = h
  <2>1. At(h, 0)
    BY <1>2, <1>6
  <2> QED BY <1>2, <1>8, <2>1
<1>12. Dec!Span(f, Len(a) + Len(c), Len(m)) = m
  BY <1>1, <1>7, <1>8
<1>13. f = h \o m /\ h = a \o c
  BY DEF f, h
<1>14. HasParts(f, a, c, m)
  BY <1>2, <1>3, <1>9, <1>10, <1>11, <1>12, <1>13, Zenon DEF HasParts
<1> QED BY <1>14 DEF f, h

(***************************************************************************)
(* The file, as DecryptContext looks at it, is sealed; what is due to the  *)
(* cipher at its end is the ciphertext, before that a prefix of it.        *)
(***************************************************************************)
LEMMA StreamIsSealed ==
  ASSUME TripInv, phase # "waiting"
  PROVE  LET c == CipherOf(iv, text)
         IN /\ Len(c) \in Nat /\ Len(file) = IvLen + Len(c) + MdLen
            /\ Dec!S!Sealed(Dec!Span(file, 0, Len(file)))
            /\ Dec!FileIv = iv
            /\ Dec!S!Due(Len(file)) = Len(c)
            /\ Dec!Span(file, IvLen, Len(c)) = c
<1> DEFINE c == CipherOf(iv, text)
           m == MacOf(iv \o c)
<1>1. iv \in Ivs /\ text \in Texts /\ file = iv \o c \o m
  BY DEF TripInv, HasStream, Stream, EncIInv, EncTypeOK
<1>2. /\ iv \in Seq(Byte) /\ Len(iv) = IvLen /\ c \in Seq(Byte)
      /\ m \in Seq(Byte) /\ Len(m) = MdLen
  BY <1>1, IvsAssumption, CipherAssumption, MacAssumption
<1>3. MacOf(iv \o c) = m
  OBVIOUS
<1> HIDE DEF c, m
<1>4. /\ file \in Seq(Byte) /\ Len(file) = IvLen + Len(c) + MdLen
      /\ Dec!Span(file, 0, Len(file)) = file
      /\ Dec!Span(file, 0, IvLen) = iv
      /\ Dec!Span(file, IvLen, Len(c)) = c
      /\ Dec!Span(file, 0, IvLen + Len(c)) = iv \o c
      /\ Dec!Span(file, IvLen + Len(c), MdLen) = m
  <2>1. HasParts(file, iv, c, m)
    BY <1>1, <1>2, StreamParts, Zenon
  <2> QED BY <1>2, <2>1, Zenon DEF HasParts
<1>5. Len(c) \in Nat
  BY <1>2
<1>6. Len(file) - MdLen = IvLen + Len(c)
  BY <1>4, <1>5
<1>7. Dec!S!Sealed(file)
  <2>1. IvLen + MdLen <= Len(file)
    BY <1>4, <1>5
  <2>2. /\ Dec!S!Span(file, IvLen + Len(c), MdLen) = m
        /\ Dec!S!Span(file, 0, IvLen + Len(c)) = iv \o c
    BY <1>4, Zenon DEF Dec!S!Span, Dec!Span
  <2>3. /\ Dec!S!Span(file, Len(file) - MdLen, MdLen) = m
        /\ MacOf(Dec!S!Span(file, 0, Len(file) - MdLen)) = m
    BY <1>3, <1>6, <2>2, Zenon
  <2> QED BY <2>1, <2>3, Zenon DEF Dec!S!Sealed
<1>8. Dec!S!Due(Len(file)) = Len(c)
  BY <1>4, <1>5 DEF Dec!S!Due
<1> QED BY <1>4, <1>5, <1>7, <1>8 DEF c, Dec!FileIv

\* An invariant that opens says what the context's phases say.
LEMMA VerdictAboutFile ==
  ASSUME Dec!IInv, verdict # "open"
  PROVE  Dec!VerdictIsSound
BY DEF Dec!IInv, Dec!TypeOK, Dec!InvFresh, Dec!InvIv, Dec!InvBody, Dec!InvDone

(***************************************************************************)
(* A stream that is read to its end is accepted, with the IV and the       *)
(* ciphertext that its author's cipher had, unless OpenSSL fails.          *)
(***************************************************************************)
THEOREM AlwaysRoundTrip == Spec => []RoundTrip
<1>1. TripInv => RoundTrip
  <2> SUFFICES ASSUME TripInv, verdict # "open", fed = Len(file)
               PROVE  /\ verdict # "rejected"
                      /\ verdict = "accepted" =>
                           cipherin = CipherOf(iv, text) /\ cipher = [key |-> Key, iv |-> iv]
    BY DEF RoundTrip
  <2>1. phase # "waiting"
    BY DEF TripInv, Waits
  <2>2. Dec!IInv /\ Dec!DueDeciphered
    BY <2>1 DEF TripInv, Opens
  <2>3. verdict # "rejected"
    BY <2>1, <2>2, StreamIsSealed, VerdictAboutFile DEF Dec!VerdictIsSound
  <2>4. ASSUME verdict = "accepted"
        PROVE  cipherin = CipherOf(iv, text) /\ cipher = [key |-> Key, iv |-> iv]
    <3>1. cipherin = Dec!Span(file, IvLen, Dec!S!Due(Len(file)))
      BY <2>2, <2>4 DEF Dec!DueDeciphered
    <3>2. cipher = [key |-> Key, iv |-> Dec!FileIv]
      BY <2>2, <2>4 DEF Dec!DueDeciphered
    <3> QED BY <2>1, <3>1, <3>2, StreamIsSealed
  <2> QED BY <2>3, <2>4
<1> QED BY <1>1, TripInvariance, PTL

(***************************************************************************)
(* At no moment, and after no failure, has the recipient's cipher got      *)
(* anything but the beginning of the ciphertext.                           *)
(***************************************************************************)
THEOREM NothingElseEver == Spec => []NothingElseDeciphered
<1>1. TripInv => NothingElseDeciphered
  <2> SUFFICES ASSUME TripInv, phase # "waiting"
               PROVE  cipherin = Span(CipherOf(iv, text), 0, Len(cipherin))
    BY DEF NothingElseDeciphered
  <2> DEFINE c == CipherOf(iv, text)
  <2>1. Dec!IInv /\ Dec!DueDeciphered
    BY DEF TripInv, Opens
  <2>2. PICK k \in 0 .. Dec!S!Due(fed) : cipherin = Dec!Span(file, IvLen, k)
    BY <2>1 DEF Dec!DueDeciphered
  <2>3. /\ Len(c) \in Nat /\ Len(file) = IvLen + Len(c) + MdLen
        /\ Dec!Span(file, IvLen, Len(c)) = c
    BY StreamIsSealed
  <2>4. fed \in Nat /\ fed <= Len(file)
    BY <2>1, <2>3 DEF Dec!IInv, Dec!TypeOK
  <2>5. k \in Nat /\ k <= Len(c)
    <3>1. Dec!S!Due(fed) \in Nat /\ Dec!S!Due(fed) <= Len(c)
      BY <2>3, <2>4 DEF Dec!S!Due
    <3> QED BY <2>2, <3>1
  <2> HIDE DEF c
  <2>6. Len(cipherin) = k
    <3>1. cipherin = Span(file, IvLen, k)
      BY <2>2 DEF Dec!Span, Span
    <3> QED BY <2>5, <3>1, SpanLen, Zenon
  <2>7. \A j \in 1 .. k : file[IvLen + j] = c[j] /\ 0 + j = j
    <3>1. \A j \in 1 .. Len(c) : file[IvLen + j] = c[j]
      BY <2>3 DEF Dec!Span
    <3> QED BY <2>3, <2>5, <3>1
  <2>8. cipherin = Span(c, 0, k)
    BY <2>2, <2>7, Zenon DEF Dec!Span, Span
  <2> QED BY <2>6, <2>8 DEF c
<1> QED BY <1>1, TripInvariance, PTL
=============================================================================
