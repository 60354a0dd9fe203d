----------------------- MODULE DecryptContext_proofs -----------------------
(***************************************************************************)
(* The properties of DecryptContext for every IV and MAC length, key, MAC  *)
(* function and file, and that it implements SealedStream.                 *)
(***************************************************************************)
EXTENDS DecryptContext, SequenceTheorems, TLAPS

(***************************************************************************)
(* What the buffer operators return, for any buffer and any offset.        *)
(***************************************************************************)

\* n bytes copied from inside a buffer are n bytes of the buffer.
LEMMA SpanType ==
  ASSUME NEW Elems, NEW s \in Seq(Elems), NEW from \in Nat, NEW n \in Nat,
         from + n <= Len(s)
  PROVE  /\ Span(s, from, n) \in Seq(Elems)
         /\ Len(Span(s, from, n)) = n
         /\ \A k \in 1 .. n : Span(s, from, n)[k] = s[from + k]
BY DEF Span

\* The length of a piece.
LEMMA SpanLen ==
  ASSUME NEW s, NEW from, NEW n \in Nat
  PROVE  Len(Span(s, from, n)) = n
<1> DEFINE Elems == {s[from + k] : k \in 1 .. n}
           t == [k \in 1 .. n |-> s[from + k]]
<1>1. t \in [1 .. n -> Elems]
  OBVIOUS
<1> HIDE DEF Elems, t
<1>2. t \in Seq(Elems) /\ DOMAIN t = 1 .. n
  BY <1>1
<1>3. Len(t) = n
  BY <1>2
<1> QED BY <1>3 DEF Span, t

\* A piece of a piece is a piece.
PieceOfPrefix(s, n, from, m) == Span(Span(s, 0, n), from, m) = Span(s, from, m)

LEMMA SpanOfSpan ==
  ASSUME NEW s, NEW n \in Nat, NEW from \in Nat, NEW m \in Nat, from + m <= n
  PROVE  PieceOfPrefix(s, n, from, m)
<1>1. \A k \in 1 .. m : from + k \in 1 .. n /\ 0 + (from + k) = from + k
  OBVIOUS
<1>2. \A k \in 1 .. m : Span(s, 0, n)[from + k] = s[from + k]
  BY <1>1 DEF Span
<1> QED BY <1>2 DEF PieceOfPrefix, Span

\* Two adjacent pieces of a buffer, put together, are one piece of it.
LEMMA SpanJoin ==
  ASSUME NEW s, NEW from \in Nat, NEW m \in Nat, NEW n \in Nat
  PROVE  Span(s, from, m) \o Span(s, from + m, n) = Span(s, from, m + n)
<1> DEFINE Elems == {s[i] : i \in from + 1 .. from + m + n}
           s1 == Span(s, from, m)
           s2 == Span(s, from + m, n)
           R == Span(s, from, m + n)
<1>1. /\ s1 = [k \in 1 .. m |-> s[from + k]] /\ s2 = [k \in 1 .. n |-> s[from + m + k]]
      /\ R = [k \in 1 .. m + n |-> s[from + k]]
  BY DEF Span
<1>2. /\ \A k \in 1 .. m : s[from + k] \in Elems
      /\ \A k \in 1 .. n : s[from + m + k] \in Elems
      /\ \A k \in 1 .. m + n : s[from + k] \in Elems
  BY SMT
<1> HIDE DEF Elems, s1, s2, R
<1>3. s1 \in Seq(Elems) /\ Len(s1) = m /\ s2 \in Seq(Elems) /\ Len(s2) = n
  BY <1>1, <1>2
<1>4. m + n \in Nat /\ R \in Seq(Elems) /\ Len(R) = m + n
  BY <1>1, <1>2
<1>5. /\ s1 \o s2 \in Seq(Elems) /\ Len(s1 \o s2) = Len(s1) + Len(s2)
      /\ \A i \in 1 .. Len(s1) + Len(s2) :
           (s1 \o s2)[i] = IF i <= Len(s1) THEN s1[i] ELSE s2[i - Len(s1)]
  BY <1>3, ConcatProperties
<1>6. ASSUME NEW k \in 1 .. m + n PROVE (s1 \o s2)[k] = R[k]
  <2>1. CASE k <= m
    BY <1>1, <1>3, <1>5, <2>1
  <2>2. CASE m < k
    <3>1. k - m \in 1 .. n /\ from + m + (k - m) = from + k
      BY <2>2
    <3>2. (s1 \o s2)[k] = s2[k - m]
      BY <1>3, <1>5, <2>2
    <3> QED BY <1>1, <3>1, <3>2
  <2>3. k <= m \/ m < k
    OBVIOUS
  <2> QED BY <2>1, <2>2, <2>3
<1>7. s1 \o s2 = R
  BY <1>3, <1>4, <1>5, <1>6, SeqEqual
<1> QED BY <1>7 DEF s1, s2, R

\* The same, with the offset and the length of the result as they are written.
TwoJoin(s, from, m, i, x, n) == Span(s, from, m) \o Span(s, i, x) = Span(s, from, n)

LEMMA SpanJoin2 ==
  ASSUME NEW s, NEW from \in Nat, NEW m \in Nat, NEW x \in Nat,
         NEW i, i = from + m, NEW n, n = m + x
  PROVE  TwoJoin(s, from, m, i, x, n)
<1>1. Span(s, from, m) \o Span(s, from + m, x) = Span(s, from, m + x)
  BY SpanJoin, Zenon
<1> QED BY <1>1 DEF TwoJoin

\* Three adjacent pieces, starting at from, i and j, are one piece of length n.
ThreeJoin(s, from, m, i, x, j, y, n) ==
  Span(s, from, m) \o Span(s, i, x) \o Span(s, j, y) = Span(s, from, n)

LEMMA SpanJoin3 ==
  ASSUME NEW s, NEW from \in Nat, NEW m \in Nat, NEW x \in Nat, NEW y \in Nat,
         NEW i, i = from + m, NEW j, j = i + x, NEW n, n = m + x + y
  PROVE  ThreeJoin(s, from, m, i, x, j, y, n)
<1>1. m + x \in Nat /\ j = from + (m + x) /\ n = (m + x) + y
  OBVIOUS
<1>2. Span(s, from, m) \o Span(s, from + m, x) = Span(s, from, m + x)
  BY SpanJoin, Zenon
<1>3. Span(s, from, m + x) \o Span(s, from + (m + x), y) = Span(s, from, (m + x) + y)
  BY <1>1, SpanJoin, Zenon
<1> QED BY <1>1, <1>2, <1>3 DEF ThreeJoin

\* A piece of length 0 is the empty sequence.
LEMMA SpanEmpty == ASSUME NEW s, NEW from PROVE Span(s, from, 0) = <<>>
BY DEF Span
-----------------------------------------------------------------------------

USE IvLenAssumption, MdLenAssumption

Held == Byte \cup {Junk}   \* what a buffer of the context may contain

\* The window a of c bytes, ending at g in the file f, has slid by n bytes.
WindowSlid(f, a, c, g, n) ==
  LET v == Span(f, g, n)
      r == RetainedCount(c, v)
  IN /\ r = IF c + n <= MdLen THEN c + n ELSE MdLen
     /\ Retained(a, c, v) \in Seq(Held)
     /\ Len(Retained(a, c, v)) = MdLen
     /\ Span(Retained(a, c, v), 0, r) = Span(f, g + n - r, r)
     /\ \E x, y \in Nat :
          /\ FromAux(a, c, v) = Span(f, g - c, x)
          /\ FromIn(c, v) = Span(f, g - c + x, y)
          /\ x + y = c + n - r

\* What had everything of f between from and the window now has n bytes more,
\* short of those the window keeps.
PassedOn(f, a, c, g, n, from) ==
  LET v == Span(f, g, n)
      r == RetainedCount(c, v)
  IN Span(f, from, g - c - from) \o FromAux(a, c, v) \o FromIn(c, v)
       = Span(f, from, g + n - r - from)

(***************************************************************************)
(* One pass of the second half of crypto_decrypt_update over a window of   *)
(* c bytes and n new bytes of the file f, read up to g: what is passed on  *)
(* is the next piece of the file, and the window slides to its new end.    *)
(***************************************************************************)
LEMMA WindowSlides ==
  ASSUME NEW f \in Seq(Byte), NEW a \in Seq(Held), Len(a) = MdLen,
         NEW c \in 0 .. MdLen, NEW g \in Nat, NEW n \in Nat,
         c <= g, g + n <= Len(f), Span(a, 0, c) = Span(f, g - c, c)
  PROVE  WindowSlid(f, a, c, g, n)
<1> DEFINE v == Span(f, g, n)
           r == RetainedCount(c, v)
           q == FlushCount(c, v)
<1>1. /\ v \in Seq(Held) /\ Len(v) = n
      /\ \A k \in 1 .. n : v[k] = f[g + k]
  BY DEF Span, Held
<1>2. \A k \in 1 .. c : a[k] = f[g - c + k]
  <2> TAKE k \in 1 .. c
  <2>1. Span(a, 0, c)[k] = a[k] /\ Span(f, g - c, c)[k] = f[g - c + k]
    BY DEF Span
  <2> QED BY <2>1
<1>3. q = c + n - MdLen /\ q \in Int
  BY <1>1 DEF FlushCount
<1>4. r = IF c + n <= MdLen THEN c + n ELSE MdLen
  BY <1>1, <1>3 DEF RetainedCount, FullFlush, FlushCount
<1> HIDE DEF v, r, q
<1>5. /\ Retained(a, c, v) \in Seq(Held)
      /\ Len(Retained(a, c, v)) = MdLen
      /\ \A k \in 1 .. r : Retained(a, c, v)[k] = f[g + n - r + k]
  <2>1. CASE q <= 0
    <3>1. Retained(a, c, v) = Patch(a, c, v)
      BY <2>1 DEF Retained, q
    <3>2. c + Len(v) <= Len(a)
      BY <1>1, <1>3, <2>1
    <3>3. /\ Patch(a, c, v) \in Seq(Held) /\ Len(Patch(a, c, v)) = MdLen
          /\ \A k \in 1 .. MdLen : Patch(a, c, v)[k] =
               IF c < k /\ k <= c + Len(v) THEN v[k - c] ELSE a[k]
      BY <1>1, <3>2 DEF Patch, Longer
    <3> QED BY <1>1, <1>2, <1>3, <1>4, <2>1, <3>1, <3>3
  <2>2. CASE 0 < q /\ c <= q
    <3> DEFINE w == Span(v, q - c, MdLen)
    <3>1. Retained(a, c, v) = Patch(a, 0, w)
      BY <1>3, <2>2 DEF Retained, FullFlush, q
    <3>2. w \in Seq(Held) /\ Len(w) = MdLen /\ \A k \in 1 .. MdLen : w[k] = v[q - c + k]
      <4>1. \A k \in 1 .. MdLen : q - c + k \in 1 .. n
        BY <1>3, <2>2
      <4>2. \A k \in 1 .. MdLen : v[q - c + k] \in Held
        BY <1>1, <4>1
      <4>3. w = [k \in 1 .. MdLen |-> v[q - c + k]]
        BY DEF Span
      <4> HIDE DEF w
      <4> QED BY <4>2, <4>3
    <3> HIDE DEF w
    <3>3. /\ Patch(a, 0, w) \in Seq(Held) /\ Len(Patch(a, 0, w)) = MdLen
          /\ \A k \in 1 .. MdLen : Patch(a, 0, w)[k] =
               IF 0 < k /\ k <= 0 + Len(w) THEN w[k - 0] ELSE a[k]
      BY <3>2, SMTT(60) DEF Patch, Longer
    <3>4. r = MdLen /\ q = c + n - MdLen /\ MdLen <= n
      BY <1>3, <1>4, <2>2
    <3>5. ASSUME NEW k \in 1 .. MdLen
          PROVE  Patch(a, 0, w)[k] = f[g + n - MdLen + k]
      <4>1. k <= 0 + Len(w) /\ k - 0 = k /\ 0 < k
        BY <3>2
      <4>2. Patch(a, 0, w)[k] = v[q - c + k]
        BY <3>2, <3>3, <4>1
      <4>3. q - c + k \in 1 .. n /\ g + (q - c + k) = g + n - MdLen + k
        BY <3>4
      <4> QED BY <1>1, <4>2, <4>3
    <3> QED BY <3>1, <3>3, <3>4, <3>5
  <2>3. CASE 0 < q /\ q < c
    <3> DEFINE w == Span(a, q, c - q)
               b == Patch(a, 0, w)
    <3>1. Retained(a, c, v) = Patch(b, c - q, v)
      BY <1>3, <2>3 DEF Retained, FullFlush, q
    <3>2. /\ w \in Seq(Held) /\ Len(w) = c - q
          /\ \A k \in 1 .. c - q : w[k] = a[q + k]
      <4>1. c - q \in Nat /\ \A k \in 1 .. c - q : q + k \in 1 .. MdLen
        BY <1>3, <2>3
      <4>2. \A k \in 1 .. c - q : a[q + k] \in Held
        BY <4>1
      <4>3. w = [k \in 1 .. c - q |-> a[q + k]]
        BY DEF Span
      <4> HIDE DEF w
      <4> QED BY <4>1, <4>2, <4>3
    <3> HIDE DEF w
    <3>3. /\ b \in Seq(Held) /\ Len(b) = MdLen
          /\ \A k \in 1 .. MdLen : b[k] =
               IF 0 < k /\ k <= 0 + Len(w) THEN w[k - 0] ELSE a[k]
      BY <1>3, <2>3, <3>2 DEF Patch, Longer
    <3> HIDE DEF b
    <3>4. /\ Patch(b, c - q, v) \in Seq(Held) /\ Len(Patch(b, c - q, v)) = MdLen
          /\ \A k \in 1 .. MdLen : Patch(b, c - q, v)[k] =
               IF c - q < k /\ k <= c - q + Len(v) THEN v[k - (c - q)] ELSE b[k]
      BY <1>1, <1>3, <2>3, <3>3 DEF Patch, Longer
    <3>5. ASSUME NEW k \in 1 .. r
          PROVE  Retained(a, c, v)[k] = f[g + n - r + k]
      <4>1. /\ r = MdLen /\ q = c + n - MdLen /\ q \in Int /\ c \in Int
            /\ k \in Int /\ 1 <= k /\ k <= MdLen
        BY <1>3, <1>4, <2>3
      <4>2. k \in 1 .. MdLen
        BY <4>1
      <4>3. CASE k <= c - q
        <5>1. Retained(a, c, v)[k] = b[k]
          BY <3>1, <3>4, <4>1, <4>2, <4>3
        <5>2. k \in 1 .. c - q /\ k <= 0 + Len(w) /\ k - 0 = k
          BY <2>3, <3>2, <4>1, <4>3
        <5>6. b[k] = w[k] /\ w[k] = a[q + k]
          BY <3>2, <3>3, <4>1, <4>2, <5>2
        <5>3. q + k \in 1 .. c
          BY <2>3, <4>1, <4>3
        <5>4. a[q + k] = f[g - c + (q + k)]
          BY <1>2, <5>3
        <5>5. g - c + (q + k) = g + n - r + k
          BY <4>1
        <5> QED BY <5>1, <5>6, <5>4, <5>5
      <4>4. CASE c - q < k
        <5>1. k <= c - q + Len(v)
          BY <1>1, <4>1
        <5>2. Retained(a, c, v)[k] = v[k - (c - q)]
          BY <3>1, <3>4, <4>2, <4>4, <5>1
        <5>3. k - (c - q) \in 1 .. n
          BY <1>1, <4>1, <4>4, <5>1
        <5>4. v[k - (c - q)] = f[g + (k - (c - q))]
          BY <1>1, <5>3
        <5>5. g + (k - (c - q)) = g + n - r + k
          BY <4>1
        <5> QED BY <5>2, <5>4, <5>5
      <4>5. k <= c - q \/ c - q < k
        BY <4>1
      <4> QED BY <4>3, <4>4, <4>5
    <3>6. Retained(a, c, v) \in Seq(Held) /\ Len(Retained(a, c, v)) = MdLen
      BY <3>1, <3>4
    <3> QED BY <3>5, <3>6
  <2> QED BY <1>3, <2>1, <2>2, <2>3
<1>6. Span(Retained(a, c, v), 0, r) = Span(f, g + n - r, r)
  BY <1>4, <1>5 DEF Span
<1>7. \E x, y \in Nat :
        /\ FromAux(a, c, v) = Span(f, g - c, x)
        /\ FromIn(c, v) = Span(f, g - c + x, y)
        /\ x + y = c + n - r
  <2>1. CASE q <= 0
    <3>1. FromAux(a, c, v) = Span(f, g - c, 0) /\ FromIn(c, v) = Span(f, g - c + 0, 0)
      BY <2>1, <1>3 DEF FromAux, FromIn, Span, q
    <3>2. 0 + 0 = c + n - r
      BY <2>1, <1>3, <1>4
    <3> QED BY <3>1, <3>2
  <2>2. CASE 0 < q /\ c <= q
    <3>1. FromAux(a, c, v) = Span(a, 0, c) /\ FromIn(c, v) = Span(v, 0, q - c)
      BY <2>2, <1>3 DEF FromAux, FromIn, FullFlush, q
    <3>2. Span(v, 0, q - c) = Span(f, g - c + c, q - c)
      <4>1. g - c + c = g /\ q - c <= n /\ q - c \in Nat
        BY <1>3, <2>2
      <4>2. \A k \in 1 .. q - c : v[0 + k] = f[g + k]
        BY <1>1, <1>3, <4>1
      <4> QED BY <4>1, <4>2 DEF Span
    <3>3. q - c \in Nat /\ c + (q - c) = c + n - r
      BY <1>3, <1>4, <2>2
    <3> QED BY <3>1, <3>2, <3>3
  <2>3. CASE 0 < q /\ q < c
    <3>1. FromAux(a, c, v) = Span(a, 0, q) /\ FromIn(c, v) = Span(v, 0, 0)
      BY <2>3, <1>3 DEF FromAux, FromIn, FullFlush, q
    <3>2. Span(a, 0, q) = Span(f, g - c, q)
      BY <1>2, <1>3, <2>3 DEF Span
    <3>3. Span(v, 0, 0) = Span(f, g - c + q, 0)
      BY DEF Span
    <3>4. q \in Nat /\ q + 0 = c + n - r
      BY <1>3, <1>4, <2>3
    <3> QED BY <3>1, <3>2, <3>3, <3>4
  <2> QED BY <1>3, <2>1, <2>2, <2>3
<1> QED BY <1>4, <1>5, <1>6, <1>7 DEF WindowSlid, v, r

-----------------------------------------------------------------------------
\* Files hold bytes.
LEMMA FileType == TypeOK => file \in Seq(Byte) /\ Len(file) \in Nat
BY FilesAssumption DEF TypeOK

\* A chunk that leaves the IV incomplete extends what ivbuf has of the file.
LEMMA CollectIvStep ==
  ASSUME IInv, NEW n \in 0 .. Len(file) - fed, CollectIv(n)
  PROVE  IInv'
<1> USE DEF CollectIv
<1>1. /\ file \in Seq(Byte) /\ Len(file) \in Nat /\ fed \in Nat
      /\ n \in Nat /\ fed + n <= Len(file)
      /\ count \in Nat /\ fed = count /\ count + n < IvLen
      /\ ivbuf \in Seq(Byte \cup {Junk}) /\ Len(ivbuf) = IvLen
      /\ Span(ivbuf, 0, count) = Span(file, 0, count)
  BY FileType DEF IInv, TypeOK, InvIv
<1>2. /\ ivbuf' \in Seq(Byte \cup {Junk}) /\ Len(ivbuf') = IvLen
      /\ \A k \in 1 .. IvLen : ivbuf'[k] =
           IF count < k /\ k <= count + n THEN file[k] ELSE ivbuf[k]
  <2>1. /\ Span(file, fed, n) \in Seq(Byte \cup {Junk}) /\ Len(Span(file, fed, n)) = n
        /\ \A k \in 1 .. n : Span(file, fed, n)[k] = file[fed + k]
    BY <1>1 DEF Span
  <2> DEFINE w == Span(file, fed, n)
  <2> HIDE DEF w
  <2>2. /\ ivbuf' \in Seq(Byte \cup {Junk}) /\ Len(ivbuf') = IvLen
        /\ \A k \in 1 .. IvLen : ivbuf'[k] =
             IF count < k /\ k <= count + n THEN w[k - count] ELSE ivbuf[k]
    BY <1>1, <2>1 DEF Patch, Longer, w
  <2>3. \A k \in 1 .. IvLen :
          count < k /\ k <= count + n => w[k - count] = file[k]
    BY <1>1, <2>1 DEF w
  <2> QED BY <2>2, <2>3
<1>3. Span(ivbuf', 0, count + n) = Span(file, 0, count + n)
  <2>1. \A k \in 1 .. count : ivbuf[k] = file[k]
    <3> TAKE k \in 1 .. count
    <3>1. Span(ivbuf, 0, count)[k] = ivbuf[k] /\ Span(file, 0, count)[k] = file[k]
      BY <1>1 DEF Span
    <3> QED BY <1>1, <3>1
  <2>2. \A k \in 1 .. count + n : ivbuf'[0 + k] = file[0 + k]
    BY <1>1, <1>2, <2>1
  <2> QED BY <1>1, <2>2 DEF Span
<1>4. TypeOK'
  BY <1>1, <1>2 DEF IInv, TypeOK
<1>5. InvIv'
  BY <1>1, <1>2, <1>3 DEF IInv, InvIv
<1>6. InvFresh' /\ InvBody' /\ InvDone'
  BY DEF InvFresh, InvBody, InvDone
<1> QED BY <1>4, <1>5, <1>6 DEF IInv

\* When the IV is complete, ivbuf is the IV of the file.
LEMMA IvIsComplete ==
  ASSUME IInv, phase = "open", state = 0,
         NEW n \in 0 .. Len(file) - fed, IvLen <= count + n
  PROVE  /\ IvLen - count \in 0 .. n
         /\ fed + (IvLen - count) = IvLen
         /\ IvLen <= Len(file)
         /\ Patch(ivbuf, count, Span(file, fed, IvLen - count)) = FileIv
<1> DEFINE l == IvLen - count
           w == Span(file, fed, l)
<1>1. /\ file \in Seq(Byte) /\ Len(file) \in Nat /\ fed \in Nat
      /\ n \in Nat /\ fed + n <= Len(file)
      /\ count \in Nat /\ fed = count /\ count < IvLen
      /\ ivbuf \in Seq(Byte \cup {Junk}) /\ Len(ivbuf) = IvLen
      /\ Span(ivbuf, 0, count) = Span(file, 0, count)
  BY FileType DEF IInv, TypeOK, InvIv
<1>2. l \in 0 .. n /\ fed + l = IvLen /\ IvLen <= Len(file)
  BY <1>1
<1>3. w \in Seq(Byte) /\ Len(w) = l /\ \A k \in 1 .. l : w[k] = file[count + k]
  BY <1>1, <1>2 DEF Span
<1>4. \A k \in 1 .. count : ivbuf[k] = file[k]
  <2> TAKE k \in 1 .. count
  <2>1. Span(ivbuf, 0, count)[k] = ivbuf[k] /\ Span(file, 0, count)[k] = file[k]
    BY <1>1 DEF Span
  <2> QED BY <1>1, <2>1
<1> HIDE DEF w
<1>5. Patch(ivbuf, count, w) = [k \in 1 .. IvLen |->
         IF count < k /\ k <= IvLen THEN w[k - count] ELSE ivbuf[k]]
  <2>1. count + Len(w) = IvLen /\ Longer(Len(ivbuf), count + Len(w)) = IvLen
    BY <1>1, <1>2, <1>3 DEF Longer
  <2> QED BY <2>1 DEF Patch
<1>6. \A k \in 1 .. IvLen :
        (IF count < k /\ k <= IvLen THEN w[k - count] ELSE ivbuf[k]) = file[0 + k]
  BY <1>1, <1>2, <1>3, <1>4
<1>7. Patch(ivbuf, count, w) = FileIv
  BY <1>5, <1>6 DEF FileIv, Span
<1> QED BY <1>2, <1>7 DEF w

\* What the HMAC and the cipher have after a pass, if they had everything
\* before the window.
LEMMA WindowPasses ==
  ASSUME NEW f \in Seq(Byte), NEW a \in Seq(Held), Len(a) = MdLen,
         NEW c \in 0 .. MdLen, NEW g \in Nat, NEW n \in Nat,
         c <= g, g + n <= Len(f), Span(a, 0, c) = Span(f, g - c, c),
         NEW from \in Nat, from <= g - c
  PROVE  PassedOn(f, a, c, g, n, from)
<1> DEFINE v == Span(f, g, n)
           r == RetainedCount(c, v)
<1>0. WindowSlid(f, a, c, g, n)
  BY WindowSlides
<1>1. PICK x \in Nat, y \in Nat :
        /\ FromAux(a, c, v) = Span(f, g - c, x)
        /\ FromIn(c, v) = Span(f, g - c + x, y)
        /\ x + y = c + n - r
  BY <1>0 DEF WindowSlid
<1>2. r \in 0 .. MdLen /\ r <= c + n
  <2>1. r = IF c + n <= MdLen THEN c + n ELSE MdLen
    BY <1>0 DEF WindowSlid
  <2> QED BY <2>1
<1> HIDE DEF v, r
<1>3. /\ g - c - from \in Nat /\ g - c = from + (g - c - from)
      /\ g + n - r - from = (g - c - from) + x + y
  BY <1>1, <1>2
<1>4. Span(f, from, g - c - from) \o Span(f, g - c, x) \o Span(f, g - c + x, y)
        = Span(f, from, g + n - r - from)
  <2>1. ThreeJoin(f, from, g - c - from, g - c, x, g - c + x, y, g + n - r - from)
    BY <1>3, SpanJoin3, Zenon
  <2> QED BY <2>1 DEF ThreeJoin
<1>6. Span(f, from, g - c - from) \o FromAux(a, c, v) \o FromIn(c, v)
        = Span(f, from, g + n - r - from)
  BY <1>1, <1>4
<1> QED BY <1>6 DEF PassedOn, v, r

\* A chunk, once the cipher is set up, moves the window along the file.
LEMMA AbsorbStep ==
  ASSUME IInv, NEW n \in 0 .. Len(file) - fed, Absorb(n)
  PROVE  IInv'
<1> DEFINE v == Span(file, fed, n)
           r == RetainedCount(count, v)
<1>1. /\ file \in Seq(Byte) /\ Len(file) \in Nat /\ fed \in Nat
      /\ n \in Nat /\ fed + n <= Len(file)
      /\ IvLen <= fed /\ count \in 0 .. MdLen /\ count <= fed
      /\ IvLen <= fed - count
      /\ count = IF fed - IvLen <= MdLen THEN fed - IvLen ELSE MdLen
      /\ auxbuf \in Seq(Held) /\ Len(auxbuf) = MdLen
      /\ Span(auxbuf, 0, count) = Span(file, fed - count, count)
      /\ macin = Span(file, 0, fed - count)
      /\ cipherin = Span(file, IvLen, fed - count - IvLen)
  BY FileType DEF IInv, TypeOK, InvBody, Absorb, Held
<1>2. /\ r = IF count + n <= MdLen THEN count + n ELSE MdLen
      /\ Retained(auxbuf, count, v) \in Seq(Held)
      /\ Len(Retained(auxbuf, count, v)) = MdLen
      /\ Span(Retained(auxbuf, count, v), 0, r) = Span(file, fed + n - r, r)
  <2>1. WindowSlid(file, auxbuf, count, fed, n)
    BY <1>1, WindowSlides
  <2> QED BY <2>1 DEF WindowSlid
<1>3. macin \o FromAux(auxbuf, count, v) \o FromIn(count, v)
        = Span(file, 0, fed + n - r - 0)
  <2>1. 0 \in Nat /\ 0 <= fed - count /\ fed - count - 0 = fed - count
    BY <1>1
  <2>2. Span(file, 0, fed - count - 0) \o FromAux(auxbuf, count, v) \o FromIn(count, v)
          = Span(file, 0, fed + n - r - 0)
    <3>1. PassedOn(file, auxbuf, count, fed, n, 0)
      BY <1>1, <2>1, WindowPasses
    <3> QED BY <3>1 DEF PassedOn
  <2> QED BY <1>1, <2>1, <2>2
<1>4. cipherin \o FromAux(auxbuf, count, v) \o FromIn(count, v)
        = Span(file, IvLen, fed + n - r - IvLen)
  <2>1. PassedOn(file, auxbuf, count, fed, n, IvLen)
    BY <1>1, WindowPasses
  <2> QED BY <1>1, <2>1 DEF PassedOn
<1> HIDE DEF v, r
<1>5. /\ fed' = fed + n /\ count' = r /\ auxbuf' = Retained(auxbuf, count, v)
      /\ macin' = Span(file, 0, fed + n - r)
      /\ cipherin' = Span(file, IvLen, fed + n - r - IvLen)
  <2>1. r \in Nat /\ fed + n - r - 0 = fed + n - r
    BY <1>1, <1>2
  <2> QED BY <1>3, <1>4, <2>1 DEF Absorb, v, r
<1>6. UNCHANGED <<file, state, ivbuf, cipher, phase, verdict>>
      /\ phase = "open" /\ state = 1
  BY DEF Absorb
<1>7. /\ r \in 0 .. MdLen /\ IvLen <= fed + n - r
      /\ fed + n - r \in Nat /\ fed + n - r - IvLen \in Nat
  BY <1>1, <1>2
<1>8. InvBody'
  <2>1. r = IF fed + n - IvLen <= MdLen THEN fed + n - IvLen ELSE MdLen
    BY <1>1, <1>2
  <2> QED BY <1>1, <1>2, <1>5, <1>6, <1>7, <2>1 DEF IInv, InvBody, FileIv
<1>9. TypeOK'
  <2>1. macin' \in Seq(Byte) /\ cipherin' \in Seq(Byte)
    BY <1>1, <1>5, <1>7 DEF Span
  <2>2. auxbuf' \in Seq(Byte \cup {Junk}) /\ count' \in Nat
    BY <1>2, <1>5, <1>7 DEF Held
  <2> QED BY <1>1, <1>5, <1>6, <2>1, <2>2 DEF IInv, TypeOK
<1>10. InvFresh' /\ InvIv' /\ InvDone'
  BY <1>6 DEF InvFresh, InvIv, InvDone
<1> QED BY <1>8, <1>9, <1>10 DEF IInv

\* realloc of auxbuf from the key to the window.
LEMMA WindowAllocated ==
  ASSUME NEW b \in Seq(Held)
  PROVE  Resize(b, MdLen) \in Seq(Held) /\ Len(Resize(b, MdLen)) = MdLen
BY DEF Resize, Held

\* What holds when the IV has just been completed and l bytes of the chunk are used.
LEMMA BodyStarts ==
  ASSUME IInv, phase = "open", state = 0,
         NEW n \in 0 .. Len(file) - fed, IvLen <= count + n
  PROVE  LET l == IvLen - count
             a == Resize(auxbuf, MdLen)
         IN /\ file \in Seq(Byte) /\ Len(file) \in Nat /\ fed \in Nat /\ n \in Nat
            /\ l \in 0 .. n /\ fed + l = IvLen /\ n - l \in Nat
            /\ IvLen + (n - l) = fed + n /\ fed + n <= Len(file)
            /\ Patch(ivbuf, count, Span(file, fed, l)) = FileIv
            /\ a \in Seq(Held) /\ Len(a) = MdLen
            /\ WindowSlid(file, a, 0, IvLen, n - l)
            /\ PassedOn(file, a, 0, IvLen, n - l, 0)
            /\ PassedOn(file, a, 0, IvLen, n - l, IvLen)
            /\ auxbuf = Key /\ cipher = NoCipher /\ macin = <<>> /\ cipherin = <<>>
            /\ verdict = "open"
<1> DEFINE l == IvLen - count
           a == Resize(auxbuf, MdLen)
<1>1. /\ file \in Seq(Byte) /\ Len(file) \in Nat /\ fed \in Nat
      /\ n \in Nat /\ fed + n <= Len(file)
      /\ auxbuf = Key /\ cipher = NoCipher /\ macin = <<>> /\ cipherin = <<>>
      /\ verdict = "open" /\ auxbuf \in Seq(Held)
  BY FileType DEF IInv, TypeOK, InvIv, Held
<1>2. /\ l \in 0 .. n /\ fed + l = IvLen /\ IvLen <= Len(file)
      /\ Patch(ivbuf, count, Span(file, fed, l)) = FileIv
  BY IvIsComplete
<1>3. a \in Seq(Held) /\ Len(a) = MdLen
  BY <1>1, WindowAllocated
<1> HIDE DEF l, a
<1>4. n - l \in Nat /\ IvLen + (n - l) = fed + n /\ IvLen + (n - l) <= Len(file)
  BY <1>1, <1>2
<1>5. /\ 0 \in 0 .. MdLen /\ 0 <= IvLen /\ IvLen \in Nat
      /\ 0 \in Nat /\ 0 <= IvLen - 0 /\ IvLen <= IvLen - 0
  OBVIOUS
<1>6. Span(a, 0, 0) = Span(file, IvLen - 0, 0)
  BY DEF Span
<1>7. WindowSlid(file, a, 0, IvLen, n - l)
  BY <1>1, <1>3, <1>4, <1>5, <1>6, WindowSlides, Zenon
<1>8. PassedOn(file, a, 0, IvLen, n - l, 0)
  BY <1>1, <1>3, <1>4, <1>5, <1>6, WindowPasses, Zenon
<1>9. PassedOn(file, a, 0, IvLen, n - l, IvLen)
  BY <1>1, <1>3, <1>4, <1>5, <1>6, WindowPasses, Zenon
<1> QED BY <1>1, <1>2, <1>3, <1>4, <1>7, <1>8, <1>9 DEF l, a

\* The chunk that completes the IV also starts the window.
LEMMA CompleteIvStep ==
  ASSUME IInv, NEW n \in 0 .. Len(file) - fed, CompleteIv(n)
  PROVE  IInv'
<1> DEFINE l == IvLen - count
           a == Resize(auxbuf, MdLen)
           v == Span(file, IvLen, n - l)
           r == RetainedCount(0, v)
<1>0. phase = "open" /\ state = 0 /\ IvLen <= count + n
  BY DEF CompleteIv
<1>1. /\ file \in Seq(Byte) /\ Len(file) \in Nat /\ fed \in Nat /\ n \in Nat
      /\ l \in 0 .. n /\ fed + l = IvLen /\ n - l \in Nat
      /\ IvLen + (n - l) = fed + n /\ fed + n <= Len(file)
      /\ Patch(ivbuf, count, Span(file, fed, l)) = FileIv
      /\ WindowSlid(file, a, 0, IvLen, n - l)
      /\ PassedOn(file, a, 0, IvLen, n - l, 0)
      /\ PassedOn(file, a, 0, IvLen, n - l, IvLen)
      /\ auxbuf = Key /\ macin = <<>> /\ cipherin = <<>> /\ verdict = "open"
  BY <1>0, BodyStarts
<1>2. /\ fed' = fed + n /\ state' = 1 /\ phase' = "open" /\ verdict' = "open"
      /\ cipher' = [key |-> Key, iv |-> FileIv] /\ ivbuf' = <<>>
      /\ macin' = <<>> \o FileIv \o FromAux(a, 0, v) \o FromIn(0, v)
      /\ cipherin' = <<>> \o FromAux(a, 0, v) \o FromIn(0, v)
      /\ auxbuf' = Retained(a, 0, v) /\ count' = r /\ file' = file
  BY <1>1 DEF CompleteIv
<1>3. /\ r = IF n - l <= MdLen THEN n - l ELSE MdLen
      /\ Retained(a, 0, v) \in Seq(Held) /\ Len(Retained(a, 0, v)) = MdLen
      /\ Span(Retained(a, 0, v), 0, r) = Span(file, IvLen + (n - l) - r, r)
  BY <1>1 DEF WindowSlid
<1>4. <<>> \o FileIv = Span(file, 0, IvLen - 0 - 0)
  <2>1. FileIv \in Seq(Byte)
    BY <1>1 DEF FileIv, Span
  <2>2. <<>> \o FileIv = FileIv
    BY <2>1, ConcatEmptySeq, Zenon
  <2> QED BY <2>2 DEF FileIv
<1>5. macin' = Span(file, 0, IvLen + (n - l) - r - 0)
  BY <1>1, <1>2, <1>4 DEF PassedOn
<1>6. <<>> = Span(file, IvLen, IvLen - 0 - IvLen)
  BY DEF Span
<1>7. cipherin' = Span(file, IvLen, IvLen + (n - l) - r - IvLen)
  BY <1>1, <1>2, <1>6 DEF PassedOn
<1> HIDE DEF v, r, a, l
<1>8. /\ r \in 0 .. MdLen /\ fed' \in Nat /\ fed' <= Len(file)
      /\ IvLen <= fed' /\ IvLen <= fed' - r
      /\ IvLen + (n - l) - r - 0 = fed' - r /\ IvLen + (n - l) - r = fed' - r
      /\ r = IF fed' - IvLen <= MdLen THEN fed' - IvLen ELSE MdLen
      /\ fed' - r \in Nat /\ fed' - r - IvLen \in Nat /\ 0 + (fed' - r) <= Len(file)
      /\ IvLen + (n - l) - r - IvLen = fed' - r - IvLen
      /\ IvLen + (fed' - r - IvLen) <= Len(file)
  BY <1>1, <1>2, <1>3
<1>9. /\ macin' = Span(file, 0, fed' - r)
      /\ cipherin' = Span(file, IvLen, fed' - r - IvLen)
      /\ Span(auxbuf', 0, r) = Span(file, fed' - r, r)
  <2>1. macin' = Span(file, 0, fed' - r)
    BY <1>5, <1>8
  <2>2. cipherin' = Span(file, IvLen, fed' - r - IvLen)
    BY <1>7, <1>8
  <2>3. IvLen + (n - l) - r = fed' - r /\ auxbuf' = Retained(a, 0, v)
    BY <1>2, <1>8
  <2>4. Span(auxbuf', 0, r) = Span(file, fed' - r, r)
    <3>1. Span(auxbuf', 0, r) = Span(Retained(a, 0, v), 0, r)
      BY <2>3
    <3>2. Span(Retained(a, 0, v), 0, r) = Span(file, IvLen + (n - l) - r, r)
      BY <1>3
    <3>3. IvLen + (n - l) - r = fed' - r
      BY <2>3
    <3> QED BY <3>1, <3>2, <3>3, Zenon
  <2> QED BY <2>1, <2>2, <2>4
<1>10. InvBody'
  BY <1>2, <1>3, <1>8, <1>9 DEF InvBody, FileIv
<1>11. TypeOK'
  <2>1. macin' \in Seq(Byte) /\ cipherin' \in Seq(Byte)
    <3>2. /\ Span(file, 0, fed' - r) \in Seq(Byte)
          /\ Span(file, IvLen, fed' - r - IvLen) \in Seq(Byte)
      <4>1. IvLen \in Nat /\ 0 \in Nat
        OBVIOUS
      <4>2. Span(file, 0, fed' - r) \in Seq(Byte)
        BY <1>1, <1>8, <4>1, SpanType, Zenon
      <4>3. Span(file, IvLen, fed' - r - IvLen) \in Seq(Byte)
        BY <1>1, <1>8, <4>1, SpanType, Zenon
      <4> QED BY <4>2, <4>3
    <3> QED BY <1>9, <3>2
  <2>2. auxbuf' \in Seq(Byte \cup {Junk}) /\ count' \in Nat /\ file' \in Files
    BY <1>2, <1>3, <1>8 DEF Held, IInv, TypeOK
  <2> QED BY <1>2, <1>8, <2>1, <2>2 DEF TypeOK
<1>12. InvFresh' /\ InvIv' /\ InvDone'
  BY <1>2 DEF InvFresh, InvIv, InvDone
<1> QED BY <1>10, <1>11, <1>12 DEF IInv

\* crypto_decrypt_init leaves an open context that has read nothing.
LEMMA DecryptInitStep == ASSUME IInv, DecryptInit PROVE IInv'
<1>1. Fresh(IvLen) \in Seq(Byte \cup {Junk}) /\ Len(Fresh(IvLen)) = IvLen
  BY DEF Fresh
<1>2. Key \in Seq(Byte \cup {Junk})
  BY KeyAssumption
<1>3. Span(ivbuf', 0, 0) = Span(file', 0, 0)
  BY DEF Span
<1>4. /\ phase = "fresh" /\ phase' = "open" /\ state' = 0 /\ count' = 0
      /\ auxbuf' = Key /\ ivbuf' = Fresh(IvLen)
      /\ UNCHANGED <<file, fed, cipher, cipherin, macin, verdict>>
  BY DEF DecryptInit
<1>5. TypeOK'
  BY <1>1, <1>2, <1>4 DEF IInv, TypeOK
<1>6. InvIv'
  BY <1>1, <1>3, <1>4 DEF IInv, InvFresh, InvIv
<1>7. InvFresh' /\ InvBody' /\ InvDone'
  BY <1>4 DEF InvFresh, InvBody, InvDone
<1> QED BY <1>5, <1>6, <1>7 DEF IInv

\* The part of the invariant about a context that is no longer open follows
\* from where its bytes came from.
LEMMA DoneHolds ==
  ASSUME TypeOK', phase' \in {"done", "cleared"},
         NEW m \in Nat, m <= fed', macin' = Span(file', 0, m),
         m = 0 \/ IvLen <= m,
         NEW p \in Nat, cipherin' = Span(file', IvLen, p), p = 0 \/ IvLen + p <= m,
         CipherSetUp', verdict' # "open", VerdictIsSound'
  PROVE  IInv'
<1>1. Len(macin') = m /\ Len(cipherin') = p
  BY SpanLen, Zenon
<1>2. m = 0 => macin' = <<>>
  BY DEF Span
<1>3. p = 0 => cipherin' = <<>>
  BY DEF Span
<1>4. InvDone'
  BY <1>1, <1>2, <1>3 DEF InvDone
<1> QED BY <1>4 DEF IInv, InvFresh, InvIv, InvBody

\* The context as crypto_decrypt_final finds it.
LEMMA OpenContext ==
  ASSUME IInv, phase = "open"
  PROVE  /\ file \in Seq(Byte) /\ fed \in Nat /\ fed <= Len(file) /\ CipherSetUp
         /\ verdict = "open"
         /\ \/ /\ state = 0 /\ count = fed /\ fed < IvLen
               /\ macin = Span(file, 0, 0) /\ cipherin = Span(file, IvLen, 0)
            \/ /\ state = 1 /\ IvLen <= fed - count /\ count \in 0 .. MdLen
               /\ count = IF fed - IvLen <= MdLen THEN fed - IvLen ELSE MdLen
               /\ Len(auxbuf) = MdLen
               /\ Span(auxbuf, 0, count) = Span(file, fed - count, count)
               /\ fed - count \in Nat /\ macin = Span(file, 0, fed - count)
               /\ fed - count - IvLen \in Nat
               /\ cipherin = Span(file, IvLen, fed - count - IvLen)
<1>1. /\ file \in Seq(Byte) /\ Len(file) \in Nat /\ fed \in Nat /\ fed <= Len(file)
      /\ count \in Nat /\ state \in {0, 1}
  BY FileType DEF IInv, TypeOK
<1>2. CASE state = 0
  <2>1. Span(file, 0, 0) = <<>> /\ Span(file, IvLen, 0) = <<>>
    BY SpanEmpty, Zenon
  <2> QED BY <1>1, <1>2, <2>1 DEF IInv, InvIv, CipherSetUp
<1>3. CASE state = 1
  BY <1>1, <1>3 DEF IInv, InvBody, CipherSetUp
<1> QED BY <1>1, <1>2, <1>3

\* A full window of an open context is the MAC candidate of what was read.
LEMMA WindowIsMac ==
  ASSUME IInv, phase = "open", count = MdLen
  PROVE  S!Sealed(Span(file, 0, fed)) <=> MacOf(macin) = auxbuf
<1>1. /\ state = 1 /\ fed \in Nat /\ IvLen + MdLen <= fed /\ Len(auxbuf) = MdLen
      /\ auxbuf \in Seq(Byte \cup {Junk})
      /\ Span(auxbuf, 0, MdLen) = Span(file, fed - MdLen, MdLen)
      /\ macin = Span(file, 0, fed - MdLen)
      /\ fed - MdLen \in Nat
  BY OpenContext DEF IInv, TypeOK
<1>2. auxbuf = Span(auxbuf, 0, MdLen)
  <2>1. auxbuf = [k \in 1 .. MdLen |-> auxbuf[k]]
    BY <1>1
  <2>2. \A k \in 1 .. MdLen : 0 + k = k
    OBVIOUS
  <2> QED BY <2>1, <2>2 DEF Span
<1>3. Len(Span(file, 0, fed)) = fed
  BY <1>1, SpanLen, Zenon
<1>4. /\ (fed - MdLen) + MdLen <= fed /\ 0 + (fed - MdLen) <= fed
      /\ 0 \in Nat /\ MdLen \in Nat /\ fed \in Nat /\ fed - MdLen \in Nat
  BY <1>1
<1>5. Span(Span(file, 0, fed), fed - MdLen, MdLen) = Span(file, fed - MdLen, MdLen)
  <2>1. PieceOfPrefix(file, fed, fed - MdLen, MdLen)
    BY <1>4, SpanOfSpan, Zenon
  <2> QED BY <2>1 DEF PieceOfPrefix
<1>6. Span(Span(file, 0, fed), 0, fed - MdLen) = Span(file, 0, fed - MdLen)
  <2>1. PieceOfPrefix(file, fed, 0, fed - MdLen)
    BY <1>4, SpanOfSpan, Zenon
  <2> QED BY <2>1 DEF PieceOfPrefix
<1> DEFINE s == Span(file, 0, fed)
<1>7. S!Sealed(s) <=> /\ IvLen + MdLen <= Len(s)
                      /\ Span(s, Len(s) - MdLen, MdLen) = MacOf(Span(s, 0, Len(s) - MdLen))
  BY DEF S!Sealed, S!Span, Span
<1> HIDE DEF s
<1>12. Len(s) = fed
  BY <1>3 DEF s
<1>8. Span(s, Len(s) - MdLen, MdLen) = auxbuf
  <2>1. Span(s, fed - MdLen, MdLen) = auxbuf
    BY <1>1, <1>2, <1>5 DEF s
  <2> QED BY <1>12, <2>1
<1>9. MacOf(Span(s, 0, Len(s) - MdLen)) = MacOf(macin)
  <2>1. Span(s, 0, fed - MdLen) = macin
    BY <1>1, <1>6 DEF s
  <2> QED BY <1>12, <2>1
<1>10. IvLen + MdLen <= Len(s)
  BY <1>1, <1>12
<1>11. S!Sealed(s) <=> auxbuf = MacOf(macin)
  BY <1>7, <1>8, <1>9, <1>10
<1> QED BY <1>11 DEF s

\* What is too short to hold an IV and a MAC is not sealed.
LEMMA ShortIsNotSealed ==
  ASSUME IInv, phase = "open", count # MdLen
  PROVE  ~ S!Sealed(Span(file, 0, fed))
<1>1. fed \in Nat /\ fed < IvLen + MdLen
  BY OpenContext
<1>2. Len(Span(file, 0, fed)) = fed
  BY <1>1, SpanLen, Zenon
<1> QED BY <1>1, <1>2 DEF S!Sealed

\* What has everything of f between from and the window, when only auxbuf has
\* been passed on to it, has x bytes more.
AuxPassedOn(f, a, c, g, n, from, x) ==
  Span(f, from, g - c - from) \o FromAux(a, c, Span(f, g, n))
    = Span(f, from, g - c - from + x)

\* The x bytes of auxbuf that are passed on, the same for HMAC and cipher.
AuxShare(f, a, c, g, n, x) ==
  /\ g - c + x <= g + n - RetainedCount(c, Span(f, g, n))
  /\ FromAux(a, c, Span(f, g, n)) = Span(f, g - c, x)

LEMMA AuxShares ==
  ASSUME NEW f \in Seq(Byte), NEW a \in Seq(Held), Len(a) = MdLen,
         NEW c \in 0 .. MdLen, NEW g \in Nat, NEW n \in Nat,
         c <= g, g + n <= Len(f), Span(a, 0, c) = Span(f, g - c, c)
  PROVE  \E x \in Nat : AuxShare(f, a, c, g, n, x)
<1> DEFINE v == Span(f, g, n)
           r == RetainedCount(c, v)
<1>0. WindowSlid(f, a, c, g, n)
  BY WindowSlides
<1>1. PICK x \in Nat, y \in Nat :
        FromAux(a, c, v) = Span(f, g - c, x) /\ x + y = c + n - r
  BY <1>0 DEF WindowSlid
<1>2. r = IF c + n <= MdLen THEN c + n ELSE MdLen
  BY <1>0 DEF WindowSlid
<1> HIDE DEF v, r
<1>3. r \in 0 .. MdLen
  BY <1>2
<1>4. g - c + x <= g + n - r
  BY <1>1, <1>3
<1>5. AuxShare(f, a, c, g, n, x)
  BY <1>1, <1>4 DEF AuxShare, v, r
<1> QED BY <1>5

LEMMA AuxPasses ==
  ASSUME NEW f, NEW a, NEW c \in Nat, NEW g \in Nat, NEW n \in Nat, NEW x \in Nat,
         AuxShare(f, a, c, g, n, x), NEW from \in Nat, from <= g - c
  PROVE  AuxPassedOn(f, a, c, g, n, from, x)
<1> DEFINE m == g - c - from
<1>1. m \in Nat /\ g - c = from + m
  OBVIOUS
<1> HIDE DEF m
<1>2. TwoJoin(f, from, m, g - c, x, m + x)
  BY <1>1, SpanJoin2, Zenon
<1> QED BY <1>2 DEF AuxPassedOn, AuxShare, TwoJoin, m

(***************************************************************************)
(* EVP_DecryptUpdate fails once the cipher is set up: with g bytes passed  *)
(* on before and e that could have been passed on after, what the HMAC and *)
(* the cipher have been given depends on which of the two calls failed.    *)
(***************************************************************************)
Refused(f, g, e, mac, given) ==
  \E x \in Nat :
    /\ g + x <= e
    /\ \/ mac = Span(f, 0, g + x) /\ given = Span(f, IvLen, g - IvLen)
       \/ mac = Span(f, 0, e) /\ given = Span(f, IvLen, g - IvLen + x)

LEMMA AbsorbRefused ==
  ASSUME IInv, NEW n \in 0 .. Len(file) - fed, AbsorbFails(n)
  PROVE  LET r == RetainedCount(count, Span(file, fed, n))
         IN /\ r = IF count + n <= MdLen THEN count + n ELSE MdLen
            /\ Refused(file, fed - count, fed + n - r, macin', cipherin')
<1> DEFINE v == Span(file, fed, n)
           r == RetainedCount(count, v)
           g == fed - count
<1>1. /\ file \in Seq(Byte) /\ fed \in Nat /\ n \in Nat /\ fed + n <= Len(file)
      /\ count \in 0 .. MdLen /\ count <= fed /\ IvLen <= fed - count
      /\ auxbuf \in Seq(Held) /\ Len(auxbuf) = MdLen
      /\ Span(auxbuf, 0, count) = Span(file, fed - count, count)
      /\ g \in Nat /\ macin = Span(file, 0, g)
      /\ g - IvLen \in Nat /\ cipherin = Span(file, IvLen, g - IvLen)
  BY OpenContext, FileType DEF IInv, TypeOK, AbsorbFails, Held
<1>2. PICK x \in Nat : AuxShare(file, auxbuf, count, fed, n, x)
  BY <1>1, AuxShares
<1>3. /\ g + x <= fed + n - r
      /\ Span(file, 0, g - 0) \o FromAux(auxbuf, count, v) = Span(file, 0, g - 0 + x)
      /\ Span(file, IvLen, g - IvLen) \o FromAux(auxbuf, count, v)
           = Span(file, IvLen, g - IvLen + x)
  <2>1. /\ IvLen \in Nat /\ 0 \in Nat /\ count \in Nat
        /\ 0 <= fed - count /\ IvLen <= fed - count
    BY <1>1
  <2>2. AuxPassedOn(file, auxbuf, count, fed, n, 0, x)
    BY <1>1, <1>2, <2>1, AuxPasses, Zenon
  <2>3. AuxPassedOn(file, auxbuf, count, fed, n, IvLen, x)
    BY <1>1, <1>2, <2>1, AuxPasses, Zenon
  <2> QED BY <1>2, <2>2, <2>3 DEF AuxPassedOn, AuxShare
<1>4. /\ r = IF count + n <= MdLen THEN count + n ELSE MdLen
      /\ Span(file, 0, g - 0) \o FromAux(auxbuf, count, v) \o FromIn(count, v)
           = Span(file, 0, fed + n - r - 0)
  <2>1. WindowSlid(file, auxbuf, count, fed, n)
    BY <1>1, WindowSlides
  <2>2. PassedOn(file, auxbuf, count, fed, n, 0)
    BY <1>1, WindowPasses
  <2>3. r = IF count + n <= MdLen THEN count + n ELSE MdLen
    BY <2>1 DEF WindowSlid
  <2> QED BY <2>2, <2>3 DEF PassedOn
<1>5. \/ /\ macin' = macin \o FromAux(auxbuf, count, v)
         /\ cipherin' = cipherin
      \/ /\ macin' = macin \o FromAux(auxbuf, count, v) \o FromIn(count, v)
         /\ cipherin' = cipherin \o FromAux(auxbuf, count, v)
  BY DEF AbsorbFails
<1> HIDE DEF v, r, g
<1>6. g - 0 = g /\ fed + n - r - 0 = fed + n - r
  BY <1>1, <1>4
<1>7. \/ macin' = Span(file, 0, g + x) /\ cipherin' = Span(file, IvLen, g - IvLen)
      \/ /\ macin' = Span(file, 0, fed + n - r)
         /\ cipherin' = Span(file, IvLen, g - IvLen + x)
  BY <1>1, <1>3, <1>4, <1>5, <1>6
<1>8. Refused(file, g, fed + n - r, macin', cipherin')
  BY <1>3, <1>7 DEF Refused
<1> QED BY <1>4, <1>8 DEF g, r, v

LEMMA AbsorbFailsStep ==
  ASSUME IInv, NEW n \in 0 .. Len(file) - fed, AbsorbFails(n)
  PROVE  IInv'
<1> DEFINE r == RetainedCount(count, Span(file, fed, n))
           g == fed - count
           e == fed + n - r
<1>1. /\ file \in Seq(Byte) /\ fed \in Nat /\ n \in Nat /\ fed + n <= Len(file)
      /\ count \in 0 .. MdLen /\ count <= fed /\ IvLen <= fed - count
      /\ CipherSetUp /\ Len(file) \in Nat
  BY OpenContext, FileType DEF IInv, TypeOK, AbsorbFails
<1>2. /\ phase' = "done" /\ verdict' = "failed" /\ fed' = fed + n
      /\ UNCHANGED <<file, state, count, ivbuf, auxbuf, cipher>>
  BY DEF AbsorbFails
<1>3. CipherSetUp' /\ VerdictIsSound'
  BY <1>1, <1>2 DEF CipherSetUp, VerdictIsSound, FileIv
<1>4. /\ r = IF count + n <= MdLen THEN count + n ELSE MdLen
      /\ Refused(file, g, e, macin', cipherin')
  BY AbsorbRefused
<1> HIDE DEF r
<1>5. PICK x \in Nat :
        /\ g + x <= e
        /\ \/ macin' = Span(file, 0, g + x) /\ cipherin' = Span(file, IvLen, g - IvLen)
           \/ macin' = Span(file, 0, e) /\ cipherin' = Span(file, IvLen, g - IvLen + x)
  BY <1>4 DEF Refused
<1>6. e <= fed + n
  BY <1>1, <1>4
<1>7. /\ g \in Nat /\ IvLen <= g /\ e \in Int
  BY <1>1, <1>4
<1> HIDE DEF e, g
<1>8. /\ g + x \in Nat /\ g + x <= fed' /\ g + x <= Len(file)
      /\ e \in Nat /\ e <= fed' /\ g - IvLen \in Nat /\ IvLen \in Nat /\ 0 \in Nat
      /\ g - IvLen + x \in Nat /\ IvLen + (g - IvLen) <= g + x
      /\ IvLen + (g - IvLen + x) <= e /\ IvLen <= g + x /\ IvLen <= e
      /\ IvLen + (g - IvLen) <= Len(file) /\ IvLen + (g - IvLen + x) <= Len(file)
      /\ 0 + (g + x) <= Len(file) /\ 0 + e <= Len(file)
  BY <1>1, <1>2, <1>5, <1>6, <1>7
<1>9. TypeOK'
  <2>1. /\ Span(file, 0, g + x) \in Seq(Byte) /\ Span(file, 0, e) \in Seq(Byte)
        /\ Span(file, IvLen, g - IvLen) \in Seq(Byte)
        /\ Span(file, IvLen, g - IvLen + x) \in Seq(Byte)
    BY <1>1, <1>8, SpanType, Zenon
  <2>2. fed' \in 0 .. Len(file)
    BY <1>1, <1>2
  <2> QED BY <1>2, <1>5, <2>1, <2>2 DEF IInv, TypeOK
<1>10. verdict' # "open" /\ phase' \in {"done", "cleared"} /\ file' = file
  BY <1>2
<1>11. CASE macin' = Span(file, 0, g + x) /\ cipherin' = Span(file, IvLen, g - IvLen)
  <2>1. macin' = Span(file', 0, g + x) /\ cipherin' = Span(file', IvLen, g - IvLen)
    BY <1>10, <1>11
  <2> QED BY <1>3, <1>8, <1>9, <1>10, <2>1, DoneHolds, Zenon
<1>12. CASE macin' = Span(file, 0, e) /\ cipherin' = Span(file, IvLen, g - IvLen + x)
  <2>1. macin' = Span(file', 0, e) /\ cipherin' = Span(file', IvLen, g - IvLen + x)
    BY <1>10, <1>12
  <2> QED BY <1>3, <1>8, <1>9, <1>10, <2>1, DoneHolds, Zenon
<1> QED BY <1>5, <1>11, <1>12

\* EVP_DecryptInit fails: nothing has been passed on yet.
LEMMA CipherInitFailsStep ==
  ASSUME IInv, NEW n \in 0 .. Len(file) - fed, CipherInitFails(n)
  PROVE  IInv'
<1> DEFINE l == IvLen - count
<1>1. /\ file \in Seq(Byte) /\ Len(file) \in Nat /\ fed \in Nat /\ n \in Nat
      /\ fed + n <= Len(file) /\ macin = <<>> /\ cipherin = <<>> /\ cipher = NoCipher
      /\ auxbuf \in Seq(Byte \cup {Junk}) /\ file \in Files
  BY FileType DEF IInv, TypeOK, InvIv, CipherInitFails
<1>2. /\ phase' = "done" /\ verdict' = "failed" /\ fed' = fed + n /\ state' = 1
      /\ count' = IvLen /\ ivbuf' = Patch(ivbuf, count, Span(file, fed, l))
      /\ UNCHANGED <<file, auxbuf, cipher, cipherin, macin>>
  BY DEF CipherInitFails
<1>3. Patch(ivbuf, count, Span(file, fed, l)) = FileIv /\ IvLen <= Len(file)
  BY IvIsComplete DEF CipherInitFails
<1>4. FileIv \in Seq(Byte \cup {Junk})
  <2>1. FileIv \in Seq(Byte)
    BY <1>1, <1>3 DEF FileIv, Span
  <2> QED BY <2>1
<1>5. TypeOK'
  BY <1>1, <1>2, <1>3, <1>4 DEF TypeOK
<1>6. CipherSetUp' /\ VerdictIsSound'
  BY <1>1, <1>2 DEF CipherSetUp, VerdictIsSound
<1>7. /\ 0 \in Nat /\ 0 <= fed' /\ phase' \in {"done", "cleared"} /\ verdict' # "open"
  BY <1>1, <1>2
<1>8. macin' = Span(file', 0, 0) /\ cipherin' = Span(file', IvLen, 0)
  BY <1>1, <1>2, SpanEmpty
<1> QED BY <1>5, <1>6, <1>7, <1>8, DoneHolds, Zenon

\* EVP_DecryptUpdate fails right after the IV: the HMAC has the IV and the
\* bytes the cipher refused.
LEMMA CompleteIvFailsStep ==
  ASSUME IInv, NEW n \in 0 .. Len(file) - fed, CompleteIvFails(n)
  PROVE  IInv'
<1> DEFINE l == IvLen - count
           a == Resize(auxbuf, MdLen)
           v == Span(file, IvLen, n - l)
           r == RetainedCount(0, v)
           m == fed' - r
<1>0. phase = "open" /\ state = 0 /\ IvLen <= count + n
  BY DEF CompleteIvFails
<1>1. /\ file \in Seq(Byte) /\ Len(file) \in Nat /\ fed \in Nat /\ n \in Nat
      /\ l \in 0 .. n /\ fed + l = IvLen /\ n - l \in Nat
      /\ IvLen + (n - l) = fed + n /\ fed + n <= Len(file)
      /\ Patch(ivbuf, count, Span(file, fed, l)) = FileIv
      /\ a \in Seq(Held) /\ Len(a) = MdLen
      /\ WindowSlid(file, a, 0, IvLen, n - l)
      /\ PassedOn(file, a, 0, IvLen, n - l, 0)
      /\ auxbuf = Key /\ macin = <<>> /\ cipherin = <<>> /\ verdict = "open"
  BY <1>0, BodyStarts
<1>2. /\ fed' = fed + n /\ state' = 1 /\ phase' = "done" /\ verdict' = "failed"
      /\ cipher' = [key |-> Key, iv |-> FileIv] /\ ivbuf' = <<>>
      /\ macin' = <<>> \o FileIv \o FromIn(0, v)
      /\ cipherin' = <<>> /\ auxbuf' = a /\ count' = 0 /\ file' = file
  BY <1>1 DEF CompleteIvFails
<1>3. r = IF n - l <= MdLen THEN n - l ELSE MdLen
  BY <1>1 DEF WindowSlid
<1>4. FromAux(a, 0, v) = <<>>
  <2>1. 0 <= FlushCount(0, v) \/ FlushCount(0, v) <= 0
    <3>1. Len(v) = n - l
      BY <1>1, SpanLen, Zenon
    <3>2. Len(v) \in Nat
      BY <1>1, <3>1
    <3> HIDE DEF v
    <3> QED BY <3>2 DEF FlushCount
  <2>2. FromAux(a, 0, v) = Span(a, 0, 0)
    BY <2>1 DEF FromAux, FullFlush
  <2> QED BY <2>2, SpanEmpty, Zenon
<1>5. FileIv \in Seq(Byte)
  BY <1>1 DEF FileIv, Span
<1>6. <<>> \o FileIv = FileIv /\ FileIv \o <<>> = FileIv
  BY <1>5, ConcatEmptySeq, Zenon
<1>7. FileIv \o FromIn(0, v) = Span(file, 0, IvLen + (n - l) - r - 0)
  <2>1. FileIv = Span(file, 0, IvLen - 0 - 0)
    BY DEF FileIv
  <2>2. FileIv \o FromAux(a, 0, v) \o FromIn(0, v) = Span(file, 0, IvLen + (n - l) - r - 0)
    BY <1>1, <2>1 DEF PassedOn
  <2> QED BY <1>4, <1>6, <2>2
<1>8. macin' = FileIv \o FromIn(0, v)
  BY <1>2, <1>6
<1> HIDE DEF v, r, a, l
<1>9. /\ IvLen + (n - l) - r - 0 = m /\ m \in Nat /\ m <= fed' /\ m <= Len(file)
      /\ IvLen <= m /\ fed' \in 0 .. Len(file) /\ IvLen <= Len(file)
  BY <1>1, <1>2, <1>3
<1> HIDE DEF m
<1>10. macin' = Span(file, 0, m)
  BY <1>7, <1>8, <1>9
<1>11. Span(file, 0, m) \in Seq(Byte)
  <2>1. 0 \in Nat /\ 0 + m <= Len(file)
    BY <1>9
  <2> QED BY <1>1, <1>9, <2>1, SpanType, Zenon
<1>12. TypeOK'
  <2>1. auxbuf' \in Seq(Byte \cup {Junk}) /\ file' \in Files
    BY <1>1, <1>2 DEF Held, IInv, TypeOK
  <2>2. macin' \in Seq(Byte) /\ cipherin' \in Seq(Byte) /\ ivbuf' \in Seq(Byte \cup {Junk})
    <3>1. <<>> \in Seq(Byte) /\ <<>> \in Seq(Byte \cup {Junk})
      OBVIOUS
    <3> QED BY <1>2, <1>10, <1>11, <3>1, Zenon
  <2>3. fed' \in 0 .. Len(file')
    BY <1>2, <1>9
  <2> QED BY <1>2, <2>1, <2>2, <2>3 DEF TypeOK
<1>13. CipherSetUp' /\ VerdictIsSound'
  BY <1>2 DEF CipherSetUp, VerdictIsSound, FileIv
<1>14. /\ macin' = Span(file', 0, m) /\ cipherin' = Span(file', IvLen, 0) /\ 0 \in Nat
       /\ verdict' # "open" /\ phase' \in {"done", "cleared"}
  BY <1>2, <1>10, SpanEmpty
<1> QED BY <1>9, <1>12, <1>13, <1>14, DoneHolds, Zenon

\* What crypto_decrypt_final decides is decided about the bytes read.
LEMMA FinalStep ==
  ASSUME IInv, Final
  PROVE  IInv'
<1>1. /\ phase = "open" /\ phase' = "done" /\ verdict' # "open"
      /\ UNCHANGED <<file, fed, state, count, ivbuf, cipher, cipherin, macin>>
      /\ auxbuf' \in {auxbuf, <<>>}
  BY DEF Final, FinalTooShort, FinalMismatch, FinalMatch
<1>2. VerdictIsSound'
  <2>1. CASE FinalTooShort
    <3>1. ~ S!Sealed(Span(file, 0, fed))
      BY <2>1, ShortIsNotSealed DEF FinalTooShort
    <3> QED BY <1>1, <2>1, <3>1 DEF FinalTooShort, VerdictIsSound
  <2>2. CASE FinalMismatch
    <3>1. ~ S!Sealed(Span(file, 0, fed))
      BY <2>2, WindowIsMac DEF FinalMismatch
    <3> QED BY <1>1, <2>2, <3>1 DEF FinalMismatch, VerdictIsSound
  <2>3. CASE FinalMatch
    <3>1. S!Sealed(Span(file, 0, fed))
      BY <2>3, WindowIsMac DEF FinalMatch
    <3> QED BY <1>1, <2>3, <3>1 DEF FinalMatch, VerdictIsSound
  <2> QED BY <2>1, <2>2, <2>3 DEF Final
<1>3. TypeOK'
  <2>1. verdict' \in {"open", "accepted", "rejected", "failed"}
    BY DEF Final, FinalTooShort, FinalMismatch, FinalMatch
  <2>2. auxbuf \in Seq(Byte \cup {Junk}) /\ <<>> \in Seq(Byte \cup {Junk})
    BY DEF IInv, TypeOK
  <2>3. auxbuf' \in Seq(Byte \cup {Junk})
    BY <1>1, <2>2, Zenon
  <2> QED BY <1>1, <2>1, <2>3 DEF IInv, TypeOK
<1>4. CipherSetUp'
  BY <1>1, OpenContext DEF CipherSetUp, FileIv
<1>5. phase' \in {"done", "cleared"}
  BY <1>1
<1>6. \/ /\ macin' = Span(file', 0, 0) /\ cipherin' = Span(file', IvLen, 0)
         /\ fed' \in Nat
      \/ /\ fed - count \in Nat /\ IvLen <= fed - count /\ fed - count <= fed'
         /\ fed - count - IvLen \in Nat
         /\ IvLen + (fed - count - IvLen) <= fed - count
         /\ macin' = Span(file', 0, fed - count)
         /\ cipherin' = Span(file', IvLen, fed - count - IvLen)
  <2>1. UNCHANGED <<file, fed, cipherin, macin>> /\ count \in Nat /\ phase = "open"
    BY <1>1 DEF IInv, TypeOK
  <2>2. CASE state = 0
    BY <2>1, <2>2, OpenContext
  <2>3. CASE state = 1
    <3>1. /\ fed \in Nat /\ IvLen <= fed - count
          /\ fed - count \in Nat /\ macin = Span(file, 0, fed - count)
          /\ fed - count - IvLen \in Nat
          /\ cipherin = Span(file, IvLen, fed - count - IvLen)
      BY <2>1, <2>3, OpenContext
    <3> QED BY <2>1, <3>1
  <2> QED BY <2>2, <2>3 DEF IInv, TypeOK
<1>7. CASE macin' = Span(file', 0, 0) /\ cipherin' = Span(file', IvLen, 0) /\ fed' \in Nat
  <2>1. 0 \in Nat /\ 0 <= fed'
    BY <1>7
  <2> QED BY <1>1, <1>2, <1>3, <1>4, <1>5, <1>7, <2>1, DoneHolds, Zenon
<1>8. CASE /\ fed - count \in Nat /\ IvLen <= fed - count /\ fed - count <= fed'
           /\ fed - count - IvLen \in Nat
           /\ IvLen + (fed - count - IvLen) <= fed - count
           /\ macin' = Span(file', 0, fed - count)
           /\ cipherin' = Span(file', IvLen, fed - count - IvLen)
  <2> DEFINE m == fed - count
  <2> HIDE DEF m
  <2>1. /\ m \in Nat /\ IvLen <= m /\ m <= fed' /\ m - IvLen \in Nat
        /\ IvLen + (m - IvLen) <= m /\ macin' = Span(file', 0, m)
        /\ cipherin' = Span(file', IvLen, m - IvLen)
    BY <1>8 DEF m
  <2> QED BY <1>1, <1>2, <1>3, <1>4, <1>5, <2>1, DoneHolds, Zenon
<1> QED BY <1>6, <1>7, <1>8

\* Clearing the context disturbs nothing the properties speak of.
LEMMA CtxClearStep == ASSUME IInv, CtxClear PROVE IInv'
<1>1. /\ phase = "done" /\ phase' = "cleared" /\ auxbuf' = <<>> /\ ivbuf' = <<>>
      /\ UNCHANGED <<file, fed, state, count, cipher, cipherin, macin, verdict>>
  BY DEF CtxClear
<1>2. TypeOK'
  BY <1>1 DEF IInv, TypeOK
<1>3. InvDone'
  BY <1>1 DEF IInv, InvDone, CipherSetUp, VerdictIsSound, FileIv
<1>4. InvFresh' /\ InvIv' /\ InvBody'
  BY <1>1 DEF InvFresh, InvIv, InvBody
<1> QED BY <1>2, <1>3, <1>4 DEF IInv
-----------------------------------------------------------------------------
\* IInv is inductive.
LEMMA NextInv == ASSUME IInv, [Next]_vars PROVE IInv'
<1>1. CASE DecryptInit
  BY <1>1, DecryptInitStep
<1>2. CASE Update
  BY <1>2, CollectIvStep, CompleteIvStep, AbsorbStep, CipherInitFailsStep,
     CompleteIvFailsStep, AbsorbFailsStep DEF Update
<1>3. CASE Final
  BY <1>3, FinalStep
<1>4. CASE CtxClear
  BY <1>4, CtxClearStep
<1>5. CASE UNCHANGED vars
  BY <1>5 DEF vars, IInv, TypeOK, InvFresh, InvIv, InvBody, InvDone, CipherSetUp,
     VerdictIsSound, FileIv
<1> QED BY <1>1, <1>2, <1>3, <1>4, <1>5 DEF Next

(***************************************************************************)
(* The inductive invariant: where the bytes of the file are, in every      *)
(* phase of a context, whatever the sizes of the chunks and whichever call *)
(* of OpenSSL fails.                                                       *)
(***************************************************************************)
THEOREM Invariance == Spec => []IInv
<1>1. Init => IInv
  <2> SUFFICES ASSUME Init PROVE IInv
    OBVIOUS
  <2>1. Len(file) \in Nat
    BY FilesAssumption DEF Init
  <2> QED BY <2>1 DEF Init, IInv, TypeOK, InvFresh, InvIv, InvBody, InvDone
<1>2. IInv /\ [Next]_vars => IInv'
  BY NextInv
<1> QED BY <1>1, <1>2, PTL DEF Spec

\* The variables keep the types of struct crypto_ctx_s.
THEOREM TypeCorrect == Spec => []TypeOK
<1>1. IInv => TypeOK
  BY DEF IInv
<1> QED BY <1>1, Invariance, PTL

\* No memcpy of crypto_decrypt_update overruns ivbuf or auxbuf.
THEOREM BuffersAlwaysFit == Spec => []BuffersFit
<1>1. IInv => BuffersFit
  <2> SUFFICES ASSUME IInv, phase = "open"
               PROVE  \/ state = 0 /\ Len(ivbuf) = IvLen /\ auxbuf = Key /\ count < IvLen
                      \/ state = 1 /\ Len(auxbuf) = MdLen /\ ivbuf = <<>> /\ count <= MdLen
    BY DEF BuffersFit
  <2>1. CASE state = 0
    BY <2>1 DEF IInv, InvIv
  <2>2. CASE state = 1
    BY <2>2, OpenContext DEF IInv, InvBody
  <2> QED BY <2>1, <2>2 DEF IInv, TypeOK
<1> QED BY <1>1, Invariance, PTL

\* auxbuf is always the last bytes received, however they were cut into chunks.
THEOREM AuxAlwaysWindow == Spec => []AuxIsWindow
<1>1. IInv => AuxIsWindow
  <2> SUFFICES ASSUME IInv, phase = "open", state = 1
               PROVE  /\ Span(auxbuf, 0, count) = Span(file, fed - count, count)
                      /\ Len(macin) + count = fed
    BY DEF AuxIsWindow
  <2>1. /\ Span(auxbuf, 0, count) = Span(file, fed - count, count)
        /\ fed - count \in Nat /\ macin = Span(file, 0, fed - count)
        /\ fed \in Nat /\ count \in 0 .. MdLen
    BY OpenContext
  <2>2. Len(macin) = fed - count
    BY <2>1, SpanLen, Zenon
  <2> QED BY <2>1, <2>2
<1> QED BY <1>1, Invariance, PTL

\* The block cipher is never set up with anything but the key and the IV.
THEOREM CipherAlwaysSetUp == Spec => []CipherSetUp
<1>1. IInv => CipherSetUp
  BY DEF IInv, TypeOK, InvFresh, InvIv, InvBody, InvDone, CipherSetUp
<1> QED BY <1>1, Invariance, PTL

\* An HMAC over m bytes of the file covers the IV and p bytes after it.
LEMMA MacCovers ==
  ASSUME NEW m \in Nat, NEW p \in Nat, IvLen + p <= m,
         macin = Span(file, 0, m), cipherin = Span(file, IvLen, p)
  PROVE  MacBeforeCipher
<1>1. Len(macin) = m /\ Len(cipherin) = p
  BY SpanLen, Zenon
<1>2. IvLen \in Nat /\ 0 \in Nat /\ IvLen = 0 + IvLen /\ IvLen + p \in Nat /\ 0 + (IvLen + p) <= m
  OBVIOUS
<1>3. PieceOfPrefix(file, m, 0, IvLen + p)
  BY <1>2, SpanOfSpan, Zenon
<1>4. TwoJoin(file, 0, IvLen, IvLen, p, IvLen + p)
  BY <1>2, SpanJoin2, Zenon
<1> QED BY <1>1, <1>3, <1>4 DEF MacBeforeCipher, FileIv, PieceOfPrefix, TwoJoin

\* Every byte the block cipher is given has been given to the HMAC before.
THEOREM MacAlwaysFirst == Spec => []MacBeforeCipher
<1>1. ASSUME IInv PROVE MacBeforeCipher
  <2>1. CASE phase = "fresh"
    BY <1>1, <2>1 DEF IInv, InvFresh, MacBeforeCipher
  <2>2. CASE phase = "open" /\ state = 0
    BY <1>1, <2>2 DEF IInv, InvIv, MacBeforeCipher
  <2>3. CASE phase = "open" /\ state = 1
    <3>1. /\ fed - count \in Nat /\ macin = Span(file, 0, fed - count)
          /\ fed - count - IvLen \in Nat
          /\ cipherin = Span(file, IvLen, fed - count - IvLen)
          /\ IvLen + (fed - count - IvLen) <= fed - count
      BY <1>1, <2>3, OpenContext
    <3> QED BY <3>1, MacCovers
  <2>4. CASE phase \in {"done", "cleared"}
    <3>1. /\ macin = Span(file, 0, Len(macin)) /\ Len(macin) \in Nat
          /\ macin = <<>> \/ IvLen <= Len(macin)
          /\ \/ cipherin = <<>>
             \/ /\ IvLen + Len(cipherin) <= Len(macin)
                /\ cipherin = Span(file, IvLen, Len(cipherin))
          /\ Len(cipherin) \in Nat
      BY <1>1, <2>4 DEF IInv, TypeOK, InvDone
    <3>2. CASE macin = <<>>
      <4>1. Len(macin) = 0
        BY <3>2
      <4> QED BY <3>1, <3>2, <4>1 DEF MacBeforeCipher
    <3>3. CASE IvLen <= Len(macin) /\ cipherin = <<>>
      <4>1. cipherin = Span(file, IvLen, 0) /\ IvLen + 0 <= Len(macin) /\ 0 \in Nat
        BY <3>3, SpanEmpty
      <4> QED BY <3>1, <4>1, MacCovers
    <3>4. CASE /\ IvLen + Len(cipherin) <= Len(macin)
               /\ cipherin = Span(file, IvLen, Len(cipherin))
      BY <3>1, <3>4, MacCovers
    <3> QED BY <3>1, <3>2, <3>3, <3>4
  <2> QED BY <1>1, <2>1, <2>2, <2>3, <2>4 DEF IInv, TypeOK
<1>2. IInv => MacBeforeCipher
  BY <1>1
<1> QED BY <1>2, Invariance, PTL

\* A ciphertext is accepted only when it carries its MAC, rejected only when
\* it does not.
THEOREM VerdictAlwaysSound == Spec => []VerdictIsSound
<1>1. IInv => VerdictIsSound
  BY DEF IInv, TypeOK, InvFresh, InvIv, InvBody, InvDone, VerdictIsSound
<1> QED BY <1>1, Invariance, PTL
-----------------------------------------------------------------------------
(***************************************************************************)
(* DecryptContext implements SealedStream: a call of crypto_decrypt_update *)
(* is a Feed or an Abort, crypto_decrypt_final a Judge or an Abort, and    *)
(* the calls that open and clear the context are stutters.                 *)
(***************************************************************************)
\* What is due of g bytes is what is neither IV nor in a window of r bytes.
LEMMA DueOfWindow ==
  ASSUME NEW g \in Nat, IvLen <= g, NEW r,
         r = IF g - IvLen <= MdLen THEN g - IvLen ELSE MdLen
  PROVE  S!Due(g) = g - r - IvLen /\ S!Due(g) \in Nat
BY DEF S!Due

\* An update that succeeds has delivered what is due.
LEMMA FeedStep ==
  ASSUME IInv, IInv', NEW n \in 0 .. Len(file) - fed,
         phase = "open", phase' = "open", file' = file, fed' = fed + n, n \in Nat
  PROVE  S!Feed(n)
<1>1. /\ verdict = "open" /\ verdict' = "open"
  BY DEF IInv, TypeOK, InvIv, InvBody
<1>2. cipherin' = Span(file, IvLen, S!Due(fed + n))
  <2>1. CASE state' = 0
    <3>1. fed' < IvLen /\ cipherin' = <<>> /\ fed' \in Nat
      BY <2>1 DEF IInv, TypeOK, InvIv
    <3>2. S!Due(fed') = 0
      BY <3>1 DEF S!Due
    <3> QED BY <3>1, <3>2, SpanEmpty
  <2>2. CASE state' = 1
    <3>1. /\ fed' \in Nat /\ IvLen <= fed'
          /\ count' = IF fed' - IvLen <= MdLen THEN fed' - IvLen ELSE MdLen
          /\ cipherin' = Span(file, IvLen, fed' - count' - IvLen)
      BY <2>2 DEF IInv, TypeOK, InvBody
    <3>2. S!Due(fed') = fed' - count' - IvLen
      BY <3>1, DueOfWindow
    <3> QED BY <3>1, <3>2
  <2> QED BY <2>1, <2>2 DEF IInv, TypeOK
<1>3. cipherin' = S!Span(file, IvLen, S!Due(fed + n))
  BY <1>2 DEF S!Span, Span
<1> QED BY <1>1, <1>3 DEF S!Feed

\* A cipher that had c and has the first k bytes of the body has failed in an Abort.
LEMMA AbortStep ==
  ASSUME NEW n \in Nat, verdict = "open", verdict' = "failed", file' = file,
         fed' = fed + n, NEW k \in Nat, cipherin' = Span(file, IvLen, k),
         Len(cipherin) \in Nat, Len(cipherin) <= k, S!Due(fed + n) \in Nat,
         k <= S!Due(fed + n)
  PROVE  S!Abort(n)
<1>1. cipherin' = S!Span(file, IvLen, k)
  BY DEF S!Span, Span
<1>2. k \in Len(cipherin) .. S!Due(fed + n)
  OBVIOUS
<1> QED BY <1>1, <1>2 DEF S!Abort

\* A failing update is an Abort.
LEMMA FailStep ==
  ASSUME IInv, NEW n \in 0 .. Len(file) - fed,
         CipherInitFails(n) \/ CompleteIvFails(n) \/ AbsorbFails(n)
  PROVE  S!Abort(n)
<1>1. /\ n \in Nat /\ fed \in Nat /\ phase = "open" /\ verdict' = "failed"
      /\ file' = file /\ fed' = fed + n /\ verdict = "open"
  BY FileType, OpenContext DEF IInv, TypeOK, CipherInitFails, CompleteIvFails, AbsorbFails
<1>2. S!Due(fed + n) \in Nat
  BY <1>1 DEF S!Due
<1>3. CASE CipherInitFails(n) \/ CompleteIvFails(n)
  <2>1. cipherin = <<>> /\ cipherin' = <<>>
    BY <1>3 DEF CipherInitFails, CompleteIvFails, IInv, InvIv
  <2>2. /\ Len(cipherin) \in Nat /\ Len(cipherin) <= 0 /\ 0 \in Nat /\ 0 <= S!Due(fed + n)
        /\ cipherin' = Span(file, IvLen, 0)
    BY <1>2, <2>1, SpanEmpty
  <2> QED BY <1>1, <1>2, <2>2, AbortStep, Zenon
<1>4. CASE AbsorbFails(n)
  <2> DEFINE r == RetainedCount(count, Span(file, fed, n))
             g == fed - count
             e == fed + n - r
  <2>1. /\ state = 1 /\ count \in 0 .. MdLen
        /\ count = IF fed - IvLen <= MdLen THEN fed - IvLen ELSE MdLen
        /\ IvLen <= g /\ cipherin = Span(file, IvLen, g - IvLen)
    BY <1>1, <1>4, OpenContext DEF AbsorbFails
  <2>2. /\ r = IF count + n <= MdLen THEN count + n ELSE MdLen
        /\ Refused(file, g, e, macin', cipherin')
    BY <1>4, AbsorbRefused
  <2> HIDE DEF r
  <2>3. PICK x \in Nat :
          /\ g + x <= e
          /\ \/ cipherin' = Span(file, IvLen, g - IvLen)
             \/ cipherin' = Span(file, IvLen, g - IvLen + x)
    BY <2>2 DEF Refused
  <2>4. S!Due(fed + n) = e - IvLen
    <3> DEFINE h == fed + n
    <3>1. /\ h \in Nat /\ IvLen <= h
          /\ r = IF h - IvLen <= MdLen THEN h - IvLen ELSE MdLen
      BY <1>1, <2>1, <2>2
    <3> HIDE DEF h
    <3>2. S!Due(h) = h - r - IvLen
      BY <3>1, DueOfWindow
    <3>3. r \in Int /\ e = h - r
      BY <1>1, <2>1, <2>2 DEF h, e
    <3> QED BY <3>2, <3>3 DEF h
  <2>5. g - IvLen \in Nat /\ g - IvLen + x \in Nat
    BY <1>1, <2>1
  <2>6. Len(cipherin) = g - IvLen
    BY <2>1, <2>5, SpanLen, Zenon
  <2>7. e \in Int /\ g \in Int
    BY <1>1, <2>1, <2>2
  <2> HIDE DEF g, e
  <2>8. /\ Len(cipherin) \in Nat /\ Len(cipherin) <= g - IvLen
        /\ Len(cipherin) <= g - IvLen + x
        /\ g - IvLen <= S!Due(fed + n) /\ g - IvLen + x <= S!Due(fed + n)
    BY <2>3, <2>4, <2>5, <2>6, <2>7
  <2>9. CASE cipherin' = Span(file, IvLen, g - IvLen)
    BY <1>1, <1>2, <2>5, <2>8, <2>9, AbortStep, Zenon
  <2>10. CASE cipherin' = Span(file, IvLen, g - IvLen + x)
    BY <1>1, <1>2, <2>5, <2>8, <2>10, AbortStep, Zenon
  <2> QED BY <2>3, <2>9, <2>10
<1> QED BY <1>3, <1>4

\* crypto_decrypt_final judges, or the cipher gives up on the padding.
LEMMA JudgeStep ==
  ASSUME IInv, IInv', Final
  PROVE  S!Judge \/ S!Abort(0)
<1>1. /\ phase = "open" /\ UNCHANGED <<file, fed, cipherin>>
      /\ verdict = "open" /\ verdict' \in {"accepted", "rejected", "failed"}
      /\ fed \in Nat /\ VerdictIsSound'
  BY OpenContext DEF Final, FinalTooShort, FinalMismatch, FinalMatch, IInv, InvDone
<1>2. S!Span(file, 0, fed) = Span(file, 0, fed)
  BY DEF S!Span, Span
<1>3. CASE verdict' = "accepted"
  BY <1>1, <1>2, <1>3 DEF S!Judge, VerdictIsSound
<1>4. CASE verdict' = "rejected"
  BY <1>1, <1>2, <1>4 DEF S!Judge, VerdictIsSound
<1>5. CASE verdict' = "failed"
  <2> DEFINE p == S!Due(fed)
  <2>1. cipherin = Span(file, IvLen, p) /\ p \in Nat
    <3>1. CASE state = 0
      <4>1. fed < IvLen /\ cipherin = Span(file, IvLen, 0)
        BY <1>1, <3>1, OpenContext DEF IInv, InvIv
      <4>2. p = 0
        BY <1>1, <4>1 DEF S!Due
      <4> QED BY <4>1, <4>2
    <3>2. CASE state = 1
      <4>1. /\ IvLen <= fed /\ cipherin = Span(file, IvLen, fed - count - IvLen)
            /\ count = IF fed - IvLen <= MdLen THEN fed - IvLen ELSE MdLen
        BY <1>1, <3>2 DEF IInv, InvBody
      <4>2. p = fed - count - IvLen /\ p \in Nat
        BY <1>1, <4>1, DueOfWindow
      <4> QED BY <4>1, <4>2
    <3> QED BY <3>1, <3>2 DEF IInv, TypeOK
  <2>2. Len(cipherin) = p
    BY <2>1, SpanLen, Zenon
  <2>3. fed + 0 = fed
    BY <1>1
  <2>4. S!Due(fed + 0) = p
    BY <2>3
  <2> HIDE DEF p
  <2>5. /\ Len(cipherin) \in Nat /\ Len(cipherin) <= p /\ p <= S!Due(fed + 0)
        /\ S!Due(fed + 0) \in Nat /\ 0 \in Nat /\ fed' = fed + 0 /\ file' = file
        /\ cipherin' = Span(file, IvLen, p)
    BY <1>1, <2>1, <2>2, <2>3, <2>4
  <2>6. S!Abort(0)
    BY <1>1, <1>5, <2>1, <2>5, AbortStep, Zenon
  <2> QED BY <2>6
<1> QED BY <1>1, <1>3, <1>4, <1>5

\* A call is a step of the stream or a stutter.
LEMMA StreamStep ==
  ASSUME IInv, IInv', [Next]_vars
  PROVE  [S!Next]_S!vars
<1>1. CASE DecryptInit
  BY <1>1 DEF DecryptInit, S!vars
<1>2. CASE Update
  <2>1. PICK n \in 0 .. Len(file) - fed :
          \/ CollectIv(n) \/ CompleteIv(n) \/ Absorb(n)
          \/ CipherInitFails(n) \/ CompleteIvFails(n) \/ AbsorbFails(n)
    BY <1>2 DEF Update
  <2>2. n \in Nat
    BY FileType DEF IInv, TypeOK
  <2>3. CASE CollectIv(n) \/ CompleteIv(n) \/ Absorb(n)
    <3>1. phase = "open" /\ phase' = "open" /\ file' = file /\ fed' = fed + n
      BY <2>3 DEF CollectIv, CompleteIv, Absorb
    <3>2. S!Feed(n)
      BY <2>2, <3>1, FeedStep
    <3> QED BY <3>2 DEF S!Next
  <2>4. CASE CipherInitFails(n) \/ CompleteIvFails(n) \/ AbsorbFails(n)
    <3>1. S!Abort(n)
      BY <2>4, FailStep
    <3> QED BY <3>1 DEF S!Next
  <2> QED BY <2>1, <2>3, <2>4
<1>3. CASE Final
  <2>1. 0 \in 0 .. Len(file) - fed
    BY FileType DEF IInv, TypeOK
  <2>2. S!Judge \/ S!Abort(0)
    BY <1>3, JudgeStep
  <2> QED BY <2>1, <2>2 DEF S!Next
<1>4. CASE CtxClear
  BY <1>4 DEF CtxClear, S!vars
<1>5. CASE UNCHANGED vars
  BY <1>5 DEF vars, S!vars
<1> QED BY <1>1, <1>2, <1>3, <1>4, <1>5 DEF Next

\* Chunks of any size, and any failure of OpenSSL: the callers of crypto.c see
\* the stream that SealedStream describes.
THEOREM Implementation == Spec => Refines
<1>1. Init => S!Init
  BY DEF Init, S!Init
<1>2. IInv /\ IInv' /\ [Next]_vars => [S!Next]_S!vars
  BY StreamStep
<1> QED BY <1>1, <1>2, Invariance, PTL DEF Spec, Refines, S!Spec
-----------------------------------------------------------------------------
(***************************************************************************)
(* What the refinement says about the block cipher, as an invariant: the   *)
(* steps of SealedStream decide what it has got.                           *)
(***************************************************************************)

\* A context that has not been used has deciphered nothing.
LEMMA DueAtStart ==
  ASSUME fed = 0, cipherin = <<>>, verdict = "open"
  PROVE  DueDeciphered
<1>1. S!Due(fed) = 0
  BY DEF S!Due
<1>2. cipherin = Span(file, IvLen, 0)
  BY SpanEmpty
<1> QED BY <1>1, <1>2 DEF DueDeciphered

\* No file is accepted before its IV is in the cipher.
LEMMA AcceptedIsKeyed ==
  ASSUME IInv, DueDeciphered, [Next]_vars, verdict' = "accepted"
  PROVE  (cipher = [key |-> Key, iv |-> FileIv])'
<1>1. CASE FinalMatch
  <2>1. phase = "open" /\ count = MdLen /\ UNCHANGED <<file, cipher>>
    BY <1>1 DEF FinalMatch
  <2>2. state = 1
    BY <2>1 DEF IInv, TypeOK, InvIv
  <2> QED BY <2>1, <2>2 DEF IInv, InvBody, FileIv
<1>2. CASE UNCHANGED <<file, cipher, verdict>>
  BY <1>2 DEF DueDeciphered, FileIv
<1>3. FinalMatch \/ UNCHANGED <<file, cipher, verdict>>
  <2>1. CASE DecryptInit
    BY <2>1 DEF DecryptInit
  <2>2. CASE Update
    <3>1. PICK n \in 0 .. Len(file) - fed :
            \/ CollectIv(n) \/ CompleteIv(n) \/ Absorb(n)
            \/ CipherInitFails(n) \/ CompleteIvFails(n) \/ AbsorbFails(n)
      BY <2>2 DEF Update
    <3>2. phase = "open" /\ verdict = "open"
      BY <3>1, OpenContext DEF CollectIv, CompleteIv, Absorb, CipherInitFails,
         CompleteIvFails, AbsorbFails
    <3>3. verdict' \in {verdict, "failed"}
      BY <3>1 DEF CollectIv, CompleteIv, Absorb, CipherInitFails, CompleteIvFails,
         AbsorbFails
    <3> QED BY <3>2, <3>3
  <2>3. CASE Final
    BY <2>3 DEF Final, FinalTooShort, FinalMismatch
  <2>4. CASE CtxClear
    BY <2>4 DEF CtxClear
  <2>5. CASE UNCHANGED vars
    BY <2>5 DEF vars
  <2> QED BY <2>1, <2>2, <2>3, <2>4, <2>5 DEF Next
<1> QED BY <1>1, <1>2, <1>3

\* What is due is a length, ...
LEMMA DueIsLength == ASSUME NEW f \in Nat PROVE S!Due(f) \in Nat
BY DEF S!Due

\* ... and what the stream's steps hand over is what is due.
LEMMA DueStep ==
  ASSUME IInv, IInv', DueDeciphered, [Next]_vars
  PROVE  DueDeciphered'
<1>1. verdict' = "accepted" => (cipher = [key |-> Key, iv |-> FileIv])'
  BY AcceptedIsKeyed
<1>2. fed \in Nat /\ fed' \in Nat
  BY DEF IInv, TypeOK
<1>3. S!Due(fed) \in Nat /\ S!Due(fed') \in Nat
  BY <1>2, DueIsLength
<1> DEFINE Got(k) == cipherin' = Span(file', IvLen, k)
<1>4. /\ \E k \in 0 .. S!Due(fed') : Got(k)
      /\ verdict' # "failed" => Got(S!Due(fed'))
  <2>1. CASE \E n \in 0 .. Len(file) - fed : S!Feed(n)
    <3>1. Got(S!Due(fed'))
      BY <2>1 DEF S!Feed, S!Span, Span
    <3> QED BY <1>3, <3>1
  <2>2. CASE \E n \in 0 .. Len(file) - fed : S!Abort(n)
    <3>1. PICK n \in 0 .. Len(file) - fed : S!Abort(n)
      BY <2>2
    <3>2. verdict' = "failed" /\ file' = file /\ fed' = fed + n
      BY <3>1 DEF S!Abort
    <3>3. PICK k \in Len(cipherin) .. S!Due(fed + n) : cipherin' = S!Span(file, IvLen, k)
      BY <3>1 DEF S!Abort
    <3>4. Len(cipherin) \in Nat
      BY DEF IInv, TypeOK
    <3>5. k \in 0 .. S!Due(fed')
      BY <1>3, <3>2, <3>3, <3>4
    <3>6. Got(k)
      BY <3>2, <3>3 DEF S!Span, Span
    <3> QED BY <3>2, <3>5, <3>6
  <2>3. CASE S!Judge \/ UNCHANGED S!vars
    <3>1. UNCHANGED <<file, fed, cipherin>> /\ (verdict = "failed" => verdict' = "failed")
      BY <2>3 DEF S!Judge, S!vars
    <3> QED BY <3>1 DEF DueDeciphered
  <2> QED BY <2>1, <2>2, <2>3, StreamStep DEF S!Next
<1> QED BY <1>1, <1>4 DEF DueDeciphered

\* However a file is cut, the cipher never gets a byte of the MAC, and of an
\* accepted file it has got every byte before it.
THEOREM AlwaysDueDeciphered == Spec => []DueDeciphered
<1>1. Init => DueDeciphered
  BY DueAtStart DEF Init
<1>2. IInv /\ IInv' /\ DueDeciphered /\ [Next]_vars => DueDeciphered'
  BY DueStep
<1> QED BY <1>1, <1>2, Invariance, PTL DEF Spec
=============================================================================
