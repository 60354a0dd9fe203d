------------------------- MODULE FormatStream_proofs -------------------------
(***************************************************************************)
(* That success in FormatStream means what it says, for any ids, any       *)
(* number of recipients, any length of W and whatever line is lost.        *)
(***************************************************************************)
EXTENDS FormatStream, SequenceTheorems, TLAPS

USE PiecesAssumption, MaxToAssumption
-----------------------------------------------------------------------------
\* The k-th line of the entries belongs to recipient ((k - 1) \div 5) + 1.
LEMMA Places ==
  ASSUME NEW n \in Nat, NEW k \in 1 .. 5 * n
  PROVE  /\ ((k - 1) \div 5) + 1 \in 1 .. n
         /\ ((k - 1) % 5) + 1 \in 1 .. 5
  OBVIOUS

\* The lines behind the second line of an entry are of the same entry.
LEMMA Neighbours ==
  ASSUME NEW n \in Nat, NEW k \in 1 .. 5 * n, ((k - 1) % 5) + 1 = 2
  PROVE  /\ k + 3 \in 1 .. 5 * n
         /\ \A j \in 1 .. 3 : /\ ((k + j - 1) \div 5) + 1 = ((k - 1) \div 5) + 1
                              /\ ((k + j - 1) % 5) + 1 = 2 + j
  OBVIOUS

\* The lines of an entry.
LEMMA EntryLines ==
  ASSUME NEW i \in Ids
  PROVE  /\ Entry(i) \in Seq(Line) /\ Len(Entry(i)) = 5
         /\ Entry(i)[1] = Tag("ID:") /\ Entry(i)[2] = Data("id", i)
         /\ Entry(i)[3] = Tag("V:") /\ Entry(i)[4] = Data("V", i)
         /\ Entry(i)[5] = Blank
  BY DEF Entry, Tag, Data, Blank, Line

LEMMA EntriesLines ==
  ASSUME NEW to \in Seq(Ids)
  PROVE  /\ Entries(to) \in Seq(Line) /\ Len(Entries(to)) = 5 * Len(to)
         /\ \A k \in 1 .. 5 * Len(to) :
              Entries(to)[k] = Entry(to[((k - 1) \div 5) + 1])[((k - 1) % 5) + 1]
  <1>1. \A k \in 1 .. 5 * Len(to) :
          Entry(to[((k - 1) \div 5) + 1])[((k - 1) % 5) + 1] \in Line
    <2> TAKE k \in 1 .. 5 * Len(to)
    <2>1. Len(to) \in Nat BY LenProperties
    <2>2. /\ ((k - 1) \div 5) + 1 \in 1 .. Len(to)
          /\ ((k - 1) % 5) + 1 \in 1 .. 5
      BY <2>1, Places
    <2>3. to[((k - 1) \div 5) + 1] \in Ids BY <2>2, ElementOfSeq
    <2> QED BY <2>2, <2>3, EntryLines, ElementOfSeq
  <1>2. 5 * Len(to) \in Nat BY LenProperties
  <1> QED BY <1>1, <1>2 DEF Entries

\* u consists of the n lines of s and, behind them, the m lines of t.
Joins(u, s, n, t, m) ==
  /\ u \in Seq(Line) /\ Len(u) = n + m
  /\ \A k \in 1 .. n : u[k] = s[k]
  /\ \A k \in n + 1 .. n + m : u[k] = t[k - n]

LEMMA Joined ==
  ASSUME NEW s \in Seq(Line), NEW t \in Seq(Line), NEW n \in Nat, NEW m \in Nat,
         Len(s) = n, Len(t) = m
  PROVE  Joins(s \o t, s, n, t, m)
  <1>1. /\ s \o t \in Seq(Line) /\ Len(s \o t) = Len(s) + Len(t)
        /\ \A i \in 1 .. Len(s) + Len(t) :
             (s \o t)[i] = IF i <= Len(s) THEN s[i] ELSE t[i - Len(s)]
    BY ConcatProperties
  <1> QED BY <1>1 DEF Joins

LEMMA HeaderLines ==
  /\ Header \in Seq(Line) /\ Len(Header) = 4
  /\ \A k \in 1 .. 4 : Header[k].is \notin {"id", "V"}
  BY DEF Header, Tag, Data, Blank, Line

LEMMA BodyLines ==
  /\ Body \in Seq(Line) /\ Len(Body) = Pieces + 3
  /\ \A k \in 1 .. Pieces + 3 : Body[k].is \notin {"id", "V"}
  <1> DEFINE W    == [k \in 1 .. Pieces |-> Data("W", k)]
             Tail2 == <<Blank, Tag("END")>>
             Head1 == <<Tag("W:")>>
  <1>1. W \in Seq(Line) /\ Len(W) = Pieces /\ \A k \in 1 .. Pieces : W[k].is = "W"
    BY DEF Data, Line
  <1>2. Tail2 \in Seq(Line) /\ Len(Tail2) = 2 /\ \A k \in 1 .. 2 : Tail2[k].is \in {"blank", "END"}
    BY DEF Blank, Tag, Line
  <1>3. Head1 \in Seq(Line) /\ Len(Head1) = 1 /\ Head1[1].is = "W:"
    BY DEF Tag, Line
  <1>4. Body = (Head1 \o W) \o Tail2 BY DEF Body
  <1> HIDE DEF W, Tail2, Head1
  <1> DEFINE HW == Head1 \o W
  <1>5. Joins(HW, Head1, 1, W, Pieces)
    <2>1. 1 \in Nat /\ Pieces \in Nat OBVIOUS
    <2> QED BY <1>1, <1>3, <2>1, Joined, Zenon
  <1> HIDE DEF HW
  <1>6. /\ HW \in Seq(Line) /\ Len(HW) = Pieces + 1
        /\ \A k \in 1 .. Pieces + 1 : HW[k].is \in {"W:", "W"}
    <2>1. \A k \in 2 .. Pieces + 1 : HW[k] = W[k - 1] BY <1>5 DEF Joins
    <2>2. HW[1].is = "W:" BY <1>3, <1>5 DEF Joins
    <2>3. \A k \in 2 .. Pieces + 1 : HW[k].is = "W" BY <1>1, <2>1
    <2>4. HW \in Seq(Line) /\ Len(HW) = Pieces + 1 BY <1>5 DEF Joins
    <2> QED BY <2>2, <2>3, <2>4
  <1>7. Joins(HW \o Tail2, HW, Pieces + 1, Tail2, 2)
    <2>1. Pieces + 1 \in Nat /\ 2 \in Nat OBVIOUS
    <2> QED BY <1>2, <1>6, <2>1, Joined, Zenon
  <1>8. Body = HW \o Tail2 BY <1>4 DEF HW
  <1>9. ASSUME NEW k \in 1 .. Pieces + 3
        PROVE  Body[k].is \in {"W:", "W", "blank", "END"}
    <2>1. CASE k \in 1 .. Pieces + 1
      <3>1. Body[k] = HW[k] BY <1>7, <1>8, <2>1 DEF Joins
      <3> QED BY <1>6, <2>1, <3>1
    <2>2. CASE k \in Pieces + 2 .. Pieces + 3
      <3>1. Body[k] = Tail2[k - (Pieces + 1)] /\ k - (Pieces + 1) \in 1 .. 2
        BY <1>7, <1>8, <2>2 DEF Joins
      <3> QED BY <1>2, <3>1
    <2> QED BY <2>1, <2>2
  <1>10. Body \in Seq(Line) /\ Len(Body) = Pieces + 3 BY <1>7, <1>8 DEF Joins
  <1> QED BY <1>9, <1>10

LEMMA MessageLines ==
  ASSUME NEW to \in Seq(Ids)
  PROVE  /\ MessageFor(to) \in Seq(Line)
         /\ Len(MessageFor(to)) = 4 + 5 * Len(to) + Pieces + 3
         /\ \A p \in 1 .. Len(MessageFor(to)) :
              IF p \in 5 .. 4 + 5 * Len(to)
                THEN MessageFor(to)[p] = Entries(to)[p - 4]
                ELSE MessageFor(to)[p].is \notin {"id", "V"}
  <1> DEFINE E == Entries(to)
             HE == Header \o E
  <1>1. E \in Seq(Line) /\ Len(E) = 5 * Len(to) /\ Len(to) \in Nat
    BY EntriesLines, LenProperties
  <1>2. MessageFor(to) = HE \o Body BY DEF MessageFor
  <1> HIDE DEF E
  <1> DEFINE e == 5 * Len(to)
             b == Pieces + 3
  <1>n. e \in Nat /\ b \in Nat /\ 4 \in Nat /\ 4 + e \in Nat /\ Len(E) = e BY <1>1
  <1>3. Joins(HE, Header, 4, E, e)
    <2> HIDE DEF e, b
    <2> QED BY <1>1, <1>n, HeaderLines, Joined, Zenon
  <1> HIDE DEF HE
  <1>4. Joins(HE \o Body, HE, 4 + e, Body, b)
    <2>1. HE \in Seq(Line) /\ Len(HE) = 4 + e BY <1>3 DEF Joins
    <2>2. Body \in Seq(Line) /\ Len(Body) = b BY BodyLines
    <2> HIDE DEF e, b
    <2> QED BY <1>n, <2>1, <2>2, Joined, Zenon
  <1>5. ASSUME NEW p \in 1 .. 4 + 5 * Len(to) + Pieces + 3
        PROVE  IF p \in 5 .. 4 + 5 * Len(to)
                 THEN MessageFor(to)[p] = E[p - 4]
                 ELSE MessageFor(to)[p].is \notin {"id", "V"}
    <2> HIDE DEF e
    <2>1. CASE p \in 5 .. 4 + 5 * Len(to)
      <3>1. MessageFor(to)[p] = HE[p] BY <1>2, <1>4, <1>n, <2>1 DEF Joins, e
      <3>2. HE[p] = E[p - 4] BY <1>3, <1>n, <2>1 DEF Joins, e
      <3> QED BY <2>1, <3>1, <3>2
    <2>2. CASE p \in 1 .. 4
      <3>1. MessageFor(to)[p] = HE[p] BY <1>2, <1>4, <1>n, <2>2 DEF Joins
      <3>2. HE[p] = Header[p] BY <1>3, <2>2 DEF Joins
      <3> QED BY <2>2, <3>1, <3>2, HeaderLines
    <2>3. CASE p > 4 + 5 * Len(to)
      <3>1. /\ MessageFor(to)[p] = Body[p - (4 + e)]
            /\ p - (4 + e) \in 1 .. Pieces + 3
        BY <1>2, <1>4, <1>n, <2>3 DEF Joins, e
      <3> QED BY <1>n, <2>3, <3>1, BodyLines DEF e
    <2> QED BY <1>1, <2>1, <2>2, <2>3
  <1>6. MessageFor(to) \in Seq(Line) /\ Len(MessageFor(to)) = 4 + 5 * Len(to) + Pieces + 3
    BY <1>1, <1>2, <1>4 DEF Joins
  <1> QED BY <1>5, <1>6 DEF E

\* Where the lines of an entry that name somebody are.
LEMMA NamedInEntry ==
  ASSUME NEW i \in Ids, NEW r \in 1 .. 5, Entry(i)[r].is \in {"id", "V"}
  PROVE  Entry(i)[r].of = i /\ (Entry(i)[r].is = "id" => r = 2)
  <1>1. r \in {1, 2, 3, 4, 5} OBVIOUS
  <1>2. r # 1
    <2>1. Tag("ID:").is = "ID:" BY DEF Tag
    <2> QED BY <2>1, EntryLines
  <1>3. r # 3
    <2>1. Tag("V:").is = "V:" BY DEF Tag
    <2> QED BY <2>1, EntryLines
  <1>4. r # 5
    <2>1. Blank.is = "blank" BY DEF Blank, Tag
    <2> QED BY <2>1, EntryLines
  <1>5. CASE r = 2
    <2>1. Data("id", i).of = i BY DEF Data
    <2> QED BY <1>5, <2>1, EntryLines
  <1>6. CASE r = 4
    <2>1. Data("V", i).of = i /\ Data("V", i).is = "V" BY DEF Data
    <2> QED BY <1>6, <2>1, EntryLines
  <1> QED BY <1>1, <1>2, <1>3, <1>4, <1>5, <1>6

\* Whoever an id line or a V line names is a recipient.
LEMMA NamesRecipient ==
  ASSUME NEW to \in Seq(Ids), NEW p \in DOMAIN MessageFor(to),
         MessageFor(to)[p].is \in {"id", "V"}
  PROVE  MessageFor(to)[p].of \in Range(to)
  <1> DEFINE k == p - 4
             i == ((k - 1) \div 5) + 1
             r == ((k - 1) % 5) + 1
  <1>1. Len(to) \in Nat /\ p \in 1 .. Len(MessageFor(to))
    BY MessageLines, LenProperties
  <1>2. p \in 5 .. 4 + 5 * Len(to) /\ MessageFor(to)[p] = Entries(to)[k]
    BY <1>1, MessageLines
  <1>3. k \in 1 .. 5 * Len(to) BY <1>1, <1>2
  <1>4. i \in 1 .. Len(to) /\ r \in 1 .. 5 BY <1>1, <1>3, Places
  <1>5. MessageFor(to)[p] = Entry(to[i])[r] BY <1>2, <1>3, EntriesLines
  <1> HIDE DEF i, r
  <1>6. to[i] \in Ids /\ to[i] \in Range(to)
    BY <1>4, ElementOfSeq, LenProperties DEF Range
  <1> QED BY <1>4, <1>5, <1>6, NamedInEntry

\* Behind an id line come the tag, the V for that id and a blank line.
LEMMA OwnEntry ==
  ASSUME NEW to \in Seq(Ids), NEW p \in DOMAIN MessageFor(to), NEW v,
         MessageFor(to)[p] = Data("id", v)
  PROVE  /\ p + 3 \in DOMAIN MessageFor(to)
         /\ MessageFor(to)[p + 1] = Tag("V:")
         /\ MessageFor(to)[p + 2] = Data("V", v)
         /\ MessageFor(to)[p + 3] = Blank
  <1> DEFINE k == p - 4
             i == ((k - 1) \div 5) + 1
             r == ((k - 1) % 5) + 1
  <1>1. /\ Len(to) \in Nat /\ p \in 1 .. Len(MessageFor(to))
        /\ Len(MessageFor(to)) = 4 + 5 * Len(to) + Pieces + 3
        /\ DOMAIN MessageFor(to) = 1 .. Len(MessageFor(to))
    BY MessageLines, LenProperties
  <1>2. p \in 5 .. 4 + 5 * Len(to) /\ MessageFor(to)[p] = Entries(to)[k]
    BY <1>1, MessageLines DEF Data
  <1>3. k \in 1 .. 5 * Len(to) BY <1>1, <1>2
  <1>4. i \in 1 .. Len(to) /\ r \in 1 .. 5 BY <1>1, <1>3, Places
  <1>5. MessageFor(to)[p] = Entry(to[i])[r] BY <1>2, <1>3, EntriesLines
  <1>6. to[i] \in Ids BY <1>4, ElementOfSeq
  <1>7. r = 2 /\ v = to[i]
    <2> HIDE DEF i, r
    <2>1. Entry(to[i])[r].is = "id" /\ Entry(to[i])[r].of = v BY <1>5 DEF Data
    <2> QED BY <1>4, <1>6, <2>1, NamedInEntry
  <1>8. /\ k + 3 \in 1 .. 5 * Len(to)
        /\ \A j \in 1 .. 3 : /\ ((k + j - 1) \div 5) + 1 = i
                             /\ ((k + j - 1) % 5) + 1 = 2 + j
    BY <1>1, <1>3, <1>7, Neighbours
  <1> HIDE DEF i, r
  <1>k. k = p - 4 OBVIOUS
  <1> HIDE DEF k
  <1>9. ASSUME NEW j \in 1 .. 3
        PROVE  MessageFor(to)[p + j] = Entry(v)[2 + j]
    <2>1. k + j \in 1 .. 5 * Len(to) /\ k + j - 1 \in Int BY <1>1, <1>3, <1>8
    <2>2. Entries(to)[k + j] = Entry(to[i])[2 + j]
      <3>0. \A x \in 1 .. 5 * Len(to) :
              Entries(to)[x] = Entry(to[((x - 1) \div 5) + 1])[((x - 1) % 5) + 1]
        BY EntriesLines
      <3> DEFINE x == k + j
      <3>a. ((k + j - 1) \div 5) + 1 = i /\ ((k + j - 1) % 5) + 1 = 2 + j BY <1>8
      <3>b. x \in 1 .. 5 * Len(to) /\ x - 1 = k + j - 1 BY <1>1, <1>k, <2>1
      <3> HIDE DEF x
      <3>1. /\ x \in 1 .. 5 * Len(to)
            /\ ((x - 1) \div 5) + 1 = i /\ ((x - 1) % 5) + 1 = 2 + j
        BY <3>a, <3>b, Zenon
      <3> DEFINE y == ((x - 1) \div 5) + 1
                 z == ((x - 1) % 5) + 1
      <3>2. Entries(to)[x] = Entry(to[y])[z] BY <3>0, <3>1
      <3>3. y = i /\ z = 2 + j BY <3>1
      <3> HIDE DEF y, z
      <3>4. Entries(to)[x] = Entry(to[i])[2 + j] BY <3>2, <3>3, Zenon
      <3> QED BY <3>4 DEF x
    <2>3. /\ p + j \in 1 .. Len(MessageFor(to)) /\ p + j \in 5 .. 4 + 5 * Len(to)
          /\ p + j - 4 = k + j
      <3>1. k \in 1 .. 5 * Len(to) /\ k + j <= 5 * Len(to) BY <1>3, <2>1, <1>k
      <3>2. k \in Int /\ p \in Int /\ p + j - 4 = k + j BY <1>1, <1>k
      <3> DEFINE e == 5 * Len(to)
      <3>3. e \in Nat /\ Len(MessageFor(to)) = 4 + e + Pieces + 3 BY <1>1
      <3> HIDE DEF e
      <3>4. k >= 1 /\ k + j <= e BY <3>1 DEF e
      <3>5. p = k + 4 BY <1>1, <1>k
      <3>6. p + j \in 5 .. 4 + e /\ p + j <= Len(MessageFor(to))
        BY <3>2, <3>3, <3>4, <3>5
      <3>7. p + j \in 1 .. Len(MessageFor(to)) BY <3>3, <3>6
      <3> QED BY <3>2, <3>6, <3>7 DEF e
    <2>4. MessageFor(to)[p + j] = Entries(to)[p + j - 4]
      BY <2>3, MessageLines
    <2> QED BY <2>2, <2>3, <2>4, <1>7
  <1>10. p + 3 \in DOMAIN MessageFor(to)
    <2>1. k + 3 <= 5 * Len(to) BY <1>1, <1>8
    <2>2. k + 3 >= 1 BY <1>1, <1>8
    <2>3. p + 3 \in 1 .. Len(MessageFor(to)) BY <1>1, <1>k, <2>1, <2>2
    <2> QED BY <1>1, <2>3
  <1>11. v \in Ids BY <1>6, <1>7
  <1>12. /\ MessageFor(to)[p + 1] = Entry(v)[3]
         /\ MessageFor(to)[p + 2] = Entry(v)[4]
         /\ MessageFor(to)[p + 3] = Entry(v)[5]
    <2>1. 1 \in 1 .. 3 /\ 2 \in 1 .. 3 /\ 3 \in 1 .. 3 OBVIOUS
    <2>2. 2 + 1 = 3 /\ 2 + 2 = 4 /\ 2 + 3 = 5 OBVIOUS
    <2> QED BY <1>9, <2>1, <2>2
  <1> QED BY <1>10, <1>11, <1>12, EntryLines

\* What the reader gets has only lines of the message.
LEMMA Survives ==
  ASSUME NEW m \in Seq(Line), NEW f \in Damaged(m)
  PROVE  /\ f \in Seq(Line)
         /\ \A p \in DOMAIN f : \E q \in DOMAIN m : f[p] = m[q]
  <1>1. Len(m) \in Nat /\ DOMAIN m = 1 .. Len(m) /\ \A q \in 1 .. Len(m) : m[q] \in Line
    BY LenProperties, ElementOfSeq
  <1>2. ASSUME NEW x \in Int, NEW y \in Int, x >= 1, y <= Len(m)
        PROVE  /\ SubSeq(m, x, y) \in Seq(Line)
               /\ \A p \in DOMAIN SubSeq(m, x, y) :
                    \E q \in DOMAIN m : SubSeq(m, x, y)[p] = m[q]
    <2>1. \A q \in x .. y : m[q] \in Line BY <1>1, <1>2
    <2>2. /\ SubSeq(m, x, y) \in Seq(Line)
          /\ Len(SubSeq(m, x, y)) = IF x <= y THEN y - x + 1 ELSE 0
          /\ \A p \in 1 .. y - x + 1 : SubSeq(m, x, y)[p] = m[x + p - 1]
      BY <2>1, SubSeqProperties
    <2>3. ASSUME NEW p \in DOMAIN SubSeq(m, x, y)
          PROVE  \E q \in DOMAIN m : SubSeq(m, x, y)[p] = m[q]
      <3>1. p \in 1 .. y - x + 1 BY <2>2, LenProperties
      <3>2. x + p - 1 \in DOMAIN m BY <3>1, <1>1, <1>2
      <3> QED BY <2>2, <3>1, <3>2
    <2> QED BY <2>2, <2>3
  <1>3. CASE \E k \in 0 .. Len(m) : f = SubSeq(m, 1, k)
    <2>1. PICK k \in 0 .. Len(m) : f = SubSeq(m, 1, k) BY <1>3
    <2> QED BY <1>1, <1>2, <2>1
  <1>4. CASE \E k \in DOMAIN m : f = RemoveAt(m, k)
    <2>1. PICK k \in DOMAIN m : f = RemoveAt(m, k) BY <1>4
    <2> DEFINE a == SubSeq(m, 1, k - 1)
               b == SubSeq(m, k + 1, Len(m))
    <2>k. k - 1 \in Int /\ k + 1 \in Int /\ k + 1 >= 1 /\ k - 1 <= Len(m) BY <1>1
    <2>a. /\ a \in Seq(Line)
          /\ \A p \in DOMAIN a : \E q \in DOMAIN m : a[p] = m[q]
      BY <1>1, <1>2, <2>k
    <2>b. /\ b \in Seq(Line)
          /\ \A p \in DOMAIN b : \E q \in DOMAIN m : b[p] = m[q]
      <3>1. Len(m) \in Int /\ Len(m) <= Len(m) BY <1>1
      <3> QED BY <1>2, <2>k, <3>1
    <2>2. /\ a \in Seq(Line) /\ b \in Seq(Line)
          /\ \A p \in DOMAIN a : \E q \in DOMAIN m : a[p] = m[q]
          /\ \A p \in DOMAIN b : \E q \in DOMAIN m : b[p] = m[q]
      BY <2>a, <2>b
    <2>3. f = a \o b BY <2>1 DEF RemoveAt
    <2> HIDE DEF a, b
    <2> DEFINE n == Len(a)
               l == Len(b)
    <2>4. /\ n \in Nat /\ l \in Nat
          /\ DOMAIN a = 1 .. n /\ DOMAIN b = 1 .. l
      BY <2>2, LenProperties
    <2>5. Joins(f, a, n, b, l) BY <2>2, <2>3, <2>4, Joined, Zenon
    <2>6. f \in Seq(Line) /\ DOMAIN f = 1 .. n + l
      BY <2>5, LenProperties DEF Joins
    <2> HIDE DEF n, l
    <2>7. ASSUME NEW p \in DOMAIN f
          PROVE  \E q \in DOMAIN m : f[p] = m[q]
      <3>1. CASE p \in 1 .. n
        <4>1. f[p] = a[p] /\ p \in DOMAIN a BY <3>1, <2>4, <2>5 DEF Joins
        <4> QED BY <4>1, <2>2
      <3>2. CASE p \in n + 1 .. n + l
        <4>1. f[p] = b[p - n] /\ p - n \in DOMAIN b BY <3>2, <2>4, <2>5 DEF Joins
        <4> QED BY <4>1, <2>2
      <3> QED BY <2>4, <2>6, <3>1, <3>2
    <2> QED BY <2>6, <2>7
  <1> QED BY <1>3, <1>4 DEF Damaged
-----------------------------------------------------------------------------
LEMMA InitInv == Init => FormatInv
  <1> SUFFICES ASSUME Init PROVE FormatInv OBVIOUS
  <1>1. ids \in Seq(Ids) BY DEF Init
  <1>2. MessageFor(ids) \in Seq(Line) BY <1>1, MessageLines
  <1>3. file \in Seq(Line) /\ Len(file) \in Nat
    BY <1>2, Survives, LenProperties DEF Init
  <1>4. TypeOK
    <2>1. Len(fed) = 0 /\ pos = 0 BY DEF Init
    <2>2. pos \in 0 .. Len(file) /\ Len(fed) <= MaxFed BY <1>3, <2>1
    <2>3. eof \in BOOLEAN /\ result \in {0, 1} /\ K = "unset" BY DEF Init
    <2> QED BY <2>2, <2>3 DEF Init, TypeOK
  <1>5. LinesTyped BY <1>3 DEF Init, LinesTyped, Junk, Blank, Tag, Line
  <1>6. Sent BY <1>1 DEF Init, Sent
  <1>7. CollectedV BY DEF Init, CollectedV
  <1>8. Named /\ Unlocked /\ Read BY DEF Init, Named, Unlocked, Read, Past
  <1>9. OwnV BY DEF Init, OwnV, Past
  <1> QED BY <1>4, <1>5, <1>6, <1>7, <1>8, <1>9 DEF FormatInv

\* What the invariant says of the file, the position in it and what was fed.
LEMMA Reading ==
  ASSUME FormatInv
  PROVE  /\ file \in Seq(Line) /\ Len(file) \in Nat /\ DOMAIN file = 1 .. Len(file)
         /\ pos \in Nat /\ pos <= Len(file)
         /\ fed \in Seq(Line) /\ Len(fed) \in Nat /\ DOMAIN fed = 1 .. Len(fed)
         /\ Len(fed) <= MaxFed
  <1>1. file \in Seq(Line) /\ fed \in Seq(Line) BY DEF FormatInv, LinesTyped
  <1>2. Len(file) \in Nat /\ Len(fed) \in Nat BY <1>1, LenProperties
  <1>3. pos \in 0 .. Len(file) /\ Len(fed) <= MaxFed BY DEF FormatInv, TypeOK
  <1> QED BY <1>1, <1>2, <1>3, LenProperties

LEMMA MoreToRead ==
  ASSUME FormatInv
  PROVE  ~ AtEnd <=> pos + 1 \in DOMAIN file
  <1>1. AtEnd <=> pos = Len(file) BY DEF AtEnd
  <1>2. pos # Len(file) <=> pos + 1 \in 1 .. Len(file) BY Reading
  <1> QED BY <1>1, <1>2, Reading

\* A line is read, or the end of the file is met.
LEMMA OneLineOn ==
  ASSUME FormatInv, UNCHANGED file,
         \/ AtEnd /\ eof' = TRUE /\ pos' = pos
         \/ ~ AtEnd /\ pos' = pos + 1 /\ eof' = eof
  PROVE  pos' \in 0 .. Len(file') /\ eof' \in BOOLEAN
  <1>1. pos' \in 0 .. Len(file')
    <2>1. CASE pos' = pos BY <2>1, Reading
    <2>2. CASE ~ AtEnd /\ pos' = pos + 1 BY <2>2, Reading DEF AtEnd
    <2> QED BY <2>1, <2>2
  <1>2. eof' \in BOOLEAN
    <2>1. eof \in BOOLEAN BY DEF FormatInv, TypeOK
    <2> QED BY <2>1
  <1> QED BY <1>1, <1>2

\* A step to a stage that is not in S, with nothing fed or returned.
LEMMA NotYet ==
  ASSUME NEW S, fed' = <<>>, result' = 0, stage' \notin S
  PROVE  ~ Past(S)'
  BY DEF Past

\* The places where the file is read on for a tag.
Ways == {<<"BEGIN", "begin", "to U">>, <<"U:", "to U", "U">>, <<"ID:", "to id", "id">>,
         <<"V:", "to V", "V">>, <<"W:", "to W", "W">>}

LEMMA AdvanceStep ==
  ASSUME FormatInv, NEW tag, NEW from, NEW to, <<tag, from, to>> \in Ways,
         AdvanceTo(tag, from, to)
  PROVE  FormatInv'
  <1> USE DEF FormatInv
  <1>1. /\ stage = from /\ stage' \in {from, to}
        /\ UNCHANGED <<ids, file, id, key, U, V, K, in, fed, result>>
    BY DEF AdvanceTo, inputs
  <1>2. /\ file \in Seq(Line) /\ Len(file) \in Nat /\ DOMAIN file = 1 .. Len(file)
        /\ pos \in Nat /\ pos <= Len(file)
    BY Reading
  <1>3. pos' \in 0 .. Len(file') /\ eof' \in BOOLEAN
    BY <1>1, OneLineOn DEF AdvanceTo
  <1>4. from \in {"begin", "to U", "to id", "to V", "to W"}
        /\ to \in {"to U", "U", "id", "V", "W"} BY DEF Ways
  <1>5. TypeOK' BY <1>1, <1>3, <1>4 DEF TypeOK
  <1>6. LinesTyped' BY <1>1 DEF LinesTyped
  <1>7. Sent' BY <1>1 DEF Sent
  <1>8. CollectedV' BY <1>1, <1>4 DEF CollectedV, Ways
  <1>9. Named' BY <1>1, <1>4 DEF Named, Past, Ways
  <1>10. Unlocked' BY <1>1, <1>4 DEF Unlocked, Past, Ways, Reveals
  <1>11. Read' BY <1>1, <1>4 DEF Read, Ways, Intact
  <1>12. OwnV'
    <2> SUFFICES ASSUME file = MessageFor(ids)
                 PROVE  /\ stage' = "to V" => pos' \in DOMAIN file /\ file[pos'] = Data("id", id)
                        /\ stage' = "V" =>
                             \/ pos' - 1 \in DOMAIN file /\ file[pos' - 1] = Data("id", id)
                                /\ V = <<>>
                             \/ /\ pos' - 2 \in DOMAIN file /\ file[pos' - 2] = Data("id", id)
                                /\ V = <<Data("V", id)>>
                        /\ Past({"reveal", "to W", "W", "final"})' => V = <<Data("V", id)>>
      BY <1>1 DEF OwnV
    <2>1. CASE from # "to V"
      <3>1. stage' \notin {"to V", "V"} BY <1>1, <2>1 DEF Ways
      <3>2. Past({"reveal", "to W", "W", "final"})' => Past({"reveal", "to W", "W", "final"})
        BY <1>1 DEF Past, Ways
      <3> QED BY <3>1, <3>2 DEF OwnV
    <2>2. CASE from = "to V"
      <3>1. tag = "V:" /\ to = "V" BY <2>2 DEF Ways
      <3>2. pos \in DOMAIN file /\ file[pos] = Data("id", id) BY <1>1, <2>2 DEF OwnV
      <3>3. pos + 3 \in DOMAIN file /\ file[pos + 1] = Tag("V:")
        BY <3>2, OwnEntry DEF Sent
      <3>4. pos' = pos + 1 /\ stage' = "V"
        <4>1. pos + 1 \in DOMAIN file BY <1>2, <3>2, <3>3
        <4>2. ~ AtEnd BY <4>1, MoreToRead
        <4>3. NextLine = Tag(tag) BY <3>1, <3>3 DEF NextLine
        <4> QED BY <3>1, <4>2, <4>3 DEF AdvanceTo
      <3>5. pos' - 1 = pos BY <1>2, <3>2, <3>4
      <3>6. V = <<>> BY <1>1, <2>2 DEF CollectedV
      <3>7. ~ Past({"reveal", "to W", "W", "final"})'
        <4>1. fed = <<>> /\ result = 0 BY <1>1, <2>2 DEF Read
        <4>2. fed' = <<>> /\ result' = 0 BY <1>1, <4>1
        <4> QED BY <3>4, <4>2 DEF Past
      <3> QED BY <3>2, <3>4, <3>5, <3>6, <3>7
    <2> QED BY <2>1, <2>2
  <1> QED BY <1>5, <1>6, <1>7, <1>8, <1>9, <1>10, <1>11, <1>12

\* mime_get for U and for V.
CollectU == MimeGet(U, "U", "to id") /\ UNCHANGED V
CollectV == MimeGet(V, "V", "reveal") /\ UNCHANGED U

LEMMA CollectUStep ==
  ASSUME FormatInv, CollectU
  PROVE  FormatInv'
  <1> USE DEF FormatInv
  <1>1. /\ stage = "U" /\ stage' \in {"U", "to id"}
        /\ UNCHANGED <<ids, file, id, key, V, K, in, fed, result>>
    BY DEF CollectU, MimeGet, inputs
  <1>2. /\ file \in Seq(Line) /\ Len(file) \in Nat /\ DOMAIN file = 1 .. Len(file)
        /\ pos \in Nat /\ pos <= Len(file)
    BY Reading
  <1>3. pos' \in 0 .. Len(file') /\ eof' \in BOOLEAN
    BY <1>1, OneLineOn DEF CollectU, MimeGet
  <1>4. \/ U' = U
        \/ pos + 1 \in DOMAIN file /\ U' = Append(U, file[pos + 1])
    <2>1. U' = U \/ (~ AtEnd /\ U' = Append(U, NextLine)) BY DEF CollectU, MimeGet
    <2>2. ~ AtEnd => pos + 1 \in DOMAIN file BY MoreToRead
    <2> QED BY <2>1, <2>2 DEF NextLine
  <1>5. U' \in Seq(Line)
    <2>1. U \in Seq(Line) BY DEF LinesTyped
    <2>2. CASE pos + 1 \in DOMAIN file /\ U' = Append(U, file[pos + 1])
      <3>1. file[pos + 1] \in Line BY <1>2, <2>2, ElementOfSeq
      <3>2. Append(U, file[pos + 1]) \in Seq(Line) BY <2>1, <3>1, AppendProperties
      <3> QED BY <2>2, <3>2
    <2> QED BY <1>4, <2>1, <2>2
  <1>6. TypeOK' BY <1>1, <1>3 DEF TypeOK
  <1>7. LinesTyped' BY <1>1, <1>5 DEF LinesTyped
  <1>8. Sent' BY <1>1 DEF Sent
  <1>9. CollectedV' BY <1>1 DEF CollectedV
  <1>10. fed = <<>> /\ result = 0 /\ fed' = <<>> /\ result' = 0
    <2>1. fed = <<>> /\ result = 0 BY <1>1 DEF Read
    <2> QED BY <1>1, <2>1
  <1>11. Named' /\ Unlocked'
    <2>1. /\ stage' \notin {"to V", "V", "reveal", "to W", "W", "final"}
          /\ stage' \notin {"to W", "W", "final"} BY <1>1
    <2>2. ~ Past({"to V", "V", "reveal", "to W", "W", "final"})' BY <1>10, <2>1, NotYet
    <2>3. ~ Past({"to W", "W", "final"})' BY <1>10, <2>1, NotYet
    <2> QED BY <2>2, <2>3, Zenon DEF Named, Unlocked
  <1>12. Read' BY <1>1, <1>10 DEF Read, Intact
  <1>13. OwnV' BY <1>1, <1>10 DEF OwnV, Past
  <1> QED BY <1>6, <1>7, <1>8, <1>9, <1>11, <1>12, <1>13

LEMMA CollectVStep ==
  ASSUME FormatInv, CollectV
  PROVE  FormatInv'
  <1> USE DEF FormatInv
  <1>1. /\ stage = "V" /\ stage' \in {"V", "reveal"}
        /\ UNCHANGED <<ids, file, id, key, U, K, in, fed, result>>
    BY DEF CollectV, MimeGet, inputs
  <1>2. /\ file \in Seq(Line) /\ Len(file) \in Nat /\ DOMAIN file = 1 .. Len(file)
        /\ pos \in Nat /\ pos <= Len(file)
    BY Reading
  <1>3. pos' \in 0 .. Len(file') /\ eof' \in BOOLEAN
    BY <1>1, OneLineOn DEF CollectV, MimeGet
  <1>4. \/ V' = V
        \/ pos + 1 \in DOMAIN file /\ V' = Append(V, file[pos + 1])
    <2>1. V' = V \/ (~ AtEnd /\ V' = Append(V, NextLine)) BY DEF CollectV, MimeGet
    <2>2. ~ AtEnd => pos + 1 \in DOMAIN file BY MoreToRead
    <2> QED BY <2>1, <2>2 DEF NextLine
  <1>5. V' \in Seq(Line)
    <2>1. V \in Seq(Line) BY DEF LinesTyped
    <2>2. CASE pos + 1 \in DOMAIN file /\ V' = Append(V, file[pos + 1])
      <3>1. file[pos + 1] \in Line BY <1>2, <2>2, ElementOfSeq
      <3>2. Append(V, file[pos + 1]) \in Seq(Line) BY <2>1, <3>1, AppendProperties
      <3> QED BY <2>2, <3>2
    <2> QED BY <1>4, <2>1, <2>2
  <1>6. TypeOK' BY <1>1, <1>3 DEF TypeOK
  <1>7. LinesTyped' BY <1>1, <1>5 DEF LinesTyped
  <1>8. Sent' BY <1>1 DEF Sent
  <1>9. CollectedV'
    <2>1. CASE V' = V BY <1>1, <2>1 DEF CollectedV
    <2>2. CASE pos + 1 \in DOMAIN file /\ V' = Append(V, file[pos + 1])
      <3>1. ASSUME NEW k \in DOMAIN V' PROVE \E p \in DOMAIN file : V'[k] = file[p]
        <4>1. (k \in DOMAIN V /\ V'[k] = V[k]) \/ V'[k] = file[pos + 1]
          BY <1>2, <2>2 DEF LinesTyped
        <4> QED BY <2>2, <4>1 DEF CollectedV
      <3> QED BY <1>1, <3>1 DEF CollectedV
    <2> QED BY <1>4, <2>1, <2>2
  <1>10. fed = <<>> /\ result = 0 /\ fed' = <<>> /\ result' = 0
    <2>1. fed = <<>> /\ result = 0 BY <1>1 DEF Read
    <2> QED BY <1>1, <2>1
  <1>11. Named' BY <1>1, <1>10 DEF Named, Past
  <1>12. Unlocked'
    <2>1. stage' \notin {"to W", "W", "final"} BY <1>1
    <2>2. ~ Past({"to W", "W", "final"})' BY <1>10, <2>1, NotYet
    <2> QED BY <2>2, Zenon DEF Unlocked
  <1>13. Read' BY <1>1, <1>10 DEF Read, Intact
  <1>14. OwnV'
    <2> SUFFICES ASSUME file = MessageFor(ids)
                 PROVE  /\ stage' = "V" =>
                             /\ pos' - 2 \in DOMAIN file /\ file[pos' - 2] = Data("id", id)
                             /\ V' = <<Data("V", id)>>
                        /\ stage' = "reveal" => V' = <<Data("V", id)>>
      BY <1>1, <1>10 DEF OwnV, Past
    <2>1. CASE pos - 1 \in DOMAIN file /\ file[pos - 1] = Data("id", id) /\ V = <<>>
      <3>1. /\ (pos - 1) + 3 \in DOMAIN file
            /\ file[(pos - 1) + 2] = Data("V", id)
        BY <2>1, OwnEntry DEF Sent
      <3>a. (pos - 1) + 2 = pos + 1 /\ (pos - 1) + 3 = pos + 2 BY <1>2
      <3>b. file[pos + 1] = Data("V", id) /\ pos + 2 \in DOMAIN file BY <3>1, <3>a, Zenon
      <3>2. pos + 1 \in DOMAIN file /\ file[pos + 1] = Data("V", id) /\ pos # Len(file)
        <4>1. pos + 2 \in 1 .. Len(file) BY <1>2, <3>b, Zenon
        <4>a. pos \in Nat /\ Len(file) \in Nat BY <1>2
        <4>2. pos + 1 \in 1 .. Len(file) /\ pos # Len(file) BY <4>a, <4>1
        <4> QED BY <1>2, <3>b, <4>2, Zenon
      <3>3. Data("V", id) # Blank BY DEF Data, Blank, Tag
      <3>4. pos' = pos + 1 /\ V' = Append(V, Data("V", id)) /\ stage' = stage
        BY <3>2, <3>3 DEF CollectV, MimeGet, AtEnd, NextLine
      <3>5. V' = <<Data("V", id)>> BY <2>1, <3>4
      <3>6. pos' - 2 = pos - 1 BY <1>2, <3>4
      <3> QED BY <1>1, <2>1, <3>4, <3>5, <3>6
    <2>2. CASE /\ pos - 2 \in DOMAIN file /\ file[pos - 2] = Data("id", id)
               /\ V = <<Data("V", id)>>
      <3>1. /\ (pos - 2) + 3 \in DOMAIN file
            /\ file[(pos - 2) + 3] = Blank
        BY <2>2, OwnEntry DEF Sent
      <3>a. (pos - 2) + 3 = pos + 1 BY <1>2
      <3>b. file[pos + 1] = Blank /\ pos + 1 \in DOMAIN file BY <3>1, <3>a, Zenon
      <3>2. pos + 1 \in DOMAIN file /\ file[pos + 1] = Blank /\ pos # Len(file)
        <4>1. pos + 1 \in 1 .. Len(file) /\ pos # Len(file)
          BY <1>2, <3>b, MoreToRead DEF AtEnd
        <4> QED BY <1>2, <3>b, <4>1
      <3>3. V' = V /\ stage' = "reveal"
        BY <3>2 DEF CollectV, MimeGet, AtEnd, NextLine
      <3> QED BY <2>2, <3>3
    <2> QED BY <1>1, <2>1, <2>2 DEF OwnV
  <1> QED BY <1>6, <1>7, <1>8, <1>9, <1>11, <1>12, <1>13, <1>14

\* Whoever a line of the file names is a recipient.
LEMMA NamesInFile ==
  ASSUME FormatInv, NEW p \in DOMAIN file, file[p].is \in {"id", "V"}
  PROVE  file[p].of \in Range(ids)
  <1>1. ids \in Seq(Ids) /\ file \in Damaged(MessageFor(ids)) BY DEF FormatInv, Sent
  <1>2. MessageFor(ids) \in Seq(Line) BY <1>1, MessageLines
  <1>3. PICK q \in DOMAIN MessageFor(ids) : file[p] = MessageFor(ids)[q]
    BY <1>1, <1>2, Survives
  <1> QED BY <1>1, <1>3, NamesRecipient

LEMMA CheckIdStep ==
  ASSUME FormatInv, CheckId
  PROVE  FormatInv'
  <1> USE DEF FormatInv
  <1>1. /\ stage = "id" /\ stage' \in {"done", "to id", "to V"}
        /\ UNCHANGED <<ids, file, id, key, U, V, K, in, fed, result>>
    BY DEF CheckId, inputs
  <1>2. /\ file \in Seq(Line) /\ Len(file) \in Nat /\ DOMAIN file = 1 .. Len(file)
        /\ pos \in Nat /\ pos <= Len(file)
    BY Reading
  <1>3. pos' \in 0 .. Len(file') /\ eof' \in BOOLEAN
    <2>1. CASE UNCHANGED <<pos, eof>>
      <3>1. pos \in 0 .. Len(file) BY DEF TypeOK
      <3>2. eof \in BOOLEAN BY DEF TypeOK
      <3>3. pos' = pos /\ eof' = eof /\ file' = file BY <1>1, <2>1
      <3> QED BY <3>1, <3>2, <3>3, Zenon
    <2>2. CASE \/ AtEnd /\ eof' = TRUE /\ pos' = pos
               \/ ~ AtEnd /\ pos' = pos + 1 /\ eof' = eof
      BY <1>1, <2>2, OneLineOn
    <2> QED BY <2>1, <2>2 DEF CheckId
  <1>4. stage' = "to V" =>
          pos' = pos + 1 /\ pos + 1 \in DOMAIN file /\ file[pos + 1] = Data("id", id)
    <2> SUFFICES ASSUME stage' = "to V"
                 PROVE  pos' = pos + 1 /\ ~ AtEnd /\ NextLine = Data("id", id)
      BY MoreToRead DEF NextLine
    <2> QED BY DEF CheckId
  <1>5. TypeOK' BY <1>1, <1>3 DEF TypeOK
  <1>6. LinesTyped' BY <1>1 DEF LinesTyped
  <1>7. Sent' BY <1>1 DEF Sent
  <1>8. CollectedV' BY <1>1 DEF CollectedV
  <1>9. fed = <<>> /\ result = 0 /\ fed' = <<>> /\ result' = 0
    <2>1. fed = <<>> /\ result = 0 BY <1>1 DEF Read
    <2> QED BY <1>1, <2>1
  <1>10. Named'
    <2>1. CASE stage' = "to V"
      <3>1. Data("id", id).is = "id" /\ Data("id", id).of = id BY DEF Data
      <3>2. id \in Range(ids) BY <1>4, <2>1, <3>1, NamesInFile
      <3> QED BY <1>1, <3>2 DEF Named
    <2>2. CASE stage' # "to V"
      <3>1. stage' \notin {"to V", "V", "reveal", "to W", "W", "final"} BY <1>1, <2>2
      <3>2. ~ Past({"to V", "V", "reveal", "to W", "W", "final"})' BY <1>9, <3>1, NotYet
      <3> QED BY <3>2, Zenon DEF Named
    <2> QED BY <2>1, <2>2
  <1>11. Unlocked'
    <2>1. stage' \notin {"to W", "W", "final"} BY <1>1
    <2>2. ~ Past({"to W", "W", "final"})' BY <1>9, <2>1, NotYet
    <2> QED BY <2>2, Zenon DEF Unlocked
  <1>12. Read' BY <1>1, <1>9 DEF Read, Intact
  <1>13. OwnV'
    <2>1. stage' \notin {"reveal", "to W", "W", "final"} /\ stage' # "V" BY <1>1
    <2>2. ~ Past({"reveal", "to W", "W", "final"})' BY <1>9, <2>1, NotYet
    <2>3. stage' = "to V" => pos' \in DOMAIN file' /\ file'[pos'] = Data("id", id')
      BY <1>1, <1>4
    <2> QED BY <2>1, <2>2, <2>3, Zenon DEF OwnV
  <1> QED BY <1>5, <1>6, <1>7, <1>8, <1>10, <1>11, <1>12, <1>13

LEMMA RevealStep ==
  ASSUME FormatInv, Reveal
  PROVE  FormatInv'
  <1> USE DEF FormatInv
  <1>1. /\ stage = "reveal" /\ stage' = "to W" /\ Reveals
        /\ UNCHANGED <<ids, file, id, key, pos, eof, U, V, in, fed, result>>
        /\ K' = "held"
    BY DEF Reveal, inputs
  <1>2. TypeOK' BY <1>1 DEF TypeOK
  <1>3. LinesTyped' BY <1>1 DEF LinesTyped
  <1>4. Sent' BY <1>1 DEF Sent
  <1>5. CollectedV' BY <1>1 DEF CollectedV
  <1>6. Named' BY <1>1 DEF Named, Past
  <1>7. Unlocked' BY <1>1 DEF Unlocked, Reveals
  <1>8. Read' BY <1>1 DEF Read, Intact
  <1>9. OwnV'
    <2>1. file = MessageFor(ids) => V = <<Data("V", id)>> BY <1>1 DEF OwnV, Past
    <2> QED BY <1>1, <2>1 DEF OwnV
  <1> QED BY <1>2, <1>3, <1>4, <1>5, <1>6, <1>7, <1>8, <1>9

LEMMA RevealFailsStep ==
  ASSUME FormatInv, RevealFails
  PROVE  FormatInv'
  <1> USE DEF FormatInv
  <1>1. /\ stage = "reveal" /\ stage' = "done"
        /\ UNCHANGED <<ids, file, id, key, pos, eof, U, V, in, fed, result>>
        /\ K' = "cleared twice"
    BY DEF RevealFails, Cleared, inputs
  <1>2. TypeOK' BY <1>1 DEF TypeOK
  <1>3. LinesTyped' BY <1>1 DEF LinesTyped
  <1>4. Sent' BY <1>1 DEF Sent
  <1>5. CollectedV' BY <1>1 DEF CollectedV
  <1>6. fed = <<>> /\ result = 0 /\ fed' = <<>> /\ result' = 0
    <2>1. fed = <<>> /\ result = 0 BY <1>1 DEF Read
    <2> QED BY <1>1, <2>1
  <1>7. Named' /\ Unlocked'
    <2>1. /\ stage' \notin {"to V", "V", "reveal", "to W", "W", "final"}
          /\ stage' \notin {"to W", "W", "final"} BY <1>1
    <2>2. ~ Past({"to V", "V", "reveal", "to W", "W", "final"})' BY <1>6, <2>1, NotYet
    <2>3. ~ Past({"to W", "W", "final"})' BY <1>6, <2>1, NotYet
    <2> QED BY <2>2, <2>3, Zenon DEF Named, Unlocked
  <1>8. Read' BY <1>1, <1>6 DEF Read, Intact
  <1>9. OwnV'
    <2>1. stage' \notin {"reveal", "to W", "W", "final"} /\ stage' \notin {"V", "to V"} BY <1>1
    <2>2. ~ Past({"reveal", "to W", "W", "final"})' BY <1>6, <2>1, NotYet
    <2> QED BY <2>1, <2>2 DEF OwnV
  <1> QED BY <1>2, <1>3, <1>4, <1>5, <1>7, <1>8, <1>9

\* What has been fed is a sequence of lines that is not too long.
LEMMA TakeKeeps ==
  ASSUME FormatInv, NEW line \in Line, Take(line)
  PROVE  /\ fed' \in Seq(Line) /\ Len(fed') <= MaxFed /\ in' \in Line
         /\ stage' = stage \/ stage' = "final"
  <1>1. fed \in Seq(Line) /\ Len(fed) \in Nat /\ Len(fed) <= MaxFed BY Reading
  <1>2. in' = line /\ (stage' = stage \/ stage' = "final") BY DEF Take
  <1>3. CASE fed' = Append(fed, line) /\ Len(fed) < MaxFed
    <2>1. fed' \in Seq(Line) /\ Len(fed') = Len(fed) + 1
      BY <1>1, <1>3, AppendProperties
    <2> QED BY <1>1, <1>2, <1>3, <2>1
  <1>4. CASE fed' = fed
    BY <1>1, <1>2, <1>4
  <1> QED BY <1>3, <1>4 DEF Take, Feed

\* A step of the loop over W.
LEMMA LoopStep ==
  ASSUME FormatInv, ReadW \/ ReadWAtEnd
  PROVE  FormatInv'
  <1> USE DEF FormatInv
  <1>1. PICK line \in Line : Take(line)
    <2>1. CASE ReadW
      <3>1. ~ AtEnd /\ Take(NextLine) BY <2>1 DEF ReadW
      <3>2. NextLine \in Line BY <3>1, Reading, MoreToRead, ElementOfSeq DEF NextLine
      <3> QED BY <3>1, <3>2
    <2>2. CASE ReadWAtEnd
      <3>1. in \in Line BY DEF LinesTyped
      <3> QED BY <2>2, <3>1 DEF ReadWAtEnd
    <2> QED BY <2>1, <2>2
  <1>2. /\ stage = "W" /\ stage' \in {"W", "final"}
        /\ UNCHANGED <<ids, file, id, key, U, V, K, result>>
    BY <1>1, TakeKeeps DEF ReadW, ReadWAtEnd, inputs
  <1>3. pos' \in 0 .. Len(file') /\ eof' \in BOOLEAN
    BY <1>2, OneLineOn DEF ReadW, ReadWAtEnd
  <1>4. fed' \in Seq(Line) /\ Len(fed') <= MaxFed /\ in' \in Line
    BY <1>1, TakeKeeps
  <1>5. TypeOK' BY <1>2, <1>3, <1>4 DEF TypeOK
  <1>6. LinesTyped' BY <1>2, <1>4 DEF LinesTyped
  <1>7. Sent' BY <1>2 DEF Sent
  <1>8. CollectedV' BY <1>2 DEF CollectedV
  <1>9. Named'
    <2>1. id \in Range(ids) BY <1>2 DEF Named, Past
    <2> QED BY <1>2, <2>1 DEF Named
  <1>10. Unlocked'
    <2>1. Reveals BY <1>2 DEF Unlocked, Past
    <2> QED BY <1>2, <2>1 DEF Unlocked, Reveals
  <1>11. Read'
    <2>1. result = 0 BY <1>2 DEF Read
    <2> QED BY <1>2, <2>1 DEF Read
  <1>12. OwnV'
    <2>1. file = MessageFor(ids) => V = <<Data("V", id)>> BY <1>2 DEF OwnV, Past
    <2> QED BY <1>2, <2>1 DEF OwnV
  <1> QED BY <1>5, <1>6, <1>7, <1>8, <1>9, <1>10, <1>11, <1>12

LEMMA FinalStep ==
  ASSUME FormatInv, Final
  PROVE  FormatInv'
  <1> USE DEF FormatInv
  <1>1. /\ stage = "final" /\ stage' = "done" /\ result' = IF Intact THEN 1 ELSE 0
        /\ UNCHANGED <<ids, file, id, key, pos, eof, U, V, in, fed>>
        /\ K' \in {"cleared", "cleared twice"}
    BY DEF Final, Cleared, inputs
  <1>2. result' \in {0, 1} /\ (result' = 1 => Intact')
    <2>1. result' \in {0, 1} /\ (result' = 1 => Intact)
      <3>1. CASE Intact BY <1>1, <3>1
      <3>2. CASE ~ Intact
        <4>1. result' = 0 BY <1>1, <3>2, Zenon
        <4> QED BY <4>1
      <3> QED BY <3>1, <3>2
    <2>2. fed' = fed BY <1>1
    <2> QED BY <2>1, <2>2 DEF Intact
  <1>3. TypeOK' BY <1>1, <1>2 DEF TypeOK
  <1>4. LinesTyped' BY <1>1 DEF LinesTyped
  <1>5. Sent' BY <1>1 DEF Sent
  <1>6. CollectedV' BY <1>1 DEF CollectedV
  <1>7. Named'
    <2>1. id \in Range(ids) BY <1>1 DEF Named, Past
    <2> QED BY <1>1, <2>1 DEF Named
  <1>8. Unlocked'
    <2>1. Reveals BY <1>1 DEF Unlocked, Past
    <2> QED BY <1>1, <2>1 DEF Unlocked, Reveals
  <1>9. Read' BY <1>1, <1>2 DEF Read
  <1>10. OwnV'
    <2>1. file = MessageFor(ids) => V = <<Data("V", id)>> BY <1>1 DEF OwnV, Past
    <2> QED BY <1>1, <2>1 DEF OwnV
  <1> QED BY <1>3, <1>4, <1>5, <1>6, <1>7, <1>8, <1>9, <1>10

\* A step that changes nothing the invariant speaks of.
LEMMA StutterStep ==
  ASSUME FormatInv, UNCHANGED vars
  PROVE  FormatInv'
  <1> USE DEF FormatInv, vars
  <1>1. TypeOK' BY DEF TypeOK
  <1>2. LinesTyped' BY DEF LinesTyped
  <1>3. Sent' BY DEF Sent
  <1>4. CollectedV' BY DEF CollectedV
  <1>5. Named' BY DEF Named, Past
  <1>6. Unlocked' BY DEF Unlocked, Past, Reveals
  <1>7. Read' BY DEF Read, Intact
  <1>8. OwnV' BY DEF OwnV, Past
  <1> QED BY <1>1, <1>2, <1>3, <1>4, <1>5, <1>6, <1>7, <1>8

LEMMA NextInv == FormatInv /\ [Next]_vars => FormatInv'
  <1> SUFFICES ASSUME FormatInv, [Next]_vars PROVE FormatInv' OBVIOUS
  <1>1. CASE AdvanceTo("BEGIN", "begin", "to U")
    <2>1. <<"BEGIN", "begin", "to U">> \in Ways BY DEF Ways
    <2> QED BY <1>1, <2>1, AdvanceStep, Zenon
  <1>2. CASE AdvanceTo("U:", "to U", "U")
    <2>1. <<"U:", "to U", "U">> \in Ways BY DEF Ways
    <2> QED BY <1>2, <2>1, AdvanceStep, Zenon
  <1>3. CASE CollectU BY <1>3, CollectUStep
  <1>4. CASE AdvanceTo("ID:", "to id", "id")
    <2>1. <<"ID:", "to id", "id">> \in Ways BY DEF Ways
    <2> QED BY <1>4, <2>1, AdvanceStep, Zenon
  <1>5. CASE CheckId BY <1>5, CheckIdStep
  <1>6. CASE AdvanceTo("V:", "to V", "V")
    <2>1. <<"V:", "to V", "V">> \in Ways BY DEF Ways
    <2> QED BY <1>6, <2>1, AdvanceStep, Zenon
  <1>7. CASE CollectV BY <1>7, CollectVStep
  <1>8. CASE Reveal BY <1>8, RevealStep
  <1>9. CASE RevealFails BY <1>9, RevealFailsStep
  <1>10. CASE AdvanceTo("W:", "to W", "W")
    <2>1. <<"W:", "to W", "W">> \in Ways BY DEF Ways
    <2> QED BY <1>10, <2>1, AdvanceStep, Zenon
  <1>11. CASE ReadW \/ ReadWAtEnd BY <1>11, LoopStep
  <1>12. CASE Final BY <1>12, FinalStep
  <1>13. CASE UNCHANGED vars BY <1>13, StutterStep
  <1> QED BY <1>1, <1>2, <1>3, <1>4, <1>5, <1>6, <1>7, <1>8, <1>9, <1>10, <1>11, <1>12, <1>13
          DEF Next, CollectU, CollectV

\* A key that reveals K is the key of a recipient: V is a line of the file.
LEMMA KeyOfRecipient ==
  ASSUME FormatInv, Reveals
  PROVE  key \in Range(ids)
  <1>1. V = <<Data("V", key)>> BY DEF Reveals
  <1>2. 1 \in DOMAIN V /\ V[1] = Data("V", key) BY <1>1
  <1>3. PICK p \in DOMAIN file : V[1] = file[p] BY <1>2 DEF FormatInv, CollectedV
  <1>4. file[p].is = "V" /\ file[p].of = key BY <1>2, <1>3 DEF Data
  <1> QED BY <1>4, NamesInFile

LEMMA OneIsWhole == FormatInv => OneMeansWhole
  <1> SUFFICES ASSUME FormatInv, result = 1
               PROVE  /\ Intact /\ id \in Range(ids) /\ key \in Range(ids)
                      /\ file = MessageFor(ids) => key = id
      BY DEF OneMeansWhole
  <1>1. Intact BY DEF FormatInv, Read
  <1>2. id \in Range(ids) BY DEF FormatInv, Named, Past
  <1>3. Reveals BY DEF FormatInv, Unlocked, Past
  <1>4. key \in Range(ids) BY <1>3, KeyOfRecipient
  <1>5. ASSUME file = MessageFor(ids) PROVE key = id
    <2>1. V = <<Data("V", id)>> BY <1>5 DEF FormatInv, OwnV, Past
    <2>2. V = <<Data("V", key)>> BY <1>3 DEF Reveals
    <2>3. Data("V", id) = Data("V", key) BY <2>1, <2>2
    <2> QED BY <2>3 DEF Data
  <1> QED BY <1>1, <1>2, <1>4, <1>5

LEMMA FedIsRevealed == FormatInv => NothingWithoutKey
  <1> SUFFICES ASSUME FormatInv, fed # <<>>
               PROVE  key \in Range(ids) /\ Reveals
      BY DEF NothingWithoutKey
  <1>1. Reveals BY DEF FormatInv, Unlocked, Past
  <1> QED BY <1>1, KeyOfRecipient
-----------------------------------------------------------------------------
(***************************************************************************)
(* The invariant holds in every state of every run of FMT_decrypt_stream.  *)
(***************************************************************************)
THEOREM FormatInvariance == Spec => []FormatInv
  <1>1. Init => FormatInv BY InitInv
  <1>2. FormatInv /\ [Next]_vars => FormatInv' BY NextInv
  <1> QED BY <1>1, <1>2, PTL DEF Spec

(***************************************************************************)
(* The variables of FMT_decrypt_stream keep their types, and it returns    *)
(* nothing but 0 and 1.                                                    *)
(***************************************************************************)
THEOREM TypeCorrect == Spec => []TypeOK
  <1>1. FormatInv => TypeOK BY DEF FormatInv
  <1> QED BY <1>1, FormatInvariance, PTL

(***************************************************************************)
(* FMT_decrypt_stream returns 1 only when all of W was read in order, for  *)
(* a reader who named a recipient and has the key of one, and of the same  *)
(* one unless the message was damaged.                                     *)
(***************************************************************************)
THEOREM AlwaysOneMeansWhole == Spec => []OneMeansWhole
  <1>1. FormatInv => OneMeansWhole BY OneIsWhole
  <1> QED BY <1>1, FormatInvariance, PTL

(***************************************************************************)
(* FMT_decrypt_stream gives nothing to the decryption context unless K was *)
(* revealed by the private key of a recipient.                             *)
(***************************************************************************)
THEOREM AlwaysNothingWithoutKey == Spec => []NothingWithoutKey
  <1>1. FormatInv => NothingWithoutKey BY FedIsRevealed
  <1> QED BY <1>1, FormatInvariance, PTL
=============================================================================
