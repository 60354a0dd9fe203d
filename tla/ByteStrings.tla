---------------------------- MODULE ByteStrings ----------------------------
(***************************************************************************)
(* Byte strings that hold numbers and other byte strings, byte_string.c:   *)
(* byte_string_set_int, byte_string_encode_array and their inverses,       *)
(* byte_string_join and byte_string_split.  A byte is a number below Base. *)
(* What is encoded has fewer than Base * Base fields, and fields of fewer  *)
(* than Base * Base bytes; two bytes are all there is for either.          *)
(***************************************************************************)
EXTENDS Integers, Sequences, SequencesExt

CONSTANT Base  \* 256

ASSUME BaseAssumption == Base \in Nat /\ Base > 2

Byte == 0 .. Base - 1

\* The cast binds before the shift, so that the three upper bytes are 0.
byte_string_set_int(n) == <<0, 0, 0, n % Base>>

int_from_byte_string(bs) ==
  IF Len(bs) # 4 THEN 0
  ELSE bs[4] + Base * (bs[3] + Base * (bs[2] + Base * bs[1]))

TwoBytes(n)   == <<(n \div Base) % Base, n % Base>>
ValueAt(bs, k) == Base * bs[k] + bs[k + 1]

byte_string_encode_array(bsa) ==
  TwoBytes(Len(bsa)) \o FlattenSeq([i \in DOMAIN bsa |-> TwoBytes(Len(bsa[i]))])
                     \o FlattenSeq(bsa)

\* How many fields a byte string says it has, and how long they are.
Count(bs)   == ValueAt(bs, 1)
Lengths(bs) == [i \in 1 .. Count(bs) |-> ValueAt(bs, 2 * i + 1)]

\* Where the fields end, counted from the first byte of the first.
Ends(lens) ==
  LET end[i \in 0 .. Len(lens)] == IF i = 0 THEN 0 ELSE end[i - 1] + lens[i]
  IN  end
Total(lens) == Ends(lens)[Len(lens)]
Field(bs, lens, i) ==
  SubSeq(bs, 2 + 2 * Len(lens) + Ends(lens)[i - 1] + 1, 2 + 2 * Len(lens) + Ends(lens)[i])

\* byte_string_decode_array finds as many bytes as it is told there are.
Whole(bs) ==
  /\ 2 <= Len(bs)
  /\ 2 + 2 * Count(bs) <= Len(bs)
  /\ Len(bs) = 2 + 2 * Count(bs) + Total(Lengths(bs))

\* A wrong variant of the next operator: the fields are taken to be there.
decode_arrayUnchecked(bs) ==
  IF 2 <= Len(bs) /\ 2 + 2 * Count(bs) <= Len(bs)
  THEN [i \in 1 .. Count(bs) |->
          IF 2 + 2 * Count(bs) + Ends(Lengths(bs))[i] <= Len(bs)
          THEN Field(bs, Lengths(bs), i) ELSE <<0>>]
  ELSE <<>>

\* The fields, or none at all.
byte_string_decode_array(bs) ==
  IF Whole(bs) THEN [i \in 1 .. Count(bs) |-> Field(bs, Lengths(bs), i)] ELSE <<>>

byte_string_join(bs1, bs2) == byte_string_encode_array(<<bs1, bs2>>)

\* Two empty strings if there are not exactly two.
byte_string_split(bs) ==
  IF Len(byte_string_decode_array(bs)) = 2 THEN byte_string_decode_array(bs)
  ELSE << <<>>, <<>> >>
=============================================================================
