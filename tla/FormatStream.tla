---------------------------- MODULE FormatStream ----------------------------
(***************************************************************************)
(* The message format of format.c: what FMT_encrypt_stream_array writes    *)
(* for several recipients, and FMT_decrypt_stream reading it line by line  *)
(* through advance_to and mime_get.  The file may have been cut off at any *)
(* line, or have lost a line, on the way.                                  *)
(*                                                                         *)
(* A line is a tag or carries data: U, an id, V for an id, or the k-th     *)
(* piece of W.  Layout that advance_to reads over is left out.  V opens    *)
(* with the key of its id and the U it was made with, W with nothing left  *)
(* out, added or moved: the HMACs see to that (DecryptContext).  fgets at  *)
(* the end of the file leaves the line buffer as it was.                   *)
(***************************************************************************)
EXTENDS Integers, Sequences, SequencesExt

CONSTANTS
  Ids,     \* ids that FMT_make_id makes
  Pieces,  \* lines of W
  MaxTo,   \* bound on the recipients of a message
  MaxFed   \* bound on the lines the model feeds to the decryption context

ASSUME PiecesAssumption == Pieces \in Nat \ {0} /\ MaxFed \in Nat /\ Pieces < MaxFed
ASSUME MaxToAssumption  == MaxTo \in Nat \ {0}

Tag(s)     == [is |-> s, of |-> 0]
Data(s, v) == [is |-> s, of |-> v]
Blank      == Tag("blank")
Junk       == Tag("junk")   \* an array that nothing was read into, and that is
                            \* not Blank by chance

VARIABLES
  ids,     \* the recipients
  file,    \* the lines of the file the reader gets
  id,      \* whom FMT_decrypt_stream is called for
  key,     \* whose private key it is given
  pos,     \* lines read
  eof,     \* feof(infp)
  stage,   \* where FMT_decrypt_stream is
  U, V,    \* the lines that mime_get collected
  K,       \* the byte string that IBE_reveal_key fills: "unset", "held",
           \* "cleared" or "cleared twice"
  in,      \* the line buffer of the loop over W
  fed,     \* pieces given to crypto_decrypt_update
  result   \* the return value, once stage is "done"

vars == <<ids, file, id, key, pos, eof, stage, U, V, K, in, fed, result>>

inputs == <<ids, file, id, key>>

\* FMT_encrypt_stream_array: U, then an id and a V for each recipient, then W.
Header   == <<Tag("BEGIN"), Tag("U:"), Data("U", 0), Blank>>
Entry(i) == <<Tag("ID:"), Data("id", i), Tag("V:"), Data("V", i), Blank>>

Entries(to) ==
  [k \in 1 .. 5 * Len(to) |-> Entry(to[((k - 1) \div 5) + 1])[((k - 1) % 5) + 1]]

Body == <<Tag("W:")>> \o [k \in 1 .. Pieces |-> Data("W", k)] \o <<Blank, Tag("END")>>

MessageFor(to) == Header \o Entries(to) \o Body

Damaged(f) ==
  {SubSeq(f, 1, k) : k \in 0 .. Len(f)} \cup {RemoveAt(f, k) : k \in DOMAIN f}

Init ==
  /\ ids \in UNION {[1 .. n -> Ids] : n \in 1 .. MaxTo}
  /\ file \in Damaged(MessageFor(ids))
  /\ id \in Ids /\ key \in Ids
  /\ pos = 0 /\ eof = FALSE
  /\ stage = "begin"
  /\ U = <<>> /\ V = <<>>
  /\ K = "unset"
  /\ in \in {Junk, Blank}
  /\ fed = <<>>
  /\ result = 0

AtEnd    == pos = Len(file)
NextLine == file[pos + 1]

\* advance_to: breaks at the end of the file as well as at the tag.
AdvanceTo(tag, from, to) ==
  /\ stage = from
  /\ \/ /\ AtEnd
        /\ eof' = TRUE /\ stage' = to
        /\ UNCHANGED pos
     \/ /\ ~ AtEnd
        /\ pos' = pos + 1
        /\ stage' = IF NextLine = Tag(tag) THEN to ELSE from
        /\ UNCHANGED eof
  /\ UNCHANGED <<inputs, U, V, K, in, fed, result>>

\* mime_get: up to a blank line or the end of the file.
MimeGet(buf, from, to) ==
  /\ stage = from
  /\ \/ /\ AtEnd
        /\ eof' = TRUE /\ stage' = to
        /\ UNCHANGED <<pos, buf>>
     \/ /\ ~ AtEnd
        /\ pos' = pos + 1
        /\ \/ NextLine = Blank /\ stage' = to /\ UNCHANGED buf
           \/ NextLine # Blank /\ buf' = Append(buf, NextLine) /\ UNCHANGED stage
        /\ UNCHANGED eof
  /\ UNCHANGED <<inputs, K, in, fed, result>>

\* A wrong variant of the next action: the id is not compared.
CheckIdAny ==
  /\ stage = "id"
  /\ ~ eof /\ ~ AtEnd
  /\ pos' = pos + 1
  /\ stage' = "to V"
  /\ UNCHANGED <<inputs, eof, U, V, K, in, fed, result>>

\* After "ID:".  An id that is missing is not the one that is wanted.
CheckId ==
  /\ stage = "id"
  /\ \/ /\ eof
        /\ stage' = "done"
        /\ UNCHANGED <<pos, eof>>
     \/ /\ ~ eof /\ AtEnd
        /\ eof' = TRUE /\ stage' = "to id"
        /\ UNCHANGED pos
     \/ /\ ~ eof /\ ~ AtEnd
        /\ pos' = pos + 1
        /\ stage' = IF NextLine = Data("id", id) THEN "to V" ELSE "to id"
        /\ UNCHANGED eof
  /\ UNCHANGED <<inputs, U, V, K, in, fed, result>>

Reveals == U = <<Data("U", 0)>> /\ V = <<Data("V", key)>>

\* A wrong variant of the next action: the status of IBE_reveal_key is not
\* looked at.
RevealUnchecked ==
  /\ stage = "reveal"
  /\ stage' = "to W"
  /\ UNCHANGED <<inputs, pos, eof, U, V, K, in, fed, result>>

Reveal ==
  /\ stage = "reveal" /\ Reveals
  /\ stage' = "to W"
  /\ K' = "held"
  /\ UNCHANGED <<inputs, pos, eof, U, V, in, fed, result>>

\* byte_string_clear.
Cleared(bs) == IF bs = "held" THEN "cleared" ELSE "cleared twice"

\* IBE_reveal_key fails: crypto_decrypt has cleared K, and here it is cleared
\* again.
RevealFails ==
  /\ stage = "reveal" /\ ~ Reveals
  /\ stage' = "done"
  /\ K' = Cleared(Cleared("held"))
  /\ UNCHANGED <<inputs, pos, eof, U, V, in, fed, result>>

Feed(line) == fed' = IF Len(fed) < MaxFed THEN Append(fed, line) ELSE fed

\* A wrong variant of the next operator: a line is too short only when empty.
TakeAny(line) ==
  /\ in' = line
  /\ UNCHANGED stage
  /\ Feed(line)

\* What the loop over W does with its line buffer: it ends at a line that is too
\* short to be data.
Take(line) ==
  /\ in' = line
  /\ \/ line = Blank /\ stage' = "final" /\ UNCHANGED fed
     \/ line # Blank /\ UNCHANGED stage /\ Feed(line)

ReadW ==
  /\ stage = "W" /\ ~ AtEnd
  /\ pos' = pos + 1
  /\ Take(NextLine)
  /\ UNCHANGED <<inputs, eof, U, V, K, result>>

\* fgets returns NULL, which the loop does not look at: the buffer is as it was,
\* and is taken once more.
ReadWAtEnd ==
  /\ stage = "W" /\ AtEnd
  /\ eof' = TRUE
  /\ Take(in)
  /\ UNCHANGED <<inputs, pos, U, V, K, result>>

Intact == fed = [k \in 1 .. Pieces |-> Data("W", k)]

\* A wrong variant of the next action: the result of crypto_decrypt_final is not
\* looked at.
FinalUnchecked ==
  /\ stage = "final"
  /\ result' = 1
  /\ stage' = "done"
  /\ UNCHANGED <<inputs, pos, eof, U, V, K, in, fed>>

\* crypto_decrypt_final and the end of FMT_decrypt_stream.
Final ==
  /\ stage = "final"
  /\ result' = IF Intact THEN 1 ELSE 0
  /\ stage' = "done"
  /\ K' = Cleared(K)
  /\ UNCHANGED <<inputs, pos, eof, U, V, in, fed>>

Next ==
  \/ AdvanceTo("BEGIN", "begin", "to U") \/ AdvanceTo("U:", "to U", "U")
  \/ MimeGet(U, "U", "to id") /\ UNCHANGED V
  \/ AdvanceTo("ID:", "to id", "id") \/ CheckId
  \/ AdvanceTo("V:", "to V", "V")
  \/ MimeGet(V, "V", "reveal") /\ UNCHANGED U
  \/ Reveal \/ RevealFails
  \/ AdvanceTo("W:", "to W", "W") \/ ReadW \/ ReadWAtEnd
  \/ Final

\* A program that can go on does so.
Spec == Init /\ [][Next]_vars /\ WF_vars(Next)
-----------------------------------------------------------------------------
\* The variables hold what FMT_decrypt_stream can.
TypeOK ==
  /\ pos \in 0 .. Len(file)
  /\ eof \in BOOLEAN /\ result \in {0, 1}
  /\ stage \in {"begin", "to U", "U", "to id", "id", "to V", "V", "reveal",
                "to W", "W", "final", "done"}
  /\ K \in {"unset", "held", "cleared", "cleared twice"}
  /\ Len(fed) <= MaxFed

Done == stage = "done"

(***************************************************************************)
(* Every recipient with its own key gets 1 from an undamaged message:      *)
(* each finds the V that is meant for it among those of the others.        *)
(***************************************************************************)
RecipientsRead ==
  (file = MessageFor(ids) /\ id \in Range(ids) /\ key = id) ~> (Done /\ result = 1)

(***************************************************************************)
(* Whatever was lost on the way, 1 means that the whole of W was read in   *)
(* order, by a reader who named a recipient and has the key of one.  Only  *)
(* in an undamaged message need it be the same recipient: a V: that is     *)
(* lost makes advance_to go on to the V of the next one.                   *)
(***************************************************************************)
OneMeansWhole ==
  result = 1 => /\ Intact
                /\ {id, key} \subseteq Range(ids)
                /\ file = MessageFor(ids) => key = id

(***************************************************************************)
(* The text is deciphered with the K of this message or not at all.        *)
(***************************************************************************)
NothingWithoutKey == fed # <<>> => key \in Range(ids) /\ Reveals

(***************************************************************************)
(* Decryption ends if the file has a W with a blank line behind it, and    *)
(* for whoever is no recipient, or has the key of none.  (A recipient who  *)
(* reads a file without a W: takes for ever what happens to be in the line *)
(* buffer, unless that is too short.)                                      *)
(***************************************************************************)
Closed ==
  \E k \in DOMAIN file : /\ file[k] = Tag("W:")
                          /\ \E m \in k + 1 .. Len(file) : file[m] = Blank

EndsIfClosed == (Closed \/ ~ ({id, key} \subseteq Range(ids))) ~> Done

\* "read error" (format.c:248-251): the loop over W ends when no more can be read.
Ends == <>Done

(***************************************************************************)
(* "BUG! double byte_string_clear()" (byte_string.c:89): this never        *)
(* happens to K for whoever opens an undamaged message with the private    *)
(* key of the id that is named.  With another key, or a V: that was lost,  *)
(* it does.                                                                *)
(***************************************************************************)
ClearedOnce == (file = MessageFor(ids) /\ key = id) => K # "cleared twice"
-----------------------------------------------------------------------------
(***************************************************************************)
(* Why success means what it says.  Every line the reader has is one of    *)
(* the message; each stage adds what it has looked at, and in an undamaged *)
(* message the V that is read is the one behind the id that matched.       *)
(***************************************************************************)
Line == [is : {"BEGIN", "U:", "U", "ID:", "id", "V:", "V", "W:", "W", "END", "blank", "junk"},
         of : Ids \cup Nat]

LinesTyped ==
  /\ file \in Seq(Line) /\ U \in Seq(Line) /\ V \in Seq(Line) /\ fed \in Seq(Line)
  /\ in \in Line

Sent == ids \in Seq(Ids) /\ file \in Damaged(MessageFor(ids))

\* What mime_get has collected for V was in the file.
CollectedV ==
  /\ stage \in {"begin", "to U", "U", "to id", "id", "to V"} => V = <<>>
  /\ \A k \in DOMAIN V : \E p \in DOMAIN file : V[k] = file[p]

Past(stages) == stage \in stages \/ fed # <<>> \/ result = 1

Named    == Past({"to V", "V", "reveal", "to W", "W", "final"}) => id \in Range(ids)
Unlocked == Past({"to W", "W", "final"}) => Reveals
Read     == (stage \notin {"W", "final", "done"} => fed = <<>>)
            /\ (stage # "done" => result = 0) /\ (result = 1 => Intact)

OwnV ==
  file = MessageFor(ids) =>
    /\ stage = "to V" => pos \in DOMAIN file /\ file[pos] = Data("id", id)
    /\ stage = "V" =>
         \/ pos - 1 \in DOMAIN file /\ file[pos - 1] = Data("id", id) /\ V = <<>>
         \/ /\ pos - 2 \in DOMAIN file /\ file[pos - 2] = Data("id", id)
            /\ V = <<Data("V", id)>>
    /\ Past({"reveal", "to W", "W", "final"}) => V = <<Data("V", id)>>

FormatInv == TypeOK /\ LinesTyped /\ Sent /\ CollectedV /\ Named /\ Unlocked /\ Read /\ OwnV
=============================================================================
