---------------------------- MODULE ConfigTable ----------------------------
(***************************************************************************)
(* Configuration contexts, config.c: the table of parameters, the calls    *)
(* that read and set it, and the file it comes from and goes to.           *)
(*                                                                         *)
(* A name is a sequence of character codes, because GetFullName and        *)
(* GetIndex cut and compare names character by character.  So is a value:  *)
(* numbers, truth values and lists are stored as text, and so are the      *)
(* lines of the file, over which LoadConfig's scan goes.  malloc never     *)
(* fails.                                                                  *)
(***************************************************************************)
EXTENDS Integers, Sequences, SequencesExt

CONSTANTS
  Names,      \* parameter names that callers use
  Indices,    \* indices that callers use
  Texts,      \* values for SetStringParam
  Numbers,    \* values for SetIntParam
  Lists,      \* values for SetListParam
  Files,      \* configuration files somebody may have written by hand
  Dirs,       \* directories they may be in, NoDir for a name without '/'
  NoDir,
  MaxParam,   \* MAX_PARAM
  MaxNamLen,  \* MAX_NAMLEN
  MaxLine     \* MAXLINE

Char == 1 .. 255
Newline == 10
Hash == 35
Minus == 45
Slash == 47
Semicolon == 59
SEP == 61                   \* '='
Space == (9 .. 13) \cup {32}  \* isspace
\* A wrong variant of the next operator.
NoSemicolon == {32, 44}
Separators == {32, 44, 59}  \* " ,;" in GetListParam
MaxIndex == 16 * 16 * 16 * 16 - 1  \* 0xFFFF
MaxInt   == 2147483647  \* INT_MAX

\* The longest name, with an index of four digits behind it, fits a line (20 and
\* 2048 in the code).
ASSUME BoundsAssumption ==
  /\ MaxParam \in Nat /\ MaxNamLen \in Nat \ {0} /\ MaxLine \in Nat
  /\ MaxNamLen + 7 <= MaxLine
\* "parameter-name may contain any alpha numeric including '_', '-'" (config.h:19).
NameChar == (48 .. 57) \cup (65 .. 90) \cup (97 .. 122) \cup {45, 95}
ASSUME NamesAssumption   == Names \subseteq Seq(NameChar)
ASSUME IndicesAssumption == Indices \subseteq Nat
ASSUME TextsAssumption   == Texts \subseteq Seq(Char \ {Newline})
ASSUME NumbersAssumption == Numbers \subseteq - MaxInt - 1 .. MaxInt
ASSUME ListsAssumption   == Lists \subseteq Seq(Seq(Char \ {Newline}))
\* A '\n' ends its line; only the last line may do without.
IsLine(line) == line # <<>> /\ \A j \in DOMAIN line : line[j] = Newline => j = Len(line)
ASSUME FilesAssumption ==
  /\ Files \subseteq Seq(Seq(Char))
  /\ \A lines \in Files : \A k \in DOMAIN lines :
       IsLine(lines[k]) /\ (k < Len(lines) => Last(lines[k]) = Newline)

VARIABLES
  stage,     \* "none": no context, "open", or "undefined": written past its end
  table,     \* ConfigParam[0 .. NumParam-1]
  filespec   \* the directory of ConfigFilespec

vars == <<stage, table, filespec>>

NoPath == <<>>
Unset  == "uninitialised"

Entry(type, value) == [type |-> type, value |-> value, path |-> NoPath]
-----------------------------------------------------------------------------
(***************************************************************************)
(* GetFullName and GetIndex.                                               *)
(***************************************************************************)
HexDigit(d) == IF d < 10 THEN 48 + d ELSE 55 + d

\* "%X" of a positive index below MaxIndex.
Hex(i) ==
  LET q == i \div 16
      r == q \div 16
      s == r \div 16
  IN CASE i < 16           -> <<HexDigit(i)>>
       [] i >= 16 /\ q < 16 -> <<HexDigit(q), HexDigit(i % 16)>>
       [] q >= 16 /\ r < 16 -> <<HexDigit(r), HexDigit(q % 16), HexDigit(i % 16)>>
       [] r >= 16           -> <<HexDigit(s), HexDigit(r % 16), HexDigit(q % 16), HexDigit(i % 16)>>

GetFullName(name, index) ==
  IF 0 < index /\ index < MaxIndex THEN name \o <<Hash>> \o Hex(index) ELSE name

Upto(s, n) == IF Len(s) <= n THEN s ELSE SubSeq(s, 1, n)

\* A wrong variant of the next operator: a name matches those it begins.
SameStart(a, b) == Len(b) <= Len(a) /\ Upto(a, Len(b)) = b

\* strncmp(a, b, MAX_NAMLEN) == 0 for strings without '\0'.
Same(a, b) == Upto(a, MaxNamLen) = Upto(b, MaxNamLen)

Matches(ctx, look) == {k \in DOMAIN ctx : Same(ctx[k].type, look)}

\* The position in ConfigParam, from 1; 0 is NOT_FOUND.
GetIndex(ctx, name, index) ==
  LET matches == Matches(ctx, GetFullName(name, index))
  IN IF matches = {} THEN 0 ELSE Min(matches)

Found(ctx, name, index) == GetIndex(ctx, name, index) # 0
-----------------------------------------------------------------------------
(***************************************************************************)
(* The calls that read: the set of the value returned, or {} for the       *)
(* default that the caller gave.                                           *)
(***************************************************************************)
GetStringParam(ctx, name, index) ==
  {ctx[k].value : k \in {GetIndex(ctx, name, index)} \ {0}}

IsNumeral(s) == Len(s) <= 11 /\ \A k \in DOMAIN s : s[k] \in 48 .. 57

\* atoi of a numeral.
Numeral(s) ==
  LET value[k \in 0 .. Len(s)] == IF k = 0 THEN 0 ELSE 10 * value[k - 1] + (s[k] - 48)
  IN  value[Len(s)]

GetIntParam(ctx, name, index) ==
  {Numeral(s) : s \in {t \in GetStringParam(ctx, name, index) : IsNumeral(t)}}

\* "1tTyY" at the front.
GetBoolParam(ctx, name, index) ==
  {s # <<>> /\ s[1] \in {49, 84, 116, 89, 121} : s \in GetStringParam(ctx, name, index)}

\* From position i of s, over the characters of set, or up to the next of them;
\* behind s there is the '\0'.
Over(s, i, set)  == Min({Len(s) + 1} \cup {j \in i .. Len(s) : s[j] \notin set})
Until(s, i, set) == Min({Len(s) + 1} \cup {j \in i .. Len(s) : s[j] \in set})

\* strtok.
Begin(s, i) == Over(s, i, Separators)
End(s, i)   == Until(s, i, Separators)

\* Where the n-th call ends its token, and where that token begins.
Ends(s) ==
  LET end[n \in 0 .. Len(s)] == IF n = 0 THEN 0 ELSE End(s, Begin(s, end[n - 1] + 1))
  IN  end
Begins(s) == [n \in 1 .. Len(s) |-> Begin(s, Ends(s)[n - 1] + 1)]

\* What strtok cuts a string into, until it returns NULL.
Tokens(s) ==
  [n \in 1 .. Cardinality({n \in 1 .. Len(s) : Begins(s)[n] <= Len(s)}) |->
     SubSeq(s, Begins(s)[n], Ends(s)[n] - 1)]

GetListParam(ctx, name, index) == {Tokens(s) : s \in GetStringParam(ctx, name, index)}

\* RelativeToFile with the directory of filespec; Unset where it was NULL.
RelativeToFile(dir, value) ==
  IF dir \in {NoDir, Unset} \/ (value # <<>> /\ value[1] = Slash)
  THEN <<NoDir, value>> ELSE <<dir, value>>
-----------------------------------------------------------------------------
Init ==
  /\ stage = "none"
  /\ table = <<>>
  /\ filespec = Unset

\* NumParam is set, ConfigFilespec is not.
constructCTX ==
  /\ stage = "none"
  /\ stage' = "open"
  /\ table' = <<>>
  /\ filespec' = Unset

\* The context stays allocated, and usable.
destructCTX ==
  /\ stage = "open"
  /\ table' = <<>>
  /\ UNCHANGED <<stage, filespec>>

\* GetPathParam keeps the path it made.  A context that constructCTX made has
\* no ConfigFilespec: what is read there is NULL, or no address at all.
GetPathParam(name, index) ==
  /\ stage = "open" /\ Found(table, name, index)
  /\ \/ /\ table' = [table EXCEPT ![GetIndex(table, name, index)].path =
                      IF @ # NoPath THEN @
                      ELSE RelativeToFile(filespec, table[GetIndex(table, name, index)].value)]
        /\ UNCHANGED stage
     \/ /\ filespec = Unset /\ table[GetIndex(table, name, index)].path = NoPath
        /\ stage' = "undefined"
        /\ UNCHANGED table
  /\ UNCHANGED filespec

Settable(name, index, text) ==
  Len(text) <= MaxLine /\ Len(name) <= MaxNamLen /\ index <= MaxIndex

Fits(ctx, name, index) == Found(ctx, name, index) \/ Len(ctx) < MaxParam

\* A wrong variant of the next operator: the path outlives the value.
StoredKeepingPath(ctx, name, index, text) ==
  IF Found(ctx, name, index)
  THEN [ctx EXCEPT ![GetIndex(ctx, name, index)].value = text]
  ELSE Append(ctx, Entry(GetFullName(name, index), text))

\* The value is freed and set anew; the path is forgotten (config.c:137 frees
\* it only if there is none).
Stored(ctx, name, index, text) ==
  IF Found(ctx, name, index)
  THEN [ctx EXCEPT ![GetIndex(ctx, name, index)] = Entry(@.type, text)]
  ELSE Append(ctx, Entry(GetFullName(name, index), text))

\* SetStringParam, which does not look whether ConfigParam is full: the entry
\* behind it lies on ConfigFilespec and beyond the context.
SetStringParam(name, index, text) ==
  /\ stage = "open" /\ Settable(name, index, text)
  /\ \/ /\ Fits(table, name, index)
        /\ table' = Stored(table, name, index, text)
        /\ UNCHANGED stage
     \/ /\ ~ Fits(table, name, index)
        /\ stage' = "undefined"
        /\ UNCHANGED table
  /\ UNCHANGED filespec

Thousand == 10 * 10 * 10
Powers ==
  <<1, 10, 10 * 10, Thousand, 10 * Thousand, 10 * 10 * Thousand, Thousand * Thousand,
    10 * Thousand * Thousand, 10 * 10 * Thousand * Thousand, Thousand * Thousand * Thousand>>
Width(n) == Min({w \in 1 .. 10 : w = 10 \/ n < Powers[w + 1]})
Decimal(n) == [k \in 1 .. Width(n) |-> 48 + ((n \div Powers[Width(n) - k + 1]) % 10)]

\* "%d" of an int of 32 bits.
IntText(n) == IF n < 0 THEN <<Minus>> \o Decimal(- n) ELSE Decimal(n)
SetIntParam(name, index, n) == SetStringParam(name, index, IntText(n))

\* "True" and "False".
BoolText(b) == IF b THEN <<84, 114, 117, 101>> ELSE <<70, 97, 108, 115, 101>>
SetBoolParam(name, index, b) == SetStringParam(name, index, BoolText(b))

\* The items, each with a ';' behind it, the last of which is overwritten.
ListText(items) ==
  LET str[k \in 0 .. Len(items)] ==
        IF k = 0 THEN <<>> ELSE str[k - 1] \o Append(items[k], Semicolon)
  IN  Front(str[Len(items)])

\* The text, with its '\0', has to fit str.  For no items at all, *(pos-1)
\* lies before str and str is not filled.
SetListParam(name, index, items) ==
  \/ /\ items # <<>> /\ Len(ListText(items)) + 1 <= MaxLine
     /\ SetStringParam(name, index, ListText(items))
  \/ /\ items = <<>> /\ stage = "open"
     /\ stage' = "undefined"
     /\ UNCHANGED <<table, filespec>>
-----------------------------------------------------------------------------
(***************************************************************************)
(* The file, a sequence of lines.  p is what one call of fgets puts into   *)
(* line: a line of the file, or a piece of one that is too long.           *)
(***************************************************************************)
\* The parameter's name: from where to before where.
NameBegins(p) == Over(p, 1, Space)
NameEnds(p)   == Until(p, NameBegins(p), Space \cup {SEP})
NameIn(p)     == SubSeq(p, NameBegins(p), NameEnds(p) - 1)

\* A wrong variant of the next operator: '=' is not gone over.
ValueBeginsAtSEP(p) == Over(p, NameEnds(p) + 1, Space)

\* Its value, likewise: the '\n' is white space too.
ValueBegins(p) == Over(p, NameEnds(p) + 1, Space \cup {SEP})
ValueEnds(p)   == Until(p, ValueBegins(p), {Newline})
ValueIn(p)     == SubSeq(p, ValueBegins(p), ValueEnds(p) - 1)

\* Neither a comment nor "blank or malformed".
IsParameter(p) == p[1] # Semicolon /\ NameEnds(p) <= Len(p)

\* The name is not too long, the value has its '\n'.
IsComplete(p) == Len(NameIn(p)) <= MaxNamLen /\ ValueEnds(p) <= Len(p)

\* One round of LoadConfig's loop.  The tables so far are one table, or none
\* once LoadConfig has returned NULL.
Taken(ctxs, p) ==
  IF IsParameter(p)
  THEN {Append(ctx, Entry(NameIn(p), ValueIn(p))) :
          ctx \in {x \in ctxs : Len(x) < MaxParam /\ IsComplete(p)}}
  ELSE ctxs

\* How often fgets is called for a line, and what the n-th call reads.
Calls(line)    == Min({n \in 0 .. Len(line) : Len(line) <= n * (MaxLine - 1)})
Piece(line, n) == SubSeq(line, (n - 1) * (MaxLine - 1) + 1, Min({n * (MaxLine - 1), Len(line)}))

LineRead(ctxs, line) ==
  LET got[n \in 0 .. Calls(line)] ==
        IF n = 0 THEN ctxs ELSE Taken(got[n - 1], Piece(line, n))
  IN  got[Calls(line)]

Scanned(lines) ==
  LET got[k \in 0 .. Len(lines)] ==
        IF k = 0 THEN {<<>>} ELSE LineRead(got[k - 1], lines[k])
  IN  got[Len(lines)]

\* LoadConfig of a file with these lines, in directory dir.
LoadConfig(dir, lines) ==
  /\ stage # "undefined"
  /\ \/ \E ctx \in Scanned(lines) :
          /\ stage' = "open"
          /\ table' = ctx
          /\ filespec' = dir
     \/ /\ Scanned(lines) = {}
        /\ stage' = "none"
        /\ table' = <<>>
        /\ filespec' = Unset

\* "%s = %s\n".
Line(entry) == entry.type \o <<32, SEP, 32>> \o entry.value \o <<Newline>>

\* Three lines of comment, whose wording is left out, and the parameters.
Header == <<Semicolon, Newline>>
WriteConfig == <<Header, Header, Header>> \o [k \in DOMAIN table |-> Line(table[k])]

\* WriteConfig, then LoadConfig by the next program.
WriteAndLoad(dir) == stage = "open" /\ LoadConfig(dir, WriteConfig)

Next ==
  \/ constructCTX \/ destructCTX
  \/ \E dir \in Dirs : WriteAndLoad(dir) \/ \E lines \in Files : LoadConfig(dir, lines)
  \/ \E name \in Names, index \in Indices :
       \/ GetPathParam(name, index)
       \/ \E text \in Texts : SetStringParam(name, index, text)
       \/ \E n \in Numbers : SetIntParam(name, index, n)
       \/ \E b \in BOOLEAN : SetBoolParam(name, index, b)
       \/ \E items \in Lists : SetListParam(name, index, items)

Spec == Init /\ [][Next]_vars
-----------------------------------------------------------------------------
TypeChar  == Char \ (Space \cup {SEP})
ValueChar == Char \ {Newline}
Parameter == [type : Seq(TypeChar), value : Seq(ValueChar),
              path : {NoPath} \cup (Dirs \cup {NoDir}) \X Seq(ValueChar)]

\* The variables hold what their C counterparts can.
TypeOK ==
  /\ stage \in {"none", "open", "undefined"}
  /\ table \in Seq(Parameter) /\ Len(table) <= MaxParam
  /\ filespec \in Dirs \cup {Unset}

(***************************************************************************)
(* What is set is what is read, in the type it was set: a string, a number *)
(* that is not negative ("a postive integer", config.h:125; no other       *)
(* number is read at all), a truth value, and a list whose items are not   *)
(* empty and hold no separator.                                            *)
(***************************************************************************)
Plain(items) ==
  /\ items # <<>>
  /\ \A k \in DOMAIN items : items[k] # <<>> /\ Range(items[k]) \cap Separators = {}

WhatIsSetIsRead ==
  \A name \in Names, index \in Indices :
    Fits(table, name, index) =>
      /\ \A text \in Texts :
           GetStringParam(Stored(table, name, index, text), name, index) = {text}
      /\ \A n \in Numbers :
           GetIntParam(Stored(table, name, index, IntText(n)), name, index) = {n} \cap Nat
      /\ \A b \in BOOLEAN :
           GetBoolParam(Stored(table, name, index, BoolText(b)), name, index) = {b}
      /\ \A items \in Lists :
           Plain(items) =>
             GetListParam(Stored(table, name, index, ListText(items)), name, index) = {items}

(***************************************************************************)
(* "the index refers to the desired index" (config.h:98-99): a call that   *)
(* sets one parameter leaves what is read of every other name and index as *)
(* it was, as long as what GetFullName makes of them fits MaxNamLen and    *)
(* the indices are below MaxIndex, which stands for 0.                     *)
(***************************************************************************)
Distinct(name, index) == index < MaxIndex /\ Len(GetFullName(name, index)) <= MaxNamLen

OthersUntouched ==
  \A n1, n2 \in Names, i1, i2 \in Indices :
    (/\ Distinct(n1, i1) /\ Distinct(n2, i2) /\ <<n1, i1>> # <<n2, i2>>
     /\ Fits(table, n1, i1)) =>
      \A text \in Texts :
        GetStringParam(Stored(table, n1, i1, text), n2, i2) = GetStringParam(table, n2, i2)

(***************************************************************************)
(* A path that GetPathParam remembers is the one it would make now: no     *)
(* path outlives the value or the file it came from.                       *)
(***************************************************************************)
PathIsCurrent ==
  \A k \in DOMAIN table :
    table[k].path # NoPath => table[k].path = RelativeToFile(filespec, table[k].value)

(***************************************************************************)
(* What WriteConfig writes, LoadConfig reads: every parameter, in order,   *)
(* with its value but for leading white space and '=', or nothing at all.  *)
(* An empty value, a name that an index made too long, or a line that does *)
(* not fit the buffer makes the whole file unreadable.  Excepted are names *)
(* with ';' in front: config.h:19 does not allow them, LoadConfig takes    *)
(* them from a line that is indented, and reads them back as a comment.    *)
(***************************************************************************)
Padding == {9, 10, 11, 12, 13, 32, 61}

Stripped(value) ==
  LET rest == {k \in DOMAIN value : value[k] \notin Padding}
  IN  IF rest = {} THEN <<>> ELSE SubSeq(value, Min(rest), Len(value))

Readable(entry) ==
  /\ Stripped(entry.value) # <<>> /\ Len(entry.type) <= MaxNamLen
  /\ Len(entry.type) + Len(entry.value) + 4 < MaxLine

AllOrNothing ==
  (\A k \in DOMAIN table : table[k].type = <<>> \/ table[k].type[1] # Semicolon) =>
    Scanned(WriteConfig) =
      IF \A k \in DOMAIN table : Readable(table[k])
      THEN {[k \in DOMAIN table |-> Entry(table[k].type, Stripped(table[k].value))]}
      ELSE {}
=============================================================================
