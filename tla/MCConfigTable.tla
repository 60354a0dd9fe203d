--------------------------- MODULE MCConfigTable ---------------------------
(***************************************************************************)
(* Two names, one of which has the greatest length, 3; indices 0, 1 and 17 *)
(* (11 in hexadecimal, so that a#1 and a#11 differ behind the third        *)
(* character); values that are numbers, text, a path, empty, or a list.    *)
(* Files by hand: a name twice; a value without its '\n'; a name that is   *)
(* too long; more parameters than fit; a comment, a blank line, and a name *)
(* that begins with ';' behind a blank; a comment that is longer than the  *)
(* buffer of 10, so that its end is taken for a parameter.                 *)
(***************************************************************************)
EXTENDS ConfigTable

CONSTANT here

a == 97
b == 98
Given(name) == Line(Entry(name, <<a>>))

MCNames   == {<<a>>, <<a, a, a>>}
MCIndices == {0, 1, 17}
MCTexts   == {<<>>, <<Slash>>, <<SEP, 32, a>>}
MCNumbers == {-1, 17}
MCLists   == {<<>>, <<<<a>>, <<49>>>>}
MCDirs    == {NoDir, here}
MCFiles   == {<<Given(<<a>>), <<32, a, SEP, SEP, 9, b, 32, Newline>>>>,
              <<Given(<<a>>), Front(Given(<<b>>))>>,
              <<Given(<<a, a, a, a>>)>>,
              <<Given(<<a>>), Given(<<b>>), Given(<<a, b>>)>>,
              <<Header, <<Newline>>, <<32, Semicolon, SEP, b, Newline>>>>,
              <<<<Semicolon, b, b, b, b, b, b, b, b, a, SEP, b, Newline>>>>}
=============================================================================
