--------------------------- MODULE MCFormatStream ---------------------------
(***************************************************************************)
(* One or two recipients out of three ids, any of which may ask with the   *)
(* key of any: messages that are whole, cut off after any line, or lack    *)
(* any one line.  W has two lines.                                         *)
(***************************************************************************)
EXTENDS FormatStream

CONSTANTS alice, bob, carol

MCIds == {alice, bob, carol}
=============================================================================
