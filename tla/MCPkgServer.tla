---------------------------- MODULE MCPkgServer ----------------------------
(***************************************************************************)
(* Two connections, one of which may stall for ever, and two ids: requests *)
(* for the same id one after the other and at the same time, and both      *)
(* children ending before main gets to run its handler.                    *)
(***************************************************************************)
EXTENDS PkgServer

CONSTANTS c1, c2, alice, bob

MCClient == {c1, c2}
MCPrompt == {c1}
MCIds    == {alice, bob}
=============================================================================
