---------------------------- MODULE MCKeyService ----------------------------
(***************************************************************************)
(* Three PKGs of which two are needed: one or two of them can always be    *)
(* reached, the others may be down or break off; the last one may also     *)
(* leave a session hanging.  Two requests, and a New Year at any moment.   *)
(***************************************************************************)
EXTENDS KeyService

CONSTANTS a, b, c

MCPkg       == {a, b, c}
MCServers   == <<a, b, c>>
MCReach     == {{b, c}, {c}}
MCAnswering == {a, b}
MCYears     == {1, 2}
=============================================================================
