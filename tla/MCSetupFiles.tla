--------------------------- MODULE MCSetupFiles ---------------------------
(***************************************************************************)
(* Two PKGs, and runs of gen that share the master secret 1-out-of-1 (as   *)
(* gen.cnf has it), 2-out-of-2 (as gen does by default), or among more     *)
(* PKGs than there are file names for.                                     *)
(***************************************************************************)
EXTENDS SetupFiles

MCConfigs == {[t |-> 1, n |-> 1], [t |-> 2, n |-> 2], [t |-> 2, n |-> 3]}
MCPKG == {1, 2}
=============================================================================
