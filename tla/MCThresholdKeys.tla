-------------------------- MODULE MCThresholdKeys --------------------------
(***************************************************************************)
(* The field of 5 elements, two identities, up to 3 PKGs and every         *)
(* threshold up to 3: points that coincide, points that are 0, quorums in  *)
(* any order, repeated PKGs and shares for different identities all occur. *)
(***************************************************************************)
EXTENDS ThresholdKeys

CONSTANTS alice, bob

MCIds == {alice, bob}
MCPointOf(id) == IF id = alice THEN 1 ELSE 3
MCMasters == {2}
=============================================================================
