--------------------------- MODULE MCControlPlane ---------------------------
(***************************************************************************)
(* Small instances of ControlPlane for TLC.                                *)
(***************************************************************************)
EXTENDS ControlPlane, TLC

CONSTANTS web, dns, ghost, ann, ben

Symmetry == Permutations({ann, ben}) \cup Permutations({web, dns})
=============================================================================
