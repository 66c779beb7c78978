----------------------------- MODULE MCStartup ------------------------------
(***************************************************************************)
(* Small instances of Startup for TLC.                                     *)
(***************************************************************************)
EXTENDS Startup, TLC

CONSTANTS alice, bob

Symmetry == Permutations({alice, bob})
=============================================================================
