---------------------------- MODULE MCBranching ----------------------------
(***************************************************************************)
(* Small instances of Branching for TLC.  Branches other than main, agents  *)
(* and evidence are interchangeable.                                        *)
(***************************************************************************)
EXTENDS Branching, TLC

CONSTANTS main, b1, b2, alice, bot, e1

Symmetry == Permutations(Branch \ {Main})
=============================================================================
