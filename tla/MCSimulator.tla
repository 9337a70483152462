----------------------------- MODULE MCSimulator -----------------------------
(***************************************************************************)
(* Instances of Simulator for TLC.                                         *)
(***************************************************************************)
EXTENDS Simulator, TLC

CONSTANTS tenant, shared, fake, s1, s2, r1, r2

Symmetry == Permutations({s1, s2}) \cup Permutations({r1, r2})

=============================================================================
