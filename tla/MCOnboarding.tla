---------------------------- MODULE MCOnboarding ----------------------------
(***************************************************************************)
(* Small instances of Onboarding for TLC.                                  *)
(***************************************************************************)
EXTENDS Onboarding, TLC

CONSTANTS p1, p2, t1, t2, c1, c2

MCSymmetry == Permutations({p1, p2}) \cup Permutations({c1, c2})
=============================================================================
