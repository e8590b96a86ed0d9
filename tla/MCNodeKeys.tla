----------------------------- MODULE MCNodeKeys -----------------------------
(***************************************************************************)
(* Small instances of NodeKeys for TLC.                                    *)
(***************************************************************************)
EXTENDS NodeKeys, TLC

CONSTANTS a, b, k1, k2, k3, t1, t2

MCSymmetry ==
    Permutations({a, b}) \cup Permutations({k1, k2, k3}) \cup Permutations({t1, t2})
=============================================================================
