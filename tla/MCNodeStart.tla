----------------------------- MODULE MCNodeStart -----------------------------
(***************************************************************************)
(* Small instances of NodeStart for TLC.                                   *)
(***************************************************************************)
EXTENDS NodeStart

CONSTANTS e1, e2, admin, bob, s1, s2, l1, l2

=============================================================================
