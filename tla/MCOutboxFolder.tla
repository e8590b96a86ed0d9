--------------------------- MODULE MCOutboxFolder ---------------------------
(***************************************************************************)
(* Small instances of OutboxFolder for TLC.                                *)
(***************************************************************************)
EXTENDS OutboxFolder, TLC

CONSTANTS u1, u2, u3, u4, d1, d2, acme

\* The registry plays no part here.
MCProfiles == {{}}

MCSymmetry == Permutations({u1, u2, u3, u4}) \cup Permutations({d1, d2})
=============================================================================
