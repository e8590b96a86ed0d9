--------------------------- MODULE MCDashboardHub ---------------------------
(***************************************************************************)
(* Small instances of DashboardHub for TLC.                                *)
(***************************************************************************)
EXTENDS DashboardHub, TLC

CONSTANTS c1, c2, d1, d2, d3
=============================================================================
