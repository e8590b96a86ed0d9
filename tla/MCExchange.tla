----------------------------- MODULE MCExchange -----------------------------
(***************************************************************************)
(* Small instances of Exchange for TLC.                                    *)
(***************************************************************************)
EXTENDS Exchange, TLC

CONSTANTS d1, u1

Full == {"listed", "message", "receipt", "keys"}
KnownOnly == {Full}
=============================================================================
