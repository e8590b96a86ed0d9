-------------------------- MODULE MCInboundHandler --------------------------
(***************************************************************************)
(* Small instances of InboundHandler for TLC.                              *)
(***************************************************************************)
EXTENDS InboundHandler, TLC

CONSTANTS m1, m2, u1, u2, acme

MCPartners == {acme}

Sound == [id |-> m1, from |-> acme, kind |-> "document", sound |-> TRUE]

\* The same message_id, not decryptable (sealed for a key we do not hold).
Garbled == [Sound EXCEPT !.sound = FALSE]

\* An envelope of document_type "receipt".
Wrapped == [Sound EXCEPT !.id = m2, !.kind = "receipt"]

MCEnvelopes == {Sound, Garbled, Wrapped}
OneEnvelope == {Sound}

Full == {"listed", "message", "receipt", "keys"}
MCProfiles == {Full, Full \ {"keys"}, {}}
KnownOnly == {Full}

UuidSymmetry == Permutations({u1, u2})
=============================================================================
