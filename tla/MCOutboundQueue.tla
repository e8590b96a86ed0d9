--------------------------- MODULE MCOutboundQueue ---------------------------
(***************************************************************************)
(* Small instances of OutboundQueue for TLC.                               *)
(***************************************************************************)
EXTENDS OutboundQueue, TLC

CONSTANTS m1, m2, acme

MCPartners == {acme}

Document == [job |-> "", complete |-> TRUE, to |-> acme, about |-> NoId]

\* A J-MDN job names the message it acknowledges; here that message is foreign.
ReceiptJob == [Document EXCEPT !.job = "send_jmdn"]

\* A file in the watch folder can carry any job_type next to its document.
OddJob == [Document EXCEPT !.job = "unknown"]

\* ... and a send_jmdn one without the fields deliverJMDN asks for.
HollowJob == [ReceiptJob EXCEPT !.complete = FALSE]

Documents == {Document}
AllRequests == {Document, ReceiptJob, OddJob, HollowJob}

Registered == {"listed", "message", "receipt", "keys"}
NoKeys == {"listed", "message"}

OneTime == {0}
NoTimes == {}

SteadyRegistry == {Registered}
ChangingRegistry == {Registered, NoKeys, {}}

\* One receiptHandler call at a time.
OneReceiptAtATime == \A r1, r2 \in handling : r1 = r2

IdSymmetry == Permutations({m1, m2})
=============================================================================
