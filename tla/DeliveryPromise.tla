--------------------------- MODULE DeliveryPromise ---------------------------
(***************************************************************************)
(* What a pair of FideX nodes promises about each document, without        *)
(* queues, calls, retries or crashes: the receiver keeps or quarantines it *)
(* once and for all, the sender reports DELIVERED only for a document the  *)
(* receiver has kept.                                                      *)
(*                                                                         *)
(* FAILED promises nothing: the sender may give up on a document that was  *)
(* kept, and a receipt may still correct it.                               *)
(***************************************************************************)
CONSTANT Documents

VARIABLES
    told,   \* what the sender reports of each document
    kept    \* what the receiver did with it

vars == <<told, kept>>

TypeOK ==
    /\ told \in [Documents -> {"unknown", "QUEUED", "DELIVERED", "FAILED"}]
    /\ kept \in [Documents -> {"unknown", "DELIVERED", "QUARANTINED"}]

Init ==
    /\ told = [d \in Documents |-> "unknown"]
    /\ kept = [d \in Documents |-> "unknown"]

Submit(d) ==
    /\ told[d] = "unknown"
    /\ told' = [told EXCEPT ![d] = "QUEUED"]
    /\ UNCHANGED kept

\* The receiver decides once, about a document that was really submitted.
Decide(d) ==
    /\ told[d] # "unknown" /\ kept[d] = "unknown"
    /\ \E v \in {"DELIVERED", "QUARANTINED"} : kept' = [kept EXCEPT ![d] = v]
    /\ UNCHANGED told

Confirm(d) ==
    /\ told[d] \in {"QUEUED", "FAILED"} /\ kept[d] = "DELIVERED"
    /\ told' = [told EXCEPT ![d] = "DELIVERED"]
    /\ UNCHANGED kept

Abandon(d) ==
    /\ told[d] \in {"QUEUED", "DELIVERED"}
    /\ told' = [told EXCEPT ![d] = "FAILED"]
    /\ UNCHANGED kept

Next == \E d \in Documents : Submit(d) \/ Decide(d) \/ Confirm(d) \/ Abandon(d)

Spec == Init /\ [][Next]_vars
=============================================================================
