------------------------------- MODULE Exchange -------------------------------
(***************************************************************************)
(* Two nodes exchange documents.  The sender's queue posts them to the     *)
(* receiver's inboundHandler; the receiver's queue posts J-MDN receipts    *)
(* back to the sender's receiptHandler.  Both directions are HTTP calls:   *)
(* the request can be lost, the answer can be lost, and a client that gave *)
(* up waiting leaves behind a handler that still runs.  Either node can    *)
(* shut down, crash and restart on its own.                                *)
(*                                                                         *)
(* The nodes are instances of OutboundQueue and InboundHandler; this       *)
(* module only joins the step of one with the step of the other.           *)
(***************************************************************************)
EXTENDS Naturals, FiniteSets

CONSTANTS
    Documents,     \* message_ids of the documents the sender's ERP submits
    Uuids,         \* ids of the receiver's J-MDN jobs
    sender, receiver,
    SenderProfiles,    \* what the sender may know about the receiver
    ReceiverProfiles,  \* what the receiver may know about the sender
    Soundness,     \* whether envelopes decrypt and verify: a set of booleans
    MaxRetries, MaxFaults

Ids == Documents \cup Uuids

ASSUME DocumentsAssumption == Documents \cap Uuids = {}
ASSUME IdsAssumption       == "no id" \notin Ids
ASSUME SoundnessAssumption == Soundness \subseteq BOOLEAN
ASSUME BoundsAssumption    == MaxRetries \in Nat \ {0} /\ MaxFaults \in Nat

Nodes == {sender, receiver}
Attempts == 1 .. MaxRetries + MaxFaults

VARIABLES
    sNode, sRows, sStamp, sPartners, sPc, sBatch, sCur, sReceipts, sHandling,
    sPosts, sAcked, sRefused,
    rNode, rRows, rStamp, rPartners, rPc, rBatch, rCur, rReceipts, rHandling,
    rPosts, rAcked, rRefused,
    calls, accepted, forgotten,     \* inboundHandler calls at the receiver
    mdns,                           \* receiptHandler calls at the sender
    faults

sVars == <<sNode, sRows, sStamp, sPartners, sPc, sBatch, sCur, sReceipts,
           sHandling, sPosts, sAcked, sRefused>>
rVars == <<rNode, rRows, rStamp, rPartners, rPc, rBatch, rCur, rReceipts,
           rHandling, rPosts, rAcked, rRefused>>
rQueueVars == <<rPc, rBatch, rCur, rReceipts, rHandling, rPosts, rAcked, rRefused>>
callVars == <<calls, accepted, forgotten>>
vars == <<sVars, rVars, callVars, mdns, faults>>

Submission == [job |-> "", complete |-> TRUE, to |-> receiver, about |-> "no id"]

S == INSTANCE OutboundQueue WITH
        Partners <- Nodes, Profiles <- SenderProfiles,
        Requests <- {Submission}, Times <- Attempts,
        node <- sNode, rows <- sRows, stamp <- sStamp, partners <- sPartners,
        pc <- sPc, batch <- sBatch, cur <- sCur, receipts <- sReceipts,
        handling <- sHandling, posts <- sPosts, acked <- sAcked,
        refused <- sRefused

R == INSTANCE OutboundQueue WITH
        Partners <- Nodes, Profiles <- ReceiverProfiles,
        Requests <- {}, Times <- {},
        node <- rNode, rows <- rRows, stamp <- rStamp, partners <- rPartners,
        pc <- rPc, batch <- rBatch, cur <- rCur, receipts <- rReceipts,
        handling <- rHandling, posts <- rPosts, acked <- rAcked,
        refused <- rRefused

Inbound == INSTANCE InboundHandler WITH
        Partners <- Nodes, Profiles <- ReceiverProfiles,
        Envelopes <- {}, MaxCalls <- 0,
        node <- rNode, rows <- rRows, stamp <- rStamp, partners <- rPartners

ASSUME ProfilesAssumption ==
    SenderProfiles \cup ReceiverProfiles \subseteq SUBSET S!Facets

Init ==
    /\ S!Init /\ R!Init /\ Inbound!InboundInit
    /\ mdns = {}

-----------------------------------------------------------------------------
(***************************************************************************)
(* The sender: its ERP, its worker, the calls it makes.                    *)
(***************************************************************************)
SenderStep(A) == A /\ UNCHANGED <<rVars, callVars, mdns>>

Submit(d) == SenderStep(S!Enqueue(d, Submission))

Envelope(d, ok) ==
    [id |-> d, from |-> sender, kind |-> "document", sound |-> ok]

SendDocument(d) ==
    /\ S!Post(d)
    /\ \/ \E ok \in Soundness : Inbound!Arrive(Envelope(d, ok), sPosts[d] + 1)
          /\ UNCHANGED rQueueVars
       \/ UNCHANGED <<rVars, callVars>>              \* not reachable, or lost
    /\ UNCHANGED mdns

\* The sender's worker is still waiting for this very call.
AwaitedBySender(c) ==
    sPc = "post" /\ sCur = c.envelope.id /\ sPosts[sCur] = c.try

AnswerDocument(c) ==
    /\ AwaitedBySender(c) /\ c.pc = "answered"
    /\ S!Reply(IF c.answer = "202" THEN "2xx" ELSE "other")
    /\ Inbound!Hangup(c)
    /\ UNCHANGED <<rQueueVars, mdns>>

GiveUpWaitingForAnswer == SenderStep(S!Reply("other"))

SenderWorks ==
    \/ SenderStep(S!Fire \/ S!SeeStop \/ S!Poll \/ S!EndOfBatch)
    \/ \E d \in Documents : SenderStep(S!Skip(d) \/ S!Reject(d)) \/ SendDocument(d)
    \/ \E c \in calls : AnswerDocument(c)
    \/ GiveUpWaitingForAnswer
    \/ SenderStep(S!MarkDelivered \/ S!ScheduleRetry \/ S!GiveUp \/ S!NoteFailure)
-----------------------------------------------------------------------------
(***************************************************************************)
(* The receiver: its inbound handler, its worker, the receipts it sends.   *)
(***************************************************************************)
ReceiverStep(A) == A /\ UNCHANGED <<sVars, callVars, mdns>>

HandleCall(c) == Inbound!Handle(c) /\ UNCHANGED <<sVars, rQueueVars, mdns>>

\* The client is gone: the answer goes nowhere.
DiscardAnswer(c) ==
    /\ c.pc = "answered" /\ Inbound!Hangup(c)
    /\ UNCHANGED <<sVars, rQueueVars, mdns>>

\* deliverJMDN turns the job's "processed" into DELIVERED; it would send FAILED for
\* a job that says so, which inboundHandler never queues.
Disposition == "DELIVERED"

ReceiptFor(m) == [about |-> m.about, outcome |-> Disposition, time |-> m.try]

(***************************************************************************)
(* A receipt reaches receiptHandler only through the receipt endpoint: the *)
(* message endpoint, deliverJMDN's fallback, answers 400 to a flat J-MDN.  *)
(***************************************************************************)
SendReceipt(j) ==
    /\ R!Post(j)
    /\ \/ /\ S!Alive /\ "receipt" \in rPartners[sender]
          /\ mdns' = mdns \cup {[job |-> j, about |-> rBatch[j].payload.about,
                                 try |-> rPosts[j] + 1, pc |-> "arrived"]}
       \/ UNCHANGED mdns
    /\ UNCHANGED <<sVars, callVars>>

AwaitedByReceiver(m) ==
    rPc = "post" /\ rCur = m.job /\ rPosts[rCur] = m.try

\* Mutant of AnswerReceipt: the sender's status code is not looked at.
AnswerReceiptAsSuccess(m) ==
    /\ AwaitedByReceiver(m) /\ m.pc \in {"reconciled", "refused"}
    /\ R!Reply("2xx")
    /\ mdns' = mdns \ {m}
    /\ UNCHANGED <<sVars, callVars>>

AnswerReceipt(m) ==
    /\ AwaitedByReceiver(m) /\ m.pc \in {"reconciled", "refused"}
    /\ R!Reply(IF m.pc = "reconciled" THEN "2xx" ELSE "other")
    /\ mdns' = mdns \ {m}
    /\ UNCHANGED <<sVars, callVars>>

GiveUpWaitingForReceipt == ReceiverStep(R!Reply("other"))

ReceiverWorks ==
    \/ ReceiverStep(R!Fire \/ R!SeeStop \/ R!Poll \/ R!EndOfBatch)
    \/ \E j \in Uuids : ReceiverStep(R!Skip(j) \/ R!Reject(j)) \/ SendReceipt(j)
    \/ \E m \in mdns : AnswerReceipt(m)
    \/ GiveUpWaitingForReceipt
    \/ ReceiverStep(R!MarkDelivered \/ R!ScheduleRetry \/ R!GiveUp \/ R!NoteFailure)
-----------------------------------------------------------------------------
(***************************************************************************)
(* receiptHandler at the sender.                                           *)
(***************************************************************************)
TakeReceipt(m) ==
    /\ m.pc = "arrived"
    /\ S!StoreReceipt(ReceiptFor(m))
    /\ mdns' = (mdns \ {m}) \cup
               {[m EXCEPT !.pc = IF sHandling' # sHandling THEN "stored" ELSE "refused"]}
    /\ UNCHANGED <<rVars, callVars>>

FinishReceipt(m) ==
    /\ m.pc = "stored"
    /\ S!Reconcile(ReceiptFor(m))
    /\ mdns' = (mdns \ {m}) \cup {[m EXCEPT !.pc = "reconciled"]}
    /\ UNCHANGED <<rVars, callVars>>

DiscardReceiptAnswer(m) ==
    /\ m.pc \in {"reconciled", "refused"}
    /\ mdns' = mdns \ {m}
    /\ UNCHANGED <<sVars, rVars, callVars, faults>>
-----------------------------------------------------------------------------
(***************************************************************************)
(* Clocks and the two processes.  The registries stay as they are: their   *)
(* edits belong to OutboundQueue and InboundHandler.                       *)
(***************************************************************************)
SenderHalts == S!Halt /\ mdns' = {} /\ UNCHANGED <<rVars, callVars>>
ReceiverHalts == R!Halt /\ Inbound!Die /\ UNCHANGED <<sVars, mdns>>

Shutdowns == SenderStep(S!Shutdown) \/ ReceiverStep(R!Shutdown)

Clocks == SenderStep(S!Tick) \/ ReceiverStep(R!Tick)

Restarts == SenderStep(S!Restart) \/ ReceiverStep(R!Restart)

Next ==
    \/ \E d \in Documents : Submit(d)
    \/ SenderWorks \/ ReceiverWorks
    \/ \E c \in calls : HandleCall(c) \/ DiscardAnswer(c)
    \/ \E m \in mdns : TakeReceipt(m) \/ FinishReceipt(m) \/ DiscardReceiptAnswer(m)
    \/ SenderHalts \/ ReceiverHalts
    \/ Shutdowns \/ Clocks \/ Restarts

Spec == Init /\ [][Next]_vars

-----------------------------------------------------------------------------
(***************************************************************************)
(* The exchange implements DeliveryPromise: what the sender reports is its *)
(* row of the document, what the receiver kept is the receiver's row.      *)
(***************************************************************************)
StatusIn(t, d) == IF t[d].status = "ABSENT" THEN "unknown" ELSE t[d].status

Promise == INSTANCE DeliveryPromise WITH
              told <- [d \in Documents |-> StatusIn(sRows, d)],
              kept <- [d \in Documents |-> StatusIn(rRows, d)]

TypeOK == S!TypeOK /\ R!TypeOK /\ Inbound!TypeOK

\* Whatever is lost, late, retried or interrupted on either side, the two tables
\* move together only as DeliveryPromise allows.
KeepsPromise == Promise!Spec

\* The sender holds a receipt of a document only if the receiver decrypted,
\* verified and stored it and queued the job the receipt came from.
ReceiptsAreTruthful ==
    \A r \in sReceipts :
        /\ rRows[r.about].status = "DELIVERED"
        /\ \E j \in Uuids : rRows[j].payload.about = r.about

\* The receiver's worker settles a J-MDN job as DELIVERED only when the sender
\* stored that receipt, so a lost receipt is not taken for a sent one.
SentReceiptsArrived ==
    \A j \in Uuids : rRows[j].status = "DELIVERED" =>
        \E r \in sReceipts : r.about = rRows[j].payload.about
-----------------------------------------------------------------------------
(***************************************************************************)
(* What the documentation says and the code does not do.                   *)
(***************************************************************************)

\* external_handlers.go:291-292: the outbound row is reconciled to what the
\* receipt says; every receipt of this exchange says DELIVERED, so a document
\* that its receipt made DELIVERED stays so.
ReceiptStands ==
    [][\A d \in Documents :
         sRows[d].status = "DELIVERED" /\ (\E r \in sReceipts : r.about = d)
            => sRows'[d].status = "DELIVERED"]_vars
=============================================================================
