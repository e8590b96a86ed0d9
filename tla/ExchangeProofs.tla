---------------------------- MODULE ExchangeProofs ----------------------------
(***************************************************************************)
(* Theorems about Exchange for every set of documents, every number of     *)
(* retries and disturbances: its types, what a receipt and a settled J-MDN *)
(* job stand for, and that the two nodes implement DeliveryPromise.        *)
(*                                                                         *)
(* The two queues are those of OutboundQueueProofs; what is proved there   *)
(* of one queue and of the steps beside it is used here for both.          *)
(***************************************************************************)
EXTENDS Exchange, TLAPS

SP == INSTANCE OutboundQueueProofs WITH
        Partners <- Nodes, Profiles <- SenderProfiles,
        Requests <- {Submission}, Times <- Attempts,
        node <- sNode, rows <- sRows, stamp <- sStamp, partners <- sPartners,
        pc <- sPc, batch <- sBatch, cur <- sCur, receipts <- sReceipts,
        handling <- sHandling, posts <- sPosts, acked <- sAcked,
        refused <- sRefused

RP == INSTANCE OutboundQueueProofs WITH
        Partners <- Nodes, Profiles <- ReceiverProfiles,
        Requests <- {}, Times <- {},
        node <- rNode, rows <- rRows, stamp <- rStamp, partners <- rPartners,
        pc <- rPc, batch <- rBatch, cur <- rCur, receipts <- rReceipts,
        handling <- rHandling, posts <- rPosts, acked <- rAcked,
        refused <- rRefused

-----------------------------------------------------------------------------
(***************************************************************************)
(* The invariant.  What is on its way between the nodes, and what a worker *)
(* is about to write down, is vouched for by the tables: a call comes from *)
(* a row of the sender; a 202 answer, a J-MDN job, a receipt and a worker  *)
(* that saw a 2xx status each point at a row or receipt of the other node. *)
(***************************************************************************)
Kept(d) == rRows[d].status = "DELIVERED"
Receipted(d) == \E r \in sReceipts : r.about = d

\* What the job of a row of the receiver is about.
AboutOf(j) == rRows[j].payload.about

SentBefore(d) == SP!Stored(sRows, d) /\ sPosts[d] > 0

CallVouched(c) ==
    /\ c \in Inbound!Call
    /\ c.envelope.id \in Documents /\ c.envelope.kind = "document"
    /\ SentBefore(c.envelope.id)
    /\ c.pc = "stored" \/ (c.pc = "answered" /\ c.answer = "202") => Kept(c.envelope.id)

Mdn == [job : Uuids, about : Documents, try : Attempts,
        pc : {"arrived", "stored", "reconciled", "refused"}]

MdnVouched(m) ==
    /\ m \in Mdn
    /\ RP!Stored(rRows, m.job) /\ m.about = AboutOf(m.job)
    /\ m.pc \in {"stored", "reconciled"} => Receipted(m.about)

JobVouched(j) ==
    RP!Stored(rRows, j) =>
        /\ AboutOf(j) \in Documents /\ Kept(AboutOf(j))
        /\ rRows[j].status = "DELIVERED" => Receipted(AboutOf(j))

DocumentVouched(d) ==
    /\ rRows[d].status \in {"ABSENT", "DELIVERED", "QUARANTINED"}
    /\ RP!Stored(rRows, d) => SentBefore(d)

ReceiptVouched(r) ==
    /\ r.about \in Documents /\ r.outcome = "DELIVERED" /\ Kept(r.about)
    /\ \E j \in Uuids : RP!Stored(rRows, j) /\ AboutOf(j) = r.about

SenderRowVouched(id) ==
    /\ sRows[id].status \in {"ABSENT", "QUEUED", "DELIVERED", "FAILED"}
    /\ sRows[id].job = "process_outbound"

WorkersVouched ==
    /\ sPc = "ok" => sCur \in Documents /\ Kept(sCur)
    /\ rPc = "ok" => Receipted(AboutOf(rCur))
    /\ \A id \in Ids : RP!Stored(rBatch, id) => id \in Uuids

Vouched ==
    /\ \A c \in calls : CallVouched(c)
    /\ \A m \in mdns : MdnVouched(m)
    /\ \A j \in Uuids : JobVouched(j)
    /\ \A d \in Documents : DocumentVouched(d)
    /\ \A r \in sReceipts : ReceiptVouched(r)
    /\ \A id \in Ids : SenderRowVouched(id)
    /\ WorkersVouched

Counted == accepted \in [Ids -> Nat] /\ forgotten \subseteq Ids

QueuesSafe == SP!Safe /\ RP!Safe /\ RP!Budget

IInv == QueuesSafe /\ Counted /\ Vouched
-----------------------------------------------------------------------------
\* The parameters of the two queues are as OutboundQueue assumes them.
LEMMA SenderParameters ==
    /\ Nodes # {} /\ SP!NoId \notin Ids /\ MaxRetries \in Nat \ {0} /\ MaxFaults \in Nat
    /\ SenderProfiles \subseteq SUBSET SP!Facets /\ {Submission} \subseteq SP!Payload
  <1>1. Submission \in SP!Payload
    BY DEF Nodes, SP!NoId, Submission, SP!Payload, SP!JobTypes
  <1>2. /\ Nodes # {} /\ SP!NoId \notin Ids
        /\ SenderProfiles \subseteq SUBSET SP!Facets
    BY IdsAssumption, ProfilesAssumption DEF Nodes, SP!NoId, SP!Facets, S!Facets
  <1> QED
    BY <1>1, <1>2, BoundsAssumption

LEMMA ReceiverParameters ==
    /\ Nodes # {} /\ RP!NoId \notin Ids /\ MaxRetries \in Nat \ {0} /\ MaxFaults \in Nat
    /\ ReceiverProfiles \subseteq SUBSET RP!Facets /\ {} \subseteq RP!Payload
  BY BoundsAssumption, IdsAssumption, ProfilesAssumption
  DEF Nodes, RP!NoId, RP!Facets, S!Facets

LEMMA SenderIsQueue == S!Next <=> SP!Next
  BY Zenon DEF S!vars, SP!vars, S!storeVars, SP!storeVars, S!tableVars, SP!tableVars,
      S!workerVars, SP!workerVars, S!receiptVars, SP!receiptVars, S!historyVars,
      SP!historyVars, S!queueVars, SP!queueVars, S!Next, SP!Next, S!Worker,
      SP!Worker, S!Handlers, SP!Handlers, S!Process, SP!Process, S!Fire, SP!Fire,
      S!SeeStop, SP!SeeStop, S!Poll, SP!Poll, S!EndOfBatch, SP!EndOfBatch, S!Skip,
      SP!Skip, S!Post, SP!Post, S!Reject, SP!Reject, S!Reply, SP!Reply,
      S!MarkDelivered, SP!MarkDelivered, S!ScheduleRetry, SP!ScheduleRetry,
      S!GiveUp, SP!GiveUp, S!NoteFailure, SP!NoteFailure, S!Enqueue, SP!Enqueue,
      S!EditPartner, SP!EditPartner, S!ChangePartner, SP!ChangePartner,
      S!PartnerAcknowledges, SP!PartnerAcknowledges, S!StoreReceipt,
      SP!StoreReceipt, S!Reconcile, SP!Reconcile, S!Tick, SP!Tick, S!Shutdown,
      SP!Shutdown, S!BeginShutdown, SP!BeginShutdown, S!Halt, SP!Halt, S!Exit,
      SP!Exit, S!Restart, SP!Restart, S!Boot, SP!Boot, S!Write, SP!Write, S!DbOk,
      SP!DbOk, S!DbFails, SP!DbFails, S!Disturb, SP!Disturb, S!Alive, SP!Alive,
      S!InsertNew, SP!InsertNew, S!CanInsert, SP!CanInsert, S!Insert, SP!Insert,
      S!NewRow, SP!NewRow, S!ResolveJobType, SP!ResolveJobType, S!Stored, SP!Stored,
      S!ListQueued, SP!ListQueued, S!Queued, SP!Queued, S!Absent, SP!Absent,
      S!AnyPartner, SP!AnyPartner, S!NoId, SP!NoId, S!EmptyTable, SP!EmptyTable,
      S!Drop, SP!Drop, S!NotDueYet, SP!NotDueYet, S!Oldest, SP!Oldest, S!Due,
      SP!Due, S!Dispatchable, SP!Dispatchable, S!Reachable, SP!Reachable, S!Advance,
      SP!Advance, S!UpdateStatus, SP!UpdateStatus, S!UpdateRetryInfo,
      SP!UpdateRetryInfo, S!Attempts, SP!Attempts, S!ShouldRetry, SP!ShouldRetry,
      S!IsRetryable, SP!IsRetryable, S!Backoff, SP!Backoff, S!Age, SP!Age,
      S!Receipt, SP!Receipt, S!Outcomes, SP!Outcomes

LEMMA ReceiverIsQueue == R!Next <=> RP!Next
  BY Zenon DEF R!vars, RP!vars, R!storeVars, RP!storeVars, R!tableVars, RP!tableVars,
      R!workerVars, RP!workerVars, R!receiptVars, RP!receiptVars, R!historyVars,
      RP!historyVars, R!queueVars, RP!queueVars, R!Next, RP!Next, R!Worker,
      RP!Worker, R!Handlers, RP!Handlers, R!Process, RP!Process, R!Fire, RP!Fire,
      R!SeeStop, RP!SeeStop, R!Poll, RP!Poll, R!EndOfBatch, RP!EndOfBatch, R!Skip,
      RP!Skip, R!Post, RP!Post, R!Reject, RP!Reject, R!Reply, RP!Reply,
      R!MarkDelivered, RP!MarkDelivered, R!ScheduleRetry, RP!ScheduleRetry,
      R!GiveUp, RP!GiveUp, R!NoteFailure, RP!NoteFailure, R!Enqueue, RP!Enqueue,
      R!EditPartner, RP!EditPartner, R!ChangePartner, RP!ChangePartner,
      R!PartnerAcknowledges, RP!PartnerAcknowledges, R!StoreReceipt,
      RP!StoreReceipt, R!Reconcile, RP!Reconcile, R!Tick, RP!Tick, R!Shutdown,
      RP!Shutdown, R!BeginShutdown, RP!BeginShutdown, R!Halt, RP!Halt, R!Exit,
      RP!Exit, R!Restart, RP!Restart, R!Boot, RP!Boot, R!Write, RP!Write, R!DbOk,
      RP!DbOk, R!DbFails, RP!DbFails, R!Disturb, RP!Disturb, R!Alive, RP!Alive,
      R!InsertNew, RP!InsertNew, R!CanInsert, RP!CanInsert, R!Insert, RP!Insert,
      R!NewRow, RP!NewRow, R!ResolveJobType, RP!ResolveJobType, R!Stored, RP!Stored,
      R!ListQueued, RP!ListQueued, R!Queued, RP!Queued, R!Absent, RP!Absent,
      R!AnyPartner, RP!AnyPartner, R!NoId, RP!NoId, R!EmptyTable, RP!EmptyTable,
      R!Drop, RP!Drop, R!NotDueYet, RP!NotDueYet, R!Oldest, RP!Oldest, R!Due,
      RP!Due, R!Dispatchable, RP!Dispatchable, R!Reachable, RP!Reachable, R!Advance,
      RP!Advance, R!UpdateStatus, RP!UpdateStatus, R!UpdateRetryInfo,
      RP!UpdateRetryInfo, R!Attempts, RP!Attempts, R!ShouldRetry, RP!ShouldRetry,
      R!IsRetryable, RP!IsRetryable, R!Backoff, RP!Backoff, R!Age, RP!Age,
      R!Receipt, RP!Receipt, R!Outcomes, RP!Outcomes

-----------------------------------------------------------------------------
(***************************************************************************)
(* The steps of Next by what they touch: one node's own work, or the       *)
(* joined steps, whose footprints follow.                                  *)
(***************************************************************************)
SenderAlone ==
    \/ \E d \in Documents : Submit(d) \/ SenderStep(S!Skip(d) \/ S!Reject(d))
    \/ SenderStep(S!Fire \/ S!SeeStop \/ S!Poll \/ S!EndOfBatch)
    \/ GiveUpWaitingForAnswer
    \/ SenderStep(S!MarkDelivered \/ S!ScheduleRetry \/ S!GiveUp \/ S!NoteFailure)
    \/ SenderStep(S!Shutdown) \/ SenderStep(S!Tick) \/ SenderStep(S!Restart)

ReceiverAlone ==
    \/ \E j \in Uuids : ReceiverStep(R!Skip(j) \/ R!Reject(j))
    \/ ReceiverStep(R!Fire \/ R!SeeStop \/ R!Poll \/ R!EndOfBatch)
    \/ GiveUpWaitingForReceipt
    \/ ReceiverStep(R!MarkDelivered \/ R!ScheduleRetry \/ R!GiveUp \/ R!NoteFailure)
    \/ ReceiverStep(R!Shutdown) \/ ReceiverStep(R!Tick) \/ ReceiverStep(R!Restart)

LEMMA StepKinds ==
    Next => \/ SenderAlone \/ ReceiverAlone
            \/ \E d \in Documents : SendDocument(d)
            \/ \E c \in calls : AnswerDocument(c) \/ HandleCall(c) \/ DiscardAnswer(c)
            \/ \E j \in Uuids : SendReceipt(j)
            \/ \E m \in mdns : \/ AnswerReceipt(m) \/ TakeReceipt(m) \/ FinishReceipt(m)
                               \/ DiscardReceiptAnswer(m)
            \/ SenderHalts \/ ReceiverHalts
  BY DEF Next, SenderWorks, ReceiverWorks, Shutdowns, Clocks, Restarts, SenderAlone, ReceiverAlone

LEMMA SenderAloneFacts ==
    ASSUME SenderAlone
    PROVE  /\ SP!Next /\ UNCHANGED <<rVars, callVars, mdns, sReceipts>>
           /\ sPc' = "ok" => sPc = "ok" /\ sCur' = sCur
  <1>1. S!Next /\ UNCHANGED <<rVars, callVars, mdns>>
    BY DEF SenderAlone, SenderStep, Submit, GiveUpWaitingForAnswer, S!Next, S!Worker,
           S!Handlers, S!Process, Ids
  <1>2. UNCHANGED sReceipts
    BY DEF SenderAlone, SenderStep, Submit, GiveUpWaitingForAnswer, S!Enqueue, S!Skip, S!Reject,
           S!Fire, S!SeeStop, S!Poll, S!EndOfBatch, S!Reply, S!MarkDelivered, S!ScheduleRetry,
           S!GiveUp, S!NoteFailure, S!Shutdown, S!Tick, S!Restart, S!queueVars, S!receiptVars
  <1>3. sPc' = "ok" => sPc = "ok" /\ sCur' = sCur
    BY DEF SenderAlone, SenderStep, Submit, GiveUpWaitingForAnswer, S!Enqueue, S!Skip, S!Reject,
           S!Fire, S!SeeStop, S!Poll, S!EndOfBatch, S!Reply, S!MarkDelivered, S!ScheduleRetry,
           S!GiveUp, S!NoteFailure, S!Advance, S!Shutdown, S!Tick, S!Restart, S!queueVars, S!workerVars
  <1> QED
    BY <1>1, <1>2, <1>3, SenderIsQueue

LEMMA ReceiverAloneFacts ==
    ASSUME ReceiverAlone
    PROVE  /\ RP!Next /\ UNCHANGED <<sVars, callVars, mdns>>
           /\ rPc' = "ok" => rPc = "ok" /\ rCur' = rCur
  <1>1. R!Next /\ UNCHANGED <<sVars, callVars, mdns>>
    BY DEF ReceiverAlone, ReceiverStep, GiveUpWaitingForReceipt, R!Next, R!Worker,
           R!Handlers, R!Process, Ids
  <1>2. rPc' = "ok" => rPc = "ok" /\ rCur' = rCur
    BY DEF ReceiverAlone, ReceiverStep, GiveUpWaitingForReceipt, R!Skip, R!Reject,
           R!Fire, R!SeeStop, R!Poll, R!EndOfBatch, R!Reply, R!MarkDelivered, R!ScheduleRetry,
           R!GiveUp, R!NoteFailure, R!Advance, R!Shutdown, R!Tick, R!Restart, R!queueVars, R!workerVars
  <1> QED
    BY <1>1, <1>2, ReceiverIsQueue

LEMMA SendDocumentFacts ==
    ASSUME NEW d \in Documents, SendDocument(d)
    PROVE  /\ SP!Next /\ UNCHANGED <<rVars, accepted, forgotten, mdns, sReceipts>>
           /\ sPc' = "post" /\ d \in Ids /\ SP!Stored(sBatch, d) /\ sPosts' = [sPosts EXCEPT ![d] = sPosts[d] + 1]
           /\ \/ UNCHANGED calls
              \/ \E ok \in Soundness :
                    calls' = calls \cup {Inbound!NewCall(Envelope(d, ok), sPosts[d] + 1)}
  <1>1. S!Post(d) /\ d \in Ids
    BY DEF SendDocument, Ids
  <1>2. SP!Next
    BY <1>1, SenderIsQueue DEF S!Next, S!Worker
  <1>3. /\ UNCHANGED sReceipts /\ sPc' = "post" /\ SP!Stored(sBatch, d)
        /\ sPosts' = [sPosts EXCEPT ![d] = sPosts[d] + 1]
    BY <1>1 DEF S!Post, S!receiptVars, S!Due, S!Oldest, S!Stored, SP!Stored
  <1>4. /\ UNCHANGED <<rVars, accepted, forgotten, mdns>>
        /\ \/ UNCHANGED calls
           \/ \E ok \in Soundness :
                 calls' = calls \cup {Inbound!NewCall(Envelope(d, ok), sPosts[d] + 1)}
    BY DEF SendDocument, Inbound!Arrive, Inbound!storeVars, rVars, rQueueVars, callVars
  <1> QED
    BY <1>1, <1>2, <1>3, <1>4

LEMMA AnswerDocumentFacts ==
    ASSUME NEW c \in calls, AnswerDocument(c)
    PROVE  /\ SP!Next /\ UNCHANGED <<rVars, accepted, forgotten, mdns, sReceipts>>
           /\ calls' = calls \ {c}
           /\ sPc' = "ok" => /\ c.pc = "answered" /\ c.answer = "202"
                             /\ sCur' = c.envelope.id
  <1>1. PICK answer \in {"2xx", "other"} :
            S!Reply(answer) /\ (answer = "2xx" => c.answer = "202")
    BY DEF AnswerDocument
  <1>2. SP!Next
    BY <1>1, SenderIsQueue DEF S!Next, S!Worker
  <1>3. UNCHANGED sReceipts /\ sCur' = sCur /\ (sPc' = "ok" => answer = "2xx")
    BY <1>1 DEF S!Reply, S!receiptVars
  <1>4. /\ UNCHANGED <<rVars, accepted, forgotten, mdns>> /\ calls' = calls \ {c}
        /\ c.pc = "answered" /\ sCur = c.envelope.id
    BY DEF AnswerDocument, AwaitedBySender, Inbound!Hangup, Inbound!storeVars, rVars, rQueueVars
  <1> QED
    BY <1>1, <1>2, <1>3, <1>4

\* inboundHandler works on one call at a time and touches nothing of the sender's.
\* Its statements are in the terms of RP what they are in those of Inbound.
LEMMA InboundStatements ==
    /\ Inbound!DbOk <=> RP!DbOk
    /\ Inbound!DbFails <=> RP!DbFails
    /\ \A id, dir, s, p : Inbound!InsertNew(id, dir, s, p) <=> RP!InsertNew(id, dir, s, p)
  BY Zenon
  DEF Inbound!DbOk, RP!DbOk, Inbound!DbFails, RP!DbFails, Inbound!Disturb, RP!Disturb,
      Inbound!InsertNew, RP!InsertNew, Inbound!CanInsert, RP!CanInsert, Inbound!Stored,
      RP!Stored, Inbound!Insert, RP!Insert, Inbound!NewRow, RP!NewRow,
      Inbound!ResolveJobType, RP!ResolveJobType

LEMMA StatementFaults ==
    ASSUME faults \in 0 .. MaxFaults, Inbound!DbOk \/ Inbound!DbFails
    PROVE  faults' \in faults .. MaxFaults
  BY BoundsAssumption DEF Inbound!DbOk, Inbound!DbFails, Inbound!Disturb

CallTurnsInto(c, d) ==
    /\ calls' = (calls \ {c}) \cup {d}
    /\ d \in Inbound!Call /\ d.envelope = c.envelope

Promises(c) == c.pc = "stored" \/ (c.pc = "answered" /\ c.answer = "202")

LEMMA JudgeFacts ==
    ASSUME NEW c \in calls, c \in Inbound!Call, faults \in 0 .. MaxFaults,
           HandleCall(c), Inbound!Judge(c) \/ Inbound!StoreRefused(c)
    PROVE  /\ UNCHANGED <<sVars, rVars, accepted, forgotten, mdns>>
           /\ faults' \in faults .. MaxFaults
           /\ \E d : CallTurnsInto(c, d) /\ ~Promises(d)
  <1>1. UNCHANGED <<sVars, rVars, accepted, forgotten, mdns>>
    BY DEF HandleCall, Inbound!Judge, Inbound!StoreRefused, Inbound!tableVars, rVars, rQueueVars
  <1>2. faults' \in faults .. MaxFaults
    BY StatementFaults DEF Inbound!Judge, Inbound!StoreRefused
  <1>3. CASE Inbound!Judge(c)
    <2>1. PICK v \in Inbound!Verdicts : Inbound!Becomes(c, [c EXCEPT !.pc = "judged", !.verdict = v])
      BY <1>3 DEF Inbound!Judge
    <2> DEFINE d == [c EXCEPT !.pc = "judged", !.verdict = v]
    <2>2. d \in Inbound!Call /\ d.envelope = c.envelope /\ d.pc = "judged"
      BY DEF Inbound!Call
    <2>3. calls' = (calls \ {c}) \cup {d}
      BY <2>1 DEF Inbound!Becomes
    <2> QED
      BY <1>1, <1>2, <2>2, <2>3 DEF CallTurnsInto, Promises
  <1>4. CASE Inbound!StoreRefused(c)
    <2>1. PICK a \in {"409", "500"} : Inbound!AnswerWith(c, a)
      BY <1>4 DEF Inbound!StoreRefused
    <2> DEFINE d == [c EXCEPT !.pc = "answered", !.answer = a]
    <2>2. d \in Inbound!Call /\ d.envelope = c.envelope /\ d.pc = "answered" /\ d.answer = a
      BY DEF Inbound!Call, Inbound!Answers
    <2>3. calls' = (calls \ {c}) \cup {d}
      BY <2>1 DEF Inbound!AnswerWith, Inbound!Becomes
    <2> QED
      BY <1>1, <1>2, <2>2, <2>3 DEF CallTurnsInto, Promises
  <1> QED
    BY <1>3, <1>4

LEMMA StoreFacts ==
    ASSUME NEW c \in calls, c \in Inbound!Call, accepted \in [Ids -> Nat],
           HandleCall(c), Inbound!Store(c)
    PROVE  /\ UNCHANGED <<sVars, rNode, rPartners, rQueueVars, forgotten, mdns, faults>>
           /\ accepted' \in [Ids -> Nat]
           /\ c.verdict \in {"DELIVERED", "QUARANTINED"}
           /\ Inbound!InboundPayload(c) \in RP!Payload
           /\ RP!InsertNew(c.envelope.id, "INBOUND", c.verdict, Inbound!InboundPayload(c))
           /\ \E d : CallTurnsInto(c, d) /\ (Promises(d) => c.verdict = "DELIVERED")
  <1>1. /\ UNCHANGED <<sVars, rNode, rPartners, rQueueVars, forgotten, mdns, faults>>
        /\ RP!InsertNew(c.envelope.id, "INBOUND", c.verdict, Inbound!InboundPayload(c))
    BY InboundStatements DEF HandleCall, Inbound!Store, Inbound!DbOk
  <1>2. c.envelope.id \in Ids /\ c.envelope.from \in Nodes /\ c.verdict \in {"DELIVERED", "QUARANTINED"}
    BY DEF Inbound!Call, Inbound!EnvelopeType, Inbound!Verdicts
  <1>3. Inbound!InboundPayload(c) \in RP!Payload
    BY <1>2 DEF Inbound!InboundPayload, RP!Payload, RP!JobTypes, Inbound!NoId, RP!NoId
  <1>4. accepted' \in [Ids -> Nat]
    BY <1>2 DEF Inbound!Store
  <1>5. CASE c.verdict = "QUARANTINED"
    <2> DEFINE d == [c EXCEPT !.pc = "answered", !.answer = "401"]
    <2>1. d \in Inbound!Call /\ d.envelope = c.envelope /\ d.pc = "answered" /\ d.answer = "401"
      BY DEF Inbound!Call, Inbound!Answers
    <2>2. calls' = (calls \ {c}) \cup {d}
      BY <1>5 DEF Inbound!Store, Inbound!AnswerWith, Inbound!Becomes
    <2> QED
      BY <1>1, <1>2, <1>3, <1>4, <2>1, <2>2 DEF CallTurnsInto, Promises
  <1>6. CASE c.verdict = "DELIVERED"
    <2>1. PICK d \in Inbound!Call : d.envelope = c.envelope /\ calls' = (calls \ {c}) \cup {d}
      <3>1. CASE c.envelope.kind = "receipt"
        <4> DEFINE d == [c EXCEPT !.pc = "answered", !.answer = "202"]
        <4>1. d \in Inbound!Call /\ d.envelope = c.envelope
          BY DEF Inbound!Call, Inbound!Answers
        <4>2. calls' = (calls \ {c}) \cup {d}
          BY <1>6, <3>1 DEF Inbound!Store, Inbound!AnswerWith, Inbound!Becomes
        <4> QED
          BY <4>1, <4>2
      <3>2. CASE c.envelope.kind # "receipt"
        <4> DEFINE d == [c EXCEPT !.pc = "stored"]
        <4>1. d \in Inbound!Call /\ d.envelope = c.envelope
          BY DEF Inbound!Call
        <4>2. calls' = (calls \ {c}) \cup {d}
          BY <1>6, <3>2 DEF Inbound!Store, Inbound!Becomes
        <4> QED
          BY <4>1, <4>2
      <3> QED
        BY <3>1, <3>2
    <2> QED
      BY <1>1, <1>2, <1>3, <1>4, <1>6, <2>1 DEF CallTurnsInto
  <1> QED
    BY <1>2, <1>5, <1>6

LEMMA QueueReceiptFacts ==
    ASSUME NEW c \in calls, c \in Inbound!Call, accepted \in [Ids -> Nat],
           faults \in 0 .. MaxFaults, HandleCall(c), Inbound!QueueReceipt(c)
    PROVE  /\ UNCHANGED <<sVars, rNode, rPartners, rQueueVars, mdns>>
           /\ faults' \in faults .. MaxFaults
           /\ accepted' \in [Ids -> Nat] /\ forgotten' \subseteq forgotten \cup Ids
           /\ c.pc = "stored"
           /\ Inbound!JobPayload(c) \in RP!Payload /\ Inbound!JobPayload(c).about = c.envelope.id
           /\ \/ UNCHANGED <<rRows, rStamp>>
              \/ \E j \in Uuids : RP!InsertNew(j, "OUTBOUND", "QUEUED", Inbound!JobPayload(c))
           /\ \E d : CallTurnsInto(c, d)
  <1>1. c.envelope.id \in Ids /\ c.envelope.from \in Nodes
    BY DEF Inbound!Call, Inbound!EnvelopeType
  <1>2. /\ UNCHANGED <<sVars, rNode, rPartners, rQueueVars, mdns>> /\ c.pc = "stored"
        /\ forgotten' \subseteq forgotten \cup Ids
    BY <1>1 DEF HandleCall, Inbound!QueueReceipt
  <1>3. accepted' \in [Ids -> Nat]
    BY <1>1 DEF Inbound!QueueReceipt
  <1>4. Inbound!JobPayload(c) \in RP!Payload /\ Inbound!JobPayload(c).about = c.envelope.id
    BY <1>1 DEF Inbound!JobPayload, RP!Payload, RP!JobTypes
  <1>5. faults' \in faults .. MaxFaults
    BY StatementFaults DEF Inbound!QueueReceipt
  <1>6. \/ UNCHANGED <<rRows, rStamp>>
        \/ \E j \in Uuids : RP!InsertNew(j, "OUTBOUND", "QUEUED", Inbound!JobPayload(c))
    BY InboundStatements DEF Inbound!QueueReceipt, Inbound!tableVars
  <1> DEFINE d == [c EXCEPT !.pc = "answered", !.answer = "202"]
  <1>7. d \in Inbound!Call /\ d.envelope = c.envelope
    BY DEF Inbound!Call, Inbound!Answers
  <1>8. calls' = (calls \ {c}) \cup {d}
    BY DEF Inbound!QueueReceipt, Inbound!AnswerWith, Inbound!Becomes
  <1>9. \E e : CallTurnsInto(c, e)
    BY <1>7, <1>8 DEF CallTurnsInto
  <1> QED
    BY <1>2, <1>3, <1>4, <1>5, <1>6, <1>9

LEMMA DiscardAnswerFacts ==
    ASSUME NEW c \in calls, DiscardAnswer(c)
    PROVE  UNCHANGED <<sVars, rVars, accepted, forgotten, mdns, faults>> /\ calls' = calls \ {c}
  BY DEF DiscardAnswer, Inbound!Hangup, Inbound!storeVars, rVars, rQueueVars

LEMMA SendReceiptFacts ==
    ASSUME NEW j \in Uuids, SendReceipt(j), RP!Safe
    PROVE  /\ RP!Next /\ UNCHANGED <<sVars, callVars>> /\ rPc' = "post"
           /\ RP!Stored(rRows, j) /\ UNCHANGED rRows
           /\ rPosts' = [rPosts EXCEPT ![j] = rPosts[j] + 1]
           /\ \/ UNCHANGED mdns
              \/ mdns' = mdns \cup {[job |-> j, about |-> AboutOf(j),
                                     try |-> rPosts[j] + 1, pc |-> "arrived"]}
  <1>1. R!Post(j) /\ j \in Ids
    BY DEF SendReceipt, Ids
  <1>2. RP!Next
    BY <1>1, ReceiverIsQueue DEF R!Next, R!Worker
  <1>3. /\ rPc' = "post" /\ RP!Stored(rBatch, j) /\ UNCHANGED rRows
        /\ rPosts' = [rPosts EXCEPT ![j] = rPosts[j] + 1]
    BY <1>1 DEF R!Post, R!tableVars, R!Due, R!Oldest, R!Stored, RP!Stored
  <1>4. RP!Stored(rRows, j) /\ rBatch[j].payload.about = AboutOf(j)
    BY <1>1, <1>3 DEF RP!Safe, RP!Copied, RP!SameColumns, AboutOf
  <1> QED
    BY <1>2, <1>3, <1>4 DEF SendReceipt

LEMMA AnswerReceiptFacts ==
    ASSUME NEW m \in mdns, AnswerReceipt(m)
    PROVE  /\ RP!Next /\ UNCHANGED <<sVars, callVars>>
           /\ mdns' = mdns \ {m}
           /\ rPc' = "ok" => m.pc = "reconciled" /\ rCur' = m.job
  <1>1. PICK answer \in {"2xx", "other"} :
            R!Reply(answer) /\ (answer = "2xx" => m.pc = "reconciled")
    BY DEF AnswerReceipt
  <1>2. RP!Next
    BY <1>1, ReceiverIsQueue DEF R!Next, R!Worker
  <1>3. rCur' = rCur /\ (rPc' = "ok" => answer = "2xx")
    BY <1>1 DEF R!Reply
  <1> QED
    BY <1>1, <1>2, <1>3 DEF AnswerReceipt, AwaitedByReceiver

\* A receipt that is vouched for is one PartnerAcknowledges can bring.
LEMMA TakeReceiptFacts ==
    ASSUME NEW m \in mdns, TakeReceipt(m), Vouched
    PROVE  /\ SP!Next /\ UNCHANGED <<rVars, callVars, sPc, sCur>>
           /\ sReceipts' \subseteq sReceipts \cup {ReceiptFor(m)}
           /\ \E n : /\ mdns' = (mdns \ {m}) \cup {n}
                     /\ n \in Mdn /\ n.job = m.job /\ n.about = m.about
                     /\ n.pc \in {"stored", "reconciled"} => ReceiptFor(m) \in sReceipts'
  <1> DEFINE r == ReceiptFor(m)
             n == [m EXCEPT !.pc = IF sHandling' # sHandling THEN "stored" ELSE "refused"]
  <1>1. m \in Mdn /\ RP!Stored(rRows, m.job) /\ m.about = AboutOf(m.job)
    BY DEF Vouched, MdnVouched
  <1>2. m.about \in Documents /\ Kept(m.about)
    BY <1>1 DEF Vouched, JobVouched, Mdn
  <1>3. SentBefore(m.about) /\ m.about \in Ids /\ sRows[m.about].job = "process_outbound"
    BY <1>2 DEF Vouched, DocumentVouched, SenderRowVouched, Kept, RP!Stored, Ids
  <1>4. r \in S!Receipt /\ r.about = m.about
    BY <1>1, <1>3 DEF Mdn, ReceiptFor, Disposition, S!Receipt, S!Outcomes, Attempts
  <1>5. S!PartnerAcknowledges(r)
    BY <1>3, <1>4 DEF TakeReceipt, S!PartnerAcknowledges, SentBefore
  <1>6. SP!Next
    BY <1>4, <1>5, SenderIsQueue DEF S!Next, S!Handlers
  <1>7. /\ UNCHANGED <<rVars, callVars, sPc, sCur>>
        /\ mdns' = (mdns \ {m}) \cup {n}
    BY DEF TakeReceipt, S!StoreReceipt, S!workerVars
  <1>8. \/ sReceipts' = sReceipts \cup {r}
        \/ sReceipts' = sReceipts /\ sHandling' = sHandling
    BY DEF TakeReceipt, S!StoreReceipt, S!receiptVars
  <1>9. n \in Mdn /\ n.job = m.job /\ n.about = m.about
    BY <1>1 DEF Mdn
  <1>10. n.pc \in {"stored", "reconciled"} => r \in sReceipts'
    <2>1. n.pc = IF sHandling' # sHandling THEN "stored" ELSE "refused"
      BY <1>1 DEF Mdn
    <2> QED
      BY <1>8, <2>1
  <1> QED
    BY <1>6, <1>7, <1>8, <1>9, <1>10

LEMMA FinishReceiptFacts ==
    ASSUME NEW m \in mdns, FinishReceipt(m), m \in Mdn
    PROVE  /\ SP!Next /\ UNCHANGED <<rVars, callVars, sPc, sCur, sReceipts>>
           /\ m.pc = "stored"
           /\ \E n : /\ mdns' = (mdns \ {m}) \cup {n}
                     /\ n \in Mdn /\ n.job = m.job /\ n.about = m.about
  <1> DEFINE n == [m EXCEPT !.pc = "reconciled"]
  <1>1. S!Reconcile(ReceiptFor(m)) /\ m.pc = "stored"
    BY DEF FinishReceipt
  <1>2. SP!Next
    BY <1>1, SenderIsQueue DEF S!Next, S!Handlers, S!Reconcile
  <1>3. UNCHANGED <<rVars, callVars, sPc, sCur, sReceipts>> /\ mdns' = (mdns \ {m}) \cup {n}
    BY DEF FinishReceipt, S!Reconcile, S!workerVars
  <1>4. n \in Mdn /\ n.job = m.job /\ n.about = m.about
    BY DEF Mdn
  <1> QED
    BY <1>1, <1>2, <1>3, <1>4

LEMMA DiscardReceiptAnswerFacts ==
    ASSUME NEW m \in mdns, DiscardReceiptAnswer(m)
    PROVE  UNCHANGED <<sVars, rVars, callVars, faults>> /\ mdns' = mdns \ {m}
  BY DEF DiscardReceiptAnswer

LEMMA SenderHaltsFacts ==
    ASSUME SenderHalts
    PROVE  /\ SP!Next /\ UNCHANGED <<rVars, callVars, sReceipts>>
           /\ mdns' = {} /\ sPc' = "down"
  BY SenderIsQueue DEF SenderHalts, S!Next, S!Process, S!Halt

LEMMA ReceiverHaltsFacts ==
    ASSUME ReceiverHalts
    PROVE  /\ RP!Next /\ UNCHANGED <<sVars, accepted, forgotten, mdns>>
           /\ calls' = {} /\ rPc' = "down"
  BY ReceiverIsQueue DEF ReceiverHalts, Inbound!Die, R!Next, R!Process, R!Halt
-----------------------------------------------------------------------------
(***************************************************************************)
(* What a step does to the two tables: one of the queues moves, a call     *)
(* stores the verdict on a document or queues its J-MDN job, or neither    *)
(* table moves.                                                            *)
(***************************************************************************)
SenderMoves   == SP!Next /\ UNCHANGED rVars
ReceiverMoves == RP!Next /\ UNCHANGED sVars
NeitherMoves  == UNCHANGED <<sVars, rVars>> /\ faults' \in faults .. MaxFaults

OnlyInserts ==
    UNCHANGED <<sVars, rNode, rPartners, rQueueVars>> /\ faults' \in faults .. MaxFaults

Decides(d) ==
    /\ OnlyInserts /\ SentBefore(d)
    /\ \E v \in {"DELIVERED", "QUARANTINED"}, p \in RP!Payload :
          RP!InsertNew(d, "INBOUND", v, p)

Acknowledges(j) ==
    /\ OnlyInserts
    /\ \E p \in RP!Payload : /\ p.about \in Documents /\ Kept(p.about)
                             /\ RP!InsertNew(j, "OUTBOUND", "QUEUED", p)

TableStep ==
    \/ SenderMoves \/ ReceiverMoves \/ NeitherMoves
    \/ \E d \in Documents : Decides(d)
    \/ \E j \in Uuids : Acknowledges(j)

LEMMA TypesUsed ==
    ASSUME IInv
    PROVE  /\ faults \in 0 .. MaxFaults /\ faults \in faults .. MaxFaults
           /\ accepted \in [Ids -> Nat] /\ forgotten \subseteq Ids
           /\ \A c \in calls : c \in Inbound!Call
           /\ \A m \in mdns : m \in Mdn
  <1>1. faults \in 0 .. MaxFaults
    BY DEF IInv, QueuesSafe, SP!Safe, SP!Typed, SP!TypeOK, SP!StoreTypeOK
  <1>2. faults \in faults .. MaxFaults
    BY <1>1, BoundsAssumption
  <1> QED
    BY <1>1, <1>2 DEF IInv, Counted, Vouched, CallVouched, MdnVouched

LEMMA HandleCallTables ==
    ASSUME IInv, NEW c \in calls, HandleCall(c)
    PROVE  TableStep
  <1>1. CallVouched(c)
    BY DEF IInv, Vouched
  <1>2. CASE Inbound!Judge(c) \/ Inbound!StoreRefused(c)
    BY <1>2, JudgeFacts, TypesUsed DEF TableStep, NeitherMoves
  <1>3. CASE Inbound!Store(c)
    <2>1. /\ UNCHANGED <<sVars, rNode, rPartners, rQueueVars, faults>>
          /\ c.verdict \in {"DELIVERED", "QUARANTINED"}
          /\ Inbound!InboundPayload(c) \in RP!Payload
          /\ RP!InsertNew(c.envelope.id, "INBOUND", c.verdict, Inbound!InboundPayload(c))
      BY <1>3, StoreFacts, TypesUsed
    <2>2. OnlyInserts
      BY <2>1, TypesUsed DEF OnlyInserts
    <2>3. Decides(c.envelope.id) /\ c.envelope.id \in Documents
      BY <1>1, <2>1, <2>2 DEF Decides, CallVouched
    <2> QED
      BY <2>3 DEF TableStep
  <1>4. CASE Inbound!QueueReceipt(c)
    <2>1. /\ UNCHANGED <<sVars, rNode, rPartners, rQueueVars>>
          /\ faults' \in faults .. MaxFaults /\ c.pc = "stored"
          /\ Inbound!JobPayload(c) \in RP!Payload /\ Inbound!JobPayload(c).about = c.envelope.id
          /\ \/ UNCHANGED <<rRows, rStamp>>
             \/ \E j \in Uuids : RP!InsertNew(j, "OUTBOUND", "QUEUED", Inbound!JobPayload(c))
      BY <1>4, QueueReceiptFacts, TypesUsed
    <2>2. CASE UNCHANGED <<rRows, rStamp>>
      BY <2>1, <2>2 DEF TableStep, NeitherMoves, rVars, rQueueVars
    <2>3. ASSUME NEW j \in Uuids, RP!InsertNew(j, "OUTBOUND", "QUEUED", Inbound!JobPayload(c))
          PROVE  Acknowledges(j)
      BY <1>1, <2>1, <2>3 DEF Acknowledges, OnlyInserts, CallVouched
    <2> QED
      BY <2>1, <2>2, <2>3 DEF TableStep
  <1> QED
    BY <1>2, <1>3, <1>4 DEF HandleCall, Inbound!Handle

\* Every step of the exchange is one of these.
LEMMA TablesNext == IInv /\ [Next]_vars => TableStep
  <1> SUFFICES ASSUME IInv, [Next]_vars PROVE TableStep
    OBVIOUS
  <1>1. CASE SenderAlone
    BY <1>1, SenderAloneFacts DEF TableStep, SenderMoves
  <1>2. CASE ReceiverAlone
    BY <1>2, ReceiverAloneFacts DEF TableStep, ReceiverMoves
  <1>3. ASSUME NEW d \in Documents, SendDocument(d) PROVE TableStep
    BY <1>3, SendDocumentFacts DEF TableStep, SenderMoves
  <1>4. ASSUME NEW c \in calls, AnswerDocument(c) PROVE TableStep
    BY <1>4, AnswerDocumentFacts DEF TableStep, SenderMoves
  <1>5. ASSUME NEW c \in calls, DiscardAnswer(c) PROVE TableStep
    BY <1>5, DiscardAnswerFacts, TypesUsed DEF TableStep, NeitherMoves
  <1>6. ASSUME NEW j \in Uuids, SendReceipt(j) PROVE TableStep
    BY <1>6, SendReceiptFacts DEF TableStep, ReceiverMoves, IInv, QueuesSafe
  <1>7. ASSUME NEW m \in mdns, AnswerReceipt(m) PROVE TableStep
    BY <1>7, AnswerReceiptFacts DEF TableStep, ReceiverMoves
  <1>8. ASSUME NEW m \in mdns, TakeReceipt(m) PROVE TableStep
    BY <1>8, TakeReceiptFacts DEF TableStep, SenderMoves, IInv
  <1>9. ASSUME NEW m \in mdns, FinishReceipt(m) PROVE TableStep
    BY <1>9, FinishReceiptFacts, TypesUsed DEF TableStep, SenderMoves
  <1>10. ASSUME NEW m \in mdns, DiscardReceiptAnswer(m) PROVE TableStep
    BY <1>10, DiscardReceiptAnswerFacts, TypesUsed DEF TableStep, NeitherMoves
  <1>11. CASE SenderHalts
    BY <1>11, SenderHaltsFacts DEF TableStep, SenderMoves
  <1>12. CASE ReceiverHalts
    BY <1>12, ReceiverHaltsFacts DEF TableStep, ReceiverMoves
  <1>13. CASE UNCHANGED vars
    BY <1>13, TypesUsed DEF vars, TableStep, NeitherMoves
  <1> QED
    BY <1>1, <1>2, <1>3, <1>4, <1>5, <1>6, <1>7, <1>8, <1>9, <1>10, <1>11, <1>12, <1>13,
       StepKinds, HandleCallTables

\* A step beside a queue, in the terms of OutboundQueueProofs.
LEMMA BesideSender ==
    ASSUME UNCHANGED sVars, faults' \in faults .. MaxFaults
    PROVE  SP!Beside
  BY DEF sVars, SP!Beside, SP!queueVars, SP!workerVars, SP!receiptVars, SP!historyVars, SP!tableVars

LEMMA BesideReceiver ==
    ASSUME UNCHANGED <<rNode, rPartners, rQueueVars>>, faults' \in faults .. MaxFaults,
           \/ UNCHANGED <<rRows, rStamp>>
           \/ \E id \in Ids, dir \in {"INBOUND", "OUTBOUND"}, s \in RP!Statuses, p \in RP!Payload :
                 RP!InsertNew(id, dir, s, p)
    PROVE  RP!Beside
  BY DEF rQueueVars, RP!Beside, RP!queueVars, RP!workerVars, RP!receiptVars, RP!historyVars,
         RP!tableVars

LEMMA ReceiverBeside ==
    ASSUME faults' \in faults .. MaxFaults,
           \/ UNCHANGED rVars
           \/ \E d \in Documents : Decides(d)
           \/ \E j \in Uuids : Acknowledges(j)
    PROVE  RP!Beside
  <1>1. CASE UNCHANGED rVars
    BY <1>1, BesideReceiver DEF rVars, rQueueVars
  <1>2. ASSUME NEW d \in Documents, Decides(d) PROVE RP!Beside
    <2>1. d \in Ids /\ "INBOUND" \in {"INBOUND", "OUTBOUND"}
          /\ {"DELIVERED", "QUARANTINED"} \subseteq RP!Statuses
      BY DEF Ids, RP!Statuses
    <2> QED
      BY <1>2, <2>1, BesideReceiver DEF Decides, OnlyInserts
  <1>3. ASSUME NEW j \in Uuids, Acknowledges(j) PROVE RP!Beside
    <2>1. j \in Ids /\ "OUTBOUND" \in {"INBOUND", "OUTBOUND"} /\ "QUEUED" \in RP!Statuses
      BY DEF Ids, RP!Statuses
    <2> QED
      BY <1>3, <2>1, BesideReceiver DEF Acknowledges, OnlyInserts
  <1> QED
    BY <1>1, <1>2, <1>3

\* The node that moves keeps its own invariant, the other one keeps its beside it.
LEMMA QueuesNext == QueuesSafe /\ TableStep => QueuesSafe'
  <1> SUFFICES ASSUME QueuesSafe, TableStep PROVE QueuesSafe'
    OBVIOUS
  <1> USE DEF QueuesSafe
  <1>1. CASE SenderMoves
    <2>1. SP!Safe'
      BY <1>1, SP!TypedNext, SP!CopiedNext, SenderParameters DEF SenderMoves, SP!Safe
    <2>2. faults <= faults'
      BY <1>1, SP!HistoryGrows, SenderParameters DEF SenderMoves, SP!Safe
    <2>3. faults' \in faults .. MaxFaults
      BY <2>1, <2>2, BoundsAssumption DEF SP!Safe, SP!Typed, SP!TypeOK, SP!StoreTypeOK
    <2>4. RP!Beside
      BY <1>1, <2>3, ReceiverBeside DEF SenderMoves
    <2> QED
      BY <2>1, <2>4, RP!SafeBeside, RP!BudgetBeside, ReceiverParameters
  <1>2. CASE ReceiverMoves
    <2>1. RP!Safe'
      BY <1>2, RP!TypedNext, RP!CopiedNext, ReceiverParameters DEF ReceiverMoves, RP!Safe
    <2>2. RP!Budget'
      BY <1>2, <2>1, RP!BudgetNext, ReceiverParameters DEF ReceiverMoves
    <2>3. faults <= faults'
      BY <1>2, RP!HistoryGrows, ReceiverParameters DEF ReceiverMoves, RP!Safe
    <2>4. faults' \in faults .. MaxFaults
      BY <2>1, <2>3, BoundsAssumption DEF RP!Safe, RP!Typed, RP!TypeOK, RP!StoreTypeOK
    <2>5. SP!Beside
      BY <1>2, <2>4, BesideSender DEF ReceiverMoves
    <2> QED
      BY <2>1, <2>2, <2>5, SP!SafeBeside, SenderParameters
  <1>3. CASE NeitherMoves \/ (\E d \in Documents : Decides(d)) \/ (\E j \in Uuids : Acknowledges(j))
    <2>1. UNCHANGED sVars /\ faults' \in faults .. MaxFaults
      BY <1>3 DEF NeitherMoves, Decides, Acknowledges, OnlyInserts
    <2>2. SP!Beside /\ RP!Beside
      BY <1>3, <2>1, BesideSender, ReceiverBeside DEF NeitherMoves
    <2> QED
      BY <2>2, SP!SafeBeside, RP!SafeBeside, RP!BudgetBeside, SenderParameters, ReceiverParameters
  <1> QED
    BY <1>1, <1>2, <1>3 DEF TableStep
-----------------------------------------------------------------------------
(***************************************************************************)
(* Rows.  At the sender, a status moves to DELIVERED only for a document   *)
(* the receiver keeps; at the receiver, the worker settles J-MDN jobs and  *)
(* nothing touches the verdict on a document.                              *)
(***************************************************************************)
SenderRows ==
    \/ SP!Quiet
    \/ \E id \in Ids : SP!Moved(id, "DELIVERED") /\ Kept(id)
    \/ \E id \in Ids : SP!Moved(id, "FAILED")
    \/ \E id \in Ids : SP!InsertNew(id, "OUTBOUND", "QUEUED", Submission)

ReceiverRows ==
    \/ RP!Quiet
    \/ rCur \in Uuids /\ RP!Moved(rCur, "FAILED")
    \/ rCur \in Uuids /\ RP!Moved(rCur, "DELIVERED") /\ Receipted(AboutOf(rCur))

LEMMA SenderRowsMove == IInv /\ SenderMoves => SenderRows
  <1> SUFFICES ASSUME IInv, SenderMoves PROVE SenderRows
    OBVIOUS
  <1>1. SP!Moves
    BY SP!MovesNext, SenderParameters DEF SenderMoves, IInv, QueuesSafe
  <1>2. CASE sPc = "ok" /\ SP!Moved(sCur, "DELIVERED")
    BY <1>2 DEF SenderRows, IInv, Vouched, WorkersVouched, SP!Moved
  <1>3. CASE SP!Moved(sCur, "FAILED")
    BY <1>3 DEF SenderRows, SP!Moved
  <1>4. ASSUME NEW r \in sHandling, SP!Moved(r.about, r.outcome) PROVE SenderRows
    <2>1. r \in sReceipts
      BY DEF IInv, QueuesSafe, SP!Safe, SP!Typed, SP!TypeOK
    <2>2. r.outcome = "DELIVERED" /\ Kept(r.about) /\ r.about \in Ids
      BY <2>1 DEF IInv, Vouched, ReceiptVouched, Ids
    <2> QED
      BY <1>4, <2>2 DEF SenderRows
  <1> QED
    BY <1>1, <1>2, <1>3, <1>4 DEF SP!Moves, SenderRows

LEMMA ReceiverRowsMove == IInv /\ ReceiverMoves => ReceiverRows
  <1> SUFFICES ASSUME IInv, ReceiverMoves PROVE ReceiverRows
    OBVIOUS
  <1>1. RP!Moves
    BY RP!MovesNext, ReceiverParameters DEF ReceiverMoves, IInv, QueuesSafe
  <1>2. ASSUME rPc \in {"ok", "retryable", "fatal"} PROVE rCur \in Uuids
    <2>1. rCur \in Ids /\ RP!Stored(rBatch, rCur)
      BY <1>2 DEF IInv, QueuesSafe, RP!Safe, RP!Typed, RP!Position, RP!Delivering
    <2> QED
      BY <2>1 DEF IInv, Vouched, WorkersVouched
  <1>3. rHandling = {}
    BY DEF IInv, QueuesSafe, RP!Safe, RP!Typed, RP!TypeOK, RP!Receipt
  <1>4. rPc = "ok" => Receipted(AboutOf(rCur))
    BY DEF IInv, Vouched, WorkersVouched
  <1> QED
    BY <1>1, <1>2, <1>3, <1>4 DEF RP!Moves, ReceiverRows

\* What a step can never take back.
Grows ==
    /\ \A id \in Ids : SentBefore(id) => SentBefore(id)'
    /\ \A id \in Ids : RP!Stored(rRows, id) =>
          RP!Stored(rRows, id)' /\ AboutOf(id)' = AboutOf(id)
    /\ \A d \in Documents : RP!Stored(rRows, d) => rRows'[d].status = rRows[d].status
    /\ sReceipts \subseteq sReceipts'

LEMMA SenderGrows ==
    ASSUME IInv, SenderMoves
    PROVE  /\ \A id \in Ids : SentBefore(id) => SentBefore(id)'
           /\ sReceipts \subseteq sReceipts'
  <1>1. /\ sReceipts \subseteq sReceipts'
        /\ \A id \in Ids : sPosts[id] <= sPosts'[id]
    BY SP!HistoryGrows, SenderParameters DEF SenderMoves, IInv, QueuesSafe, SP!Safe
  <1>2. sPosts \in [Ids -> Nat] /\ sPosts' \in [Ids -> Nat]
    BY SP!TypedNext, SenderParameters
    DEF SenderMoves, IInv, QueuesSafe, SP!Safe, SP!Typed, SP!TypeOK
  <1>3. ASSUME NEW id \in Ids, sPosts[id] > 0 PROVE sPosts'[id] > 0
    <2>1. sPosts[id] <= sPosts'[id] /\ sPosts[id] \in Nat /\ sPosts'[id] \in Nat
      BY <1>1, <1>2
    <2> QED
      BY <1>3, <2>1
  <1>4. ASSUME NEW id \in Ids, SP!Stored(sRows, id) PROVE SP!Stored(sRows', id)
    <2>1. SenderRows
      BY SenderRowsMove
    <2>2. CASE SP!Quiet
      BY <1>4, <2>2 DEF SP!Quiet, SP!Stored
    <2>3. ASSUME NEW i \in Ids, NEW s \in {"DELIVERED", "FAILED"}, SP!Moved(i, s)
          PROVE  SP!Stored(sRows', id)
      BY <1>4, <2>3 DEF SP!Moved, SP!Stored
    <2>4. ASSUME NEW i \in Ids, SP!InsertNew(i, "OUTBOUND", "QUEUED", Submission)
          PROVE  SP!Stored(sRows', id)
      <3>1. i # id /\ sRows' = [sRows EXCEPT ![i] = SP!NewRow("OUTBOUND", "QUEUED", Submission, sStamp)]
        BY <1>4, <2>4 DEF SP!InsertNew, SP!CanInsert, SP!Insert
      <3> QED
        BY <1>4, <3>1 DEF SP!Stored, IInv, QueuesSafe, SP!Safe, SP!Typed, SP!TypeOK, SP!StoreTypeOK
    <2> QED
      BY <2>1, <2>2, <2>3, <2>4 DEF SenderRows
  <1> QED
    BY <1>1, <1>3, <1>4 DEF SentBefore

\* A row inserted at the receiver leaves every other row as it was.
LEMMA ReceiverInserts ==
    ASSUME IInv, NEW id \in Ids, NEW dir \in {"INBOUND", "OUTBOUND"}, NEW s \in RP!Statuses,
           NEW p \in RP!Payload, RP!InsertNew(id, dir, s, p)
    PROVE  /\ ~RP!Stored(rRows, id) /\ RP!Stored(rRows, id)'
           /\ rRows'[id].status = s /\ AboutOf(id)' = p.about
           /\ \A j \in Ids : j # id => rRows'[j] = rRows[j]
  <1>1. ~RP!Stored(rRows, id) /\ rRows' = [rRows EXCEPT ![id] = RP!NewRow(dir, s, p, rStamp)]
    BY DEF RP!InsertNew, RP!CanInsert, RP!Insert
  <1>2. rRows \in [Ids -> RP!Row]
    BY DEF IInv, QueuesSafe, RP!Safe, RP!Typed, RP!TypeOK, RP!StoreTypeOK
  <1>3. rRows'[id] = RP!NewRow(dir, s, p, rStamp) /\ \A j \in Ids : j # id => rRows'[j] = rRows[j]
    BY <1>1, <1>2
  <1> DEFINE row == RP!NewRow(dir, s, p, rStamp)
  <1>4. row.status = s /\ row.payload = p
    BY DEF RP!NewRow
  <1> QED
    BY <1>1, <1>3, <1>4 DEF RP!Stored, RP!Statuses, AboutOf

LEMMA StepGrows == IInv /\ TableStep => Grows
  <1> SUFFICES ASSUME IInv, TableStep PROVE Grows
    OBVIOUS
  <1>1. CASE SenderMoves
    BY <1>1, SenderGrows DEF SenderMoves, Grows, rVars, RP!Stored, AboutOf
  <1>2. UNCHANGED sVars => \A id \in Ids : SentBefore(id) => SentBefore(id)'
    BY DEF sVars, SentBefore, SP!Stored
  <1>3. CASE ReceiverMoves
    <2>1. ReceiverRows /\ UNCHANGED sVars
      BY <1>3, ReceiverRowsMove DEF ReceiverMoves
    <2>2. CASE RP!Quiet
      BY <1>2, <2>1, <2>2 DEF RP!Quiet, RP!SameFacts, RP!Stored, AboutOf, Grows, sVars, Ids
    <2>3. ASSUME NEW s \in {"DELIVERED", "FAILED"}, rCur \in Uuids, RP!Moved(rCur, s) PROVE Grows
      <3>1. \A d \in Documents : d # rCur
        BY <2>3, DocumentsAssumption
      <3> QED
        BY <1>2, <2>1, <2>3, <3>1 DEF RP!Moved, RP!SameFacts, RP!Stored, AboutOf, Grows, sVars, Ids
    <2> QED
      BY <2>1, <2>2, <2>3 DEF ReceiverRows
  <1>4. CASE NeitherMoves
    BY <1>2, <1>4 DEF NeitherMoves, Grows, rVars, sVars, RP!Stored, AboutOf
  <1>5. ASSUME NEW id \in Ids, NEW dir \in {"INBOUND", "OUTBOUND"}, NEW s \in RP!Statuses,
               NEW p \in RP!Payload, RP!InsertNew(id, dir, s, p), UNCHANGED sVars
        PROVE  Grows
    <2>1. ~RP!Stored(rRows, id) /\ \A j \in Ids : j # id => rRows'[j] = rRows[j]
      BY <1>5, ReceiverInserts
    <2> QED
      BY <1>2, <1>5, <2>1 DEF Grows, RP!Stored, AboutOf, sVars, Ids
  <1>6. ASSUME NEW d \in Documents, Decides(d) PROVE Grows
    BY <1>5, <1>6 DEF Decides, OnlyInserts, Ids, RP!Statuses
  <1>7. ASSUME NEW j \in Uuids, Acknowledges(j) PROVE Grows
    BY <1>5, <1>7 DEF Acknowledges, OnlyInserts, Ids, RP!Statuses
  <1> QED
    BY <1>1, <1>3, <1>4, <1>6, <1>7 DEF TableStep

LEMMA KeptStays ==
    ASSUME Grows
    PROVE  /\ \A d \in Documents : Kept(d) => Kept(d)'
           /\ \A d : Receipted(d) => Receipted(d)'
  BY DEF Grows, Kept, Receipted, RP!Stored, Ids

LEMMA DocumentsNext ==
    IInv /\ TableStep => \A d \in Documents : DocumentVouched(d)'
  <1> SUFFICES ASSUME IInv, TableStep, NEW d \in Documents PROVE DocumentVouched(d)'
    OBVIOUS
  <1>1. DocumentVouched(d) /\ Grows /\ d \in Ids
    BY StepGrows DEF IInv, Vouched, Ids
  <1>2. CASE rRows'[d].status = rRows[d].status
    BY <1>1, <1>2 DEF DocumentVouched, RP!Stored, Grows
  <1>3. CASE Decides(d)
    <2>1. PICK v \in {"DELIVERED", "QUARANTINED"}, p \in RP!Payload :
             RP!InsertNew(d, "INBOUND", v, p)
      BY <1>3 DEF Decides
    <2>2. v \in RP!Statuses /\ "INBOUND" \in {"INBOUND", "OUTBOUND"}
      BY DEF RP!Statuses
    <2>3. rRows'[d].status = v
      BY <1>1, <2>1, <2>2, ReceiverInserts
    <2>4. SentBefore(d)'
      BY <1>1, <1>3 DEF Decides, Grows
    <2> QED
      BY <2>3, <2>4 DEF DocumentVouched
  <1>4. CASE SenderMoves \/ NeitherMoves
    BY <1>2, <1>4 DEF SenderMoves, NeitherMoves, rVars
  <1>5. CASE ReceiverMoves
    <2>1. ReceiverRows
      BY <1>5, ReceiverRowsMove
    <2>2. rCur \in Uuids => d # rCur
      BY DocumentsAssumption
    <2>3. rRows'[d].status = rRows[d].status
      BY <1>1, <2>1, <2>2 DEF ReceiverRows, RP!Quiet, RP!Moved
    <2> QED
      BY <1>2, <2>3
  <1>6. ASSUME NEW e \in Documents, e # d, Decides(e) PROVE rRows'[d].status = rRows[d].status
    <2>1. PICK v \in {"DELIVERED", "QUARANTINED"}, p \in RP!Payload :
             RP!InsertNew(e, "INBOUND", v, p)
      BY <1>6 DEF Decides
    <2>2. v \in RP!Statuses /\ "INBOUND" \in {"INBOUND", "OUTBOUND"} /\ e \in Ids
      BY DEF RP!Statuses, Ids
    <2> QED
      BY <1>1, <1>6, <2>1, <2>2, ReceiverInserts
  <1>7. ASSUME NEW j \in Uuids, Acknowledges(j) PROVE rRows'[d].status = rRows[d].status
    <2>1. PICK p \in RP!Payload : RP!InsertNew(j, "OUTBOUND", "QUEUED", p)
      BY <1>7 DEF Acknowledges
    <2>2. "QUEUED" \in RP!Statuses /\ "OUTBOUND" \in {"INBOUND", "OUTBOUND"} /\ j \in Ids /\ d # j
      BY DocumentsAssumption DEF RP!Statuses, Ids
    <2> QED
      BY <1>1, <2>1, <2>2, ReceiverInserts
  <1> QED
    BY <1>2, <1>3, <1>4, <1>5, <1>6, <1>7 DEF TableStep

LEMMA JobsNext ==
    IInv /\ TableStep => \A j \in Uuids : JobVouched(j)'
  <1> SUFFICES ASSUME IInv, TableStep, NEW j \in Uuids PROVE JobVouched(j)'
    OBVIOUS
  <1>1. JobVouched(j) /\ Grows /\ j \in Ids
    BY StepGrows DEF IInv, Vouched, Ids
  <1>2. RP!Stored(rRows, j) =>
            /\ AboutOf(j)' = AboutOf(j) /\ AboutOf(j) \in Documents /\ Kept(AboutOf(j))'
            /\ Receipted(AboutOf(j)) => Receipted(AboutOf(j))'
    BY <1>1, KeptStays DEF JobVouched, Grows, Kept, Receipted
  <1>3. CASE rRows'[j].status = rRows[j].status
    <2>1. RP!Stored(rRows, j)' => RP!Stored(rRows, j)
      BY <1>3 DEF RP!Stored
    <2> QED
      BY <1>1, <1>2, <1>3, <2>1 DEF JobVouched
  <1>4. CASE SenderMoves \/ NeitherMoves
    BY <1>3, <1>4 DEF SenderMoves, NeitherMoves, rVars
  <1>5. CASE ReceiverMoves
    <2>1. ReceiverRows
      BY <1>5, ReceiverRowsMove
    <2>2. CASE RP!Moved(j, "FAILED")
      BY <1>2, <2>2 DEF JobVouched, RP!Moved
    <2>3. CASE RP!Moved(j, "DELIVERED") /\ Receipted(AboutOf(j))
      BY <1>2, <2>3 DEF JobVouched, RP!Moved
    <2> QED
      BY <1>1, <1>3, <2>1, <2>2, <2>3 DEF ReceiverRows, RP!Quiet, RP!Moved
  <1>6. ASSUME NEW d \in Documents, Decides(d) PROVE rRows'[j].status = rRows[j].status
    <2>1. PICK v \in {"DELIVERED", "QUARANTINED"}, p \in RP!Payload :
             RP!InsertNew(d, "INBOUND", v, p)
      BY <1>6 DEF Decides
    <2>2. v \in RP!Statuses /\ "INBOUND" \in {"INBOUND", "OUTBOUND"} /\ d \in Ids /\ d # j
      BY DocumentsAssumption DEF RP!Statuses, Ids
    <2> QED
      BY <1>1, <2>1, <2>2, ReceiverInserts
  <1>7. ASSUME NEW i \in Uuids, Acknowledges(i) PROVE JobVouched(j)'
    <2>1. PICK p \in RP!Payload : /\ RP!InsertNew(i, "OUTBOUND", "QUEUED", p)
                                  /\ p.about \in Documents /\ Kept(p.about)
      BY <1>7 DEF Acknowledges
    <2>2. "QUEUED" \in RP!Statuses /\ "OUTBOUND" \in {"INBOUND", "OUTBOUND"} /\ i \in Ids
      BY DEF RP!Statuses, Ids
    <2>3. /\ rRows'[i].status = "QUEUED" /\ AboutOf(i)' = p.about
          /\ \A k \in Ids : k # i => rRows'[k] = rRows[k]
      BY <2>1, <2>2, ReceiverInserts
    <2>4. CASE i = j
      <3>1. Kept(p.about)'
        BY <1>1, <2>1, KeptStays
      <3> QED
        BY <2>1, <2>3, <2>4, <3>1 DEF JobVouched, Kept
    <2>5. CASE i # j
      BY <1>1, <1>3, <2>3, <2>5
    <2> QED
      BY <2>4, <2>5
  <1> QED
    BY <1>3, <1>4, <1>5, <1>6, <1>7 DEF TableStep

LEMMA SenderRowsNext ==
    IInv /\ TableStep => \A id \in Ids : SenderRowVouched(id)'
  <1> SUFFICES ASSUME IInv, TableStep, NEW id \in Ids PROVE SenderRowVouched(id)'
    OBVIOUS
  <1>1. SenderRowVouched(id)
    BY DEF IInv, Vouched
  <1>2. CASE UNCHANGED sVars
    BY <1>1, <1>2 DEF sVars, SenderRowVouched
  <1>3. CASE SenderMoves
    <2>1. SenderRows
      BY <1>3, SenderRowsMove
    <2>2. CASE SP!Quiet
      BY <1>1, <2>2 DEF SP!Quiet, SP!SameFacts, SenderRowVouched
    <2>3. ASSUME NEW i \in Ids, NEW s \in {"DELIVERED", "FAILED"}, SP!Moved(i, s)
          PROVE  SenderRowVouched(id)'
      BY <1>1, <2>3 DEF SP!Moved, SP!SameFacts, SenderRowVouched
    <2>4. ASSUME NEW i \in Ids, SP!InsertNew(i, "OUTBOUND", "QUEUED", Submission)
          PROVE  SenderRowVouched(id)'
      <3> DEFINE row == SP!NewRow("OUTBOUND", "QUEUED", Submission, sStamp)
      <3>1. row.status = "QUEUED" /\ row.job = "process_outbound"
        BY DEF SP!NewRow, SP!ResolveJobType, Submission
      <3>2. sRows' = [sRows EXCEPT ![i] = row] /\ sRows \in [Ids -> SP!Row]
        BY <2>4 DEF SP!InsertNew, SP!Insert, IInv, QueuesSafe, SP!Safe, SP!Typed, SP!TypeOK,
                    SP!StoreTypeOK
      <3> HIDE DEF row
      <3> QED
        BY <1>1, <3>1, <3>2 DEF SenderRowVouched
    <2> QED
      BY <2>1, <2>2, <2>3, <2>4 DEF SenderRows
  <1> QED
    BY <1>2, <1>3
    DEF TableStep, ReceiverMoves, NeitherMoves, Decides, Acknowledges, OnlyInserts
-----------------------------------------------------------------------------
(***************************************************************************)
(* What is on its way.  A call, a receipt or an answer that a step adds is *)
(* vouched for when it is added; Grows keeps it so.                        *)
(***************************************************************************)
LEMMA CallStaysVouched ==
    ASSUME Grows, NEW c, CallVouched(c)
    PROVE  CallVouched(c)'
  BY KeptStays DEF CallVouched, Grows, Ids

LEMMA HandledCallVouched ==
    ASSUME IInv, Grows, NEW c \in calls, HandleCall(c)
    PROVE  \E d : CallTurnsInto(c, d) /\ CallVouched(d)'
  <1>1. /\ CallVouched(c) /\ c.envelope.id \in Documents /\ c.envelope.kind = "document"
        /\ SentBefore(c.envelope.id)'
    BY DEF IInv, Vouched, CallVouched, Grows, Ids
  <1>2. ASSUME NEW d, CallTurnsInto(c, d), Promises(d) => Kept(c.envelope.id)'
        PROVE  CallVouched(d)'
    BY <1>1, <1>2 DEF CallTurnsInto, Promises, CallVouched
  <1>3. CASE Inbound!Judge(c) \/ Inbound!StoreRefused(c)
    <2>1. PICK d : CallTurnsInto(c, d) /\ ~Promises(d)
      BY <1>3, JudgeFacts, TypesUsed
    <2> QED
      BY <1>2, <2>1
  <1>4. CASE Inbound!Store(c)
    <2>1. /\ c.verdict \in {"DELIVERED", "QUARANTINED"}
          /\ Inbound!InboundPayload(c) \in RP!Payload
          /\ RP!InsertNew(c.envelope.id, "INBOUND", c.verdict, Inbound!InboundPayload(c))
          /\ \E d : CallTurnsInto(c, d) /\ (Promises(d) => c.verdict = "DELIVERED")
      BY <1>4, StoreFacts, TypesUsed
    <2>2. /\ c.envelope.id \in Ids /\ c.verdict \in RP!Statuses
          /\ "INBOUND" \in {"INBOUND", "OUTBOUND"}
      BY <1>1, <2>1 DEF Ids, RP!Statuses
    <2>3. rRows'[c.envelope.id].status = c.verdict
      BY <2>1, <2>2, ReceiverInserts
    <2>4. PICK d : CallTurnsInto(c, d) /\ (Promises(d) => c.verdict = "DELIVERED")
      BY <2>1
    <2>5. Promises(d) => Kept(c.envelope.id)'
      BY <2>3, <2>4 DEF Kept
    <2> QED
      BY <1>2, <2>4, <2>5
  <1>5. CASE Inbound!QueueReceipt(c)
    <2>1. c.pc = "stored" /\ \E d : CallTurnsInto(c, d)
      BY <1>5, QueueReceiptFacts, TypesUsed
    <2>2. Kept(c.envelope.id)'
      BY <1>1, <2>1, KeptStays DEF CallVouched
    <2> QED
      BY <1>2, <2>1, <2>2
  <1> QED
    BY <1>3, <1>4, <1>5 DEF HandleCall, Inbound!Handle

LEMMA SentCallVouched ==
    ASSUME IInv, NEW d \in Documents, SendDocument(d), NEW ok \in Soundness,
           NEW c, c = Inbound!NewCall(Envelope(d, ok), sPosts[d] + 1)
    PROVE  CallVouched(c)'
  <1>1. /\ d \in Ids /\ SP!Stored(sBatch, d) /\ sPc' = "post"
        /\ sPosts' = [sPosts EXCEPT ![d] = sPosts[d] + 1]
    BY SendDocumentFacts
  <1>2. SP!Stored(sRows, d) /\ sPosts \in [Ids -> Nat]
    BY <1>1 DEF IInv, QueuesSafe, SP!Safe, SP!Copied, SP!Typed, SP!TypeOK
  <1>3. sRows' = sRows
    BY DEF SendDocument, S!Post, S!tableVars
  <1>4. SentBefore(d)'
    <2>1. sPosts[d] \in Nat /\ sPosts'[d] = sPosts[d] + 1
      BY <1>1, <1>2
    <2>2. sPosts'[d] > 0
      BY <2>1
    <2> QED
      BY <1>2, <1>3, <2>2 DEF SentBefore, SP!Stored
  <1>5. Envelope(d, ok) \in Inbound!EnvelopeType
    BY <1>1, SoundnessAssumption DEF Envelope, Inbound!EnvelopeType, Nodes
  <1>6. sPosts[d] + 1 \in Nat
    BY <1>1, <1>2
  <1>7. /\ c \in Inbound!Call /\ c.envelope = Envelope(d, ok) /\ c.pc = "arrived"
    BY <1>5, <1>6 DEF Inbound!NewCall, Inbound!Call, Inbound!Verdicts, Inbound!Answers
  <1>8. Envelope(d, ok).id = d /\ Envelope(d, ok).kind = "document"
    BY DEF Envelope
  <1>9. c.envelope.id = d /\ c.envelope.kind = "document"
    BY <1>7, <1>8
  <1> QED
    BY <1>4, <1>7, <1>9 DEF CallVouched

LEMMA CallsNext ==
    IInv /\ Grows /\ [Next]_vars => \A c \in calls' : CallVouched(c)'
  <1> SUFFICES ASSUME IInv, Grows, [Next]_vars, NEW e \in calls' PROVE CallVouched(e)'
    OBVIOUS
  <1>1. CASE e \in calls
    BY <1>1, CallStaysVouched DEF IInv, Vouched
  <1>2. ASSUME NEW d \in Documents, SendDocument(d) PROVE CallVouched(e)'
    <2>1. \/ UNCHANGED calls
          \/ \E ok \in Soundness :
                calls' = calls \cup {Inbound!NewCall(Envelope(d, ok), sPosts[d] + 1)}
      BY <1>2, SendDocumentFacts
    <2>2. ASSUME NEW ok \in Soundness, e = Inbound!NewCall(Envelope(d, ok), sPosts[d] + 1)
          PROVE  CallVouched(e)'
      BY <1>2, <2>2, SentCallVouched
    <2> QED
      BY <1>1, <2>1, <2>2
  <1>3. ASSUME NEW c \in calls, HandleCall(c) PROVE CallVouched(e)'
    <2>1. PICK d : CallTurnsInto(c, d) /\ CallVouched(d)'
      BY <1>3, HandledCallVouched
    <2> QED
      BY <1>1, <2>1 DEF CallTurnsInto
  <1>4. CASE SenderAlone
    BY <1>1, <1>4, SenderAloneFacts DEF callVars
  <1>5. CASE ReceiverAlone
    BY <1>1, <1>5, ReceiverAloneFacts DEF callVars
  <1>6. ASSUME NEW c \in calls, AnswerDocument(c) PROVE CallVouched(e)'
    BY <1>1, <1>6, AnswerDocumentFacts
  <1>7. ASSUME NEW c \in calls, DiscardAnswer(c) PROVE CallVouched(e)'
    BY <1>1, <1>7, DiscardAnswerFacts
  <1>8. ASSUME NEW j \in Uuids, SendReceipt(j) PROVE CallVouched(e)'
    BY <1>1, <1>8, SendReceiptFacts DEF IInv, QueuesSafe, callVars
  <1>9. ASSUME NEW m \in mdns, AnswerReceipt(m) PROVE CallVouched(e)'
    BY <1>1, <1>9, AnswerReceiptFacts DEF callVars
  <1>10. ASSUME NEW m \in mdns, TakeReceipt(m) PROVE CallVouched(e)'
    BY <1>1, <1>10, TakeReceiptFacts DEF IInv, callVars
  <1>11. ASSUME NEW m \in mdns, FinishReceipt(m) PROVE CallVouched(e)'
    BY <1>1, <1>11, FinishReceiptFacts, TypesUsed DEF callVars
  <1>12. ASSUME NEW m \in mdns, DiscardReceiptAnswer(m) PROVE CallVouched(e)'
    BY <1>1, <1>12, DiscardReceiptAnswerFacts DEF callVars
  <1>13. CASE SenderHalts
    BY <1>1, <1>13, SenderHaltsFacts DEF callVars
  <1>14. CASE ReceiverHalts
    BY <1>14, ReceiverHaltsFacts
  <1>15. CASE UNCHANGED vars
    BY <1>1, <1>15 DEF vars, callVars
  <1> QED
    BY <1>2, <1>3, <1>4, <1>5, <1>6, <1>7, <1>8, <1>9, <1>10, <1>11, <1>12, <1>13, <1>14,
       <1>15, StepKinds

LEMMA MdnStaysVouched ==
    ASSUME Grows, NEW m, MdnVouched(m)
    PROVE  MdnVouched(m)'
  <1>1. m \in Mdn /\ m.job \in Ids
    BY DEF MdnVouched, Mdn, Ids
  <1> QED
    BY <1>1, KeptStays DEF MdnVouched, Grows

\* A receipt in flight carries its job's attempt, which the budget of the queue bounds.
LEMMA SentMdnVouched ==
    ASSUME IInv, QueuesSafe', NEW j \in Uuids, SendReceipt(j),
           NEW m, m = [job |-> j, about |-> AboutOf(j), try |-> rPosts[j] + 1, pc |-> "arrived"]
    PROVE  MdnVouched(m)'
  <1>1. /\ RP!Stored(rRows, j) /\ UNCHANGED rRows /\ j \in Ids
        /\ rPosts' = [rPosts EXCEPT ![j] = rPosts[j] + 1]
    BY SendReceiptFacts DEF IInv, QueuesSafe, Ids
  <1>2. AboutOf(j) \in Documents
    BY <1>1 DEF IInv, Vouched, JobVouched
  <1>3. rPosts \in [Ids -> Nat]
    BY DEF IInv, QueuesSafe, RP!Safe, RP!Typed, RP!TypeOK
  <1>4. rPosts'[j] = rPosts[j] + 1 /\ rPosts[j] \in Nat
    BY <1>1, <1>3
  <1>5. rPosts'[j] <= MaxRetries + faults'
    BY <1>1 DEF QueuesSafe, RP!Budget, RP!AttemptsBounded
  <1>6. faults' \in 0 .. MaxFaults
    BY DEF QueuesSafe, RP!Safe, RP!Typed, RP!TypeOK, RP!StoreTypeOK
  <1>7. rPosts[j] + 1 \in Attempts
    BY <1>4, <1>5, <1>6, BoundsAssumption DEF Attempts
  <1>8. m \in Mdn /\ m.job = j /\ m.about = AboutOf(j) /\ m.pc = "arrived"
    BY <1>2, <1>7 DEF Mdn
  <1> QED
    BY <1>1, <1>8 DEF MdnVouched, AboutOf, RP!Stored

LEMMA MdnsNext ==
    IInv /\ QueuesSafe' /\ Grows /\ [Next]_vars => \A m \in mdns' : MdnVouched(m)'
  <1> SUFFICES ASSUME IInv, QueuesSafe', Grows, [Next]_vars, NEW n \in mdns'
               PROVE  MdnVouched(n)'
    OBVIOUS
  <1>1. CASE n \in mdns
    BY <1>1, MdnStaysVouched DEF IInv, Vouched
  <1>2. ASSUME NEW m \in mdns PROVE MdnVouched(m) /\ MdnVouched(m)'
    BY MdnStaysVouched DEF IInv, Vouched
  <1>3. ASSUME NEW j \in Uuids, SendReceipt(j) PROVE MdnVouched(n)'
    <2>1. \/ UNCHANGED mdns
          \/ mdns' = mdns \cup {[job |-> j, about |-> AboutOf(j),
                                 try |-> rPosts[j] + 1, pc |-> "arrived"]}
      BY <1>3, SendReceiptFacts DEF IInv, QueuesSafe
    <2> QED
      BY <1>1, <1>3, <2>1, SentMdnVouched
  <1>4. ASSUME NEW m \in mdns, TakeReceipt(m) PROVE MdnVouched(n)'
    <2>1. PICK k : /\ mdns' = (mdns \ {m}) \cup {k}
                   /\ k \in Mdn /\ k.job = m.job /\ k.about = m.about
                   /\ k.pc \in {"stored", "reconciled"} => ReceiptFor(m) \in sReceipts'
      BY <1>4, TakeReceiptFacts DEF IInv
    <2>2. k.pc \in {"stored", "reconciled"} => Receipted(k.about)'
      BY <2>1 DEF Receipted, ReceiptFor
    <2>3. MdnVouched(k)'
      BY <1>2, <2>1, <2>2 DEF MdnVouched
    <2> QED
      BY <1>1, <2>1, <2>3
  <1>5. ASSUME NEW m \in mdns, FinishReceipt(m) PROVE MdnVouched(n)'
    <2>1. PICK k : /\ mdns' = (mdns \ {m}) \cup {k} /\ m.pc = "stored"
                   /\ k \in Mdn /\ k.job = m.job /\ k.about = m.about
      BY <1>5, FinishReceiptFacts, TypesUsed
    <2>2. MdnVouched(k)'
      BY <1>2, <2>1 DEF MdnVouched
    <2> QED
      BY <1>1, <2>1, <2>2
  <1>6. CASE SenderAlone
    BY <1>1, <1>6, SenderAloneFacts
  <1>7. CASE ReceiverAlone
    BY <1>1, <1>7, ReceiverAloneFacts
  <1>8. ASSUME NEW d \in Documents, SendDocument(d) PROVE MdnVouched(n)'
    BY <1>1, <1>8, SendDocumentFacts
  <1>9. ASSUME NEW c \in calls, AnswerDocument(c) \/ HandleCall(c) \/ DiscardAnswer(c)
        PROVE  MdnVouched(n)'
    BY <1>1, <1>9 DEF AnswerDocument, HandleCall, DiscardAnswer
  <1>10. ASSUME NEW m \in mdns, AnswerReceipt(m) PROVE MdnVouched(n)'
    BY <1>1, <1>10, AnswerReceiptFacts
  <1>11. ASSUME NEW m \in mdns, DiscardReceiptAnswer(m) PROVE MdnVouched(n)'
    BY <1>1, <1>11, DiscardReceiptAnswerFacts
  <1>12. CASE SenderHalts
    BY <1>12, SenderHaltsFacts
  <1>13. CASE ReceiverHalts
    BY <1>1, <1>13, ReceiverHaltsFacts
  <1>14. CASE UNCHANGED vars
    BY <1>1, <1>14 DEF vars
  <1> QED
    BY <1>3, <1>4, <1>5, <1>6, <1>7, <1>8, <1>9, <1>10, <1>11, <1>12, <1>13, <1>14, StepKinds

LEMMA ReceiptStaysVouched ==
    ASSUME Grows, NEW r, ReceiptVouched(r)
    PROVE  ReceiptVouched(r)'
  <1>1. r.about \in Documents /\ r.outcome = "DELIVERED" /\ Kept(r.about)'
    BY KeptStays DEF ReceiptVouched
  <1>2. PICK j \in Uuids : RP!Stored(rRows, j) /\ AboutOf(j) = r.about
    BY DEF ReceiptVouched
  <1>3. RP!Stored(rRows, j)' /\ AboutOf(j)' = r.about
    BY <1>2 DEF Grows, Ids
  <1> QED
    BY <1>1, <1>3 DEF ReceiptVouched

LEMMA ReceiptsNext ==
    IInv /\ Grows /\ [Next]_vars => \A r \in sReceipts' : ReceiptVouched(r)'
  <1> SUFFICES ASSUME IInv, Grows, [Next]_vars, NEW r \in sReceipts' PROVE ReceiptVouched(r)'
    OBVIOUS
  <1>1. CASE r \in sReceipts
    BY <1>1, ReceiptStaysVouched DEF IInv, Vouched
  <1>2. ASSUME NEW m \in mdns, TakeReceipt(m) PROVE ReceiptVouched(r)'
    <2>1. r \in sReceipts \/ r = ReceiptFor(m)
      BY <1>2, TakeReceiptFacts DEF IInv
    <2>2. m \in Mdn /\ RP!Stored(rRows, m.job) /\ m.about = AboutOf(m.job)
      BY DEF IInv, Vouched, MdnVouched
    <2>3. m.job \in Uuids /\ AboutOf(m.job) \in Documents /\ Kept(AboutOf(m.job))
      BY <2>2 DEF IInv, Vouched, JobVouched, Mdn
    <2>4. CASE r = ReceiptFor(m)
      <3>1. r.about = m.about /\ r.outcome = "DELIVERED"
        BY <2>4 DEF ReceiptFor, Disposition
      <3>2. ReceiptVouched(r)
        BY <2>2, <2>3, <3>1 DEF ReceiptVouched
      <3> QED
        BY <3>2, ReceiptStaysVouched
    <2> QED
      BY <1>1, <2>1, <2>4
  <1>3. CASE SenderAlone
    BY <1>1, <1>3, SenderAloneFacts
  <1>4. ASSUME NEW d \in Documents, SendDocument(d) PROVE ReceiptVouched(r)'
    BY <1>1, <1>4, SendDocumentFacts
  <1>5. ASSUME NEW c \in calls, AnswerDocument(c) PROVE ReceiptVouched(r)'
    BY <1>1, <1>5, AnswerDocumentFacts
  <1>6. ASSUME NEW m \in mdns, FinishReceipt(m) PROVE ReceiptVouched(r)'
    BY <1>1, <1>6, FinishReceiptFacts, TypesUsed
  <1>7. CASE SenderHalts
    BY <1>1, <1>7, SenderHaltsFacts
  <1>8. CASE UNCHANGED sVars
    BY <1>1, <1>8 DEF sVars
  <1>9. ReceiverAlone => UNCHANGED sVars
    BY ReceiverAloneFacts
  <1> QED
    BY <1>2, <1>3, <1>4, <1>5, <1>6, <1>7, <1>8, <1>9, StepKinds
    DEF HandleCall, DiscardAnswer, SendReceipt, AnswerReceipt, DiscardReceiptAnswer,
        ReceiverHalts, vars

LEMMA SenderWorkerNext ==
    ASSUME IInv, Grows, [Next]_vars, sPc' = "ok"
    PROVE  sCur' \in Documents /\ Kept(sCur)'
  <1>1. CASE sPc = "ok" /\ sCur' = sCur
    <2>1. sCur \in Documents /\ Kept(sCur)
      BY <1>1 DEF IInv, Vouched, WorkersVouched
    <2> QED
      BY <1>1, <2>1, KeptStays DEF Kept
  <1>2. ASSUME NEW c \in calls, AnswerDocument(c) PROVE sCur' \in Documents /\ Kept(sCur)'
    <2>1. c.pc = "answered" /\ c.answer = "202" /\ sCur' = c.envelope.id
      BY <1>2, AnswerDocumentFacts
    <2>2. c.envelope.id \in Documents /\ Kept(c.envelope.id)
      BY <2>1 DEF IInv, Vouched, CallVouched
    <2> QED
      BY <2>1, <2>2, KeptStays DEF Kept
  <1>3. CASE SenderAlone
    BY <1>1, <1>3, SenderAloneFacts
  <1>4. ASSUME NEW d \in Documents, SendDocument(d) PROVE FALSE
    BY <1>4, SendDocumentFacts
  <1>5. ASSUME NEW m \in mdns, TakeReceipt(m) PROVE UNCHANGED <<sPc, sCur>>
    BY <1>5, TakeReceiptFacts DEF IInv
  <1>6. ASSUME NEW m \in mdns, FinishReceipt(m) PROVE UNCHANGED <<sPc, sCur>>
    BY <1>6, FinishReceiptFacts, TypesUsed
  <1>7. CASE SenderHalts
    BY <1>7, SenderHaltsFacts
  <1>8. CASE UNCHANGED sVars
    BY <1>1, <1>8 DEF sVars
  <1>9. ReceiverAlone => UNCHANGED sVars
    BY ReceiverAloneFacts
  <1> QED
    BY <1>1, <1>2, <1>3, <1>4, <1>5, <1>6, <1>7, <1>8, <1>9, StepKinds
    DEF HandleCall, DiscardAnswer, SendReceipt, AnswerReceipt, DiscardReceiptAnswer,
        ReceiverHalts, vars

LEMMA ReceiverWorkerNext ==
    ASSUME IInv, Grows, [Next]_vars, rPc' = "ok"
    PROVE  Receipted(AboutOf(rCur))'
  <1>1. CASE rPc = "ok" /\ rCur' = rCur
    <2>1. rCur \in Ids /\ RP!Stored(rBatch, rCur)
      BY <1>1 DEF IInv, QueuesSafe, RP!Safe, RP!Typed, RP!Position, RP!Delivering
    <2>2. RP!Stored(rRows, rCur) /\ Receipted(AboutOf(rCur))
      BY <1>1, <2>1 DEF IInv, QueuesSafe, RP!Safe, RP!Copied, Vouched, WorkersVouched
    <2>3. rRows'[rCur].payload.about = AboutOf(rCur)
      BY <2>1, <2>2 DEF Grows, AboutOf
    <2> QED
      BY <1>1, <2>2, <2>3 DEF Receipted, AboutOf, Grows
  <1>2. ASSUME NEW m \in mdns, AnswerReceipt(m) PROVE Receipted(AboutOf(rCur))'
    <2>1. m.pc = "reconciled" /\ rCur' = m.job
      BY <1>2, AnswerReceiptFacts
    <2>2. /\ m.job \in Ids /\ RP!Stored(rRows, m.job)
          /\ m.about = AboutOf(m.job) /\ Receipted(m.about)
      BY <2>1 DEF IInv, Vouched, MdnVouched, Mdn, Ids
    <2>3. rRows'[m.job].payload.about = m.about
      BY <2>2 DEF Grows, AboutOf
    <2> QED
      BY <2>1, <2>2, <2>3 DEF Receipted, AboutOf, Grows
  <1>3. CASE ReceiverAlone
    BY <1>1, <1>3, ReceiverAloneFacts
  <1>4. ASSUME NEW j \in Uuids, SendReceipt(j) PROVE FALSE
    BY <1>4, SendReceiptFacts DEF IInv, QueuesSafe
  <1>5. CASE ReceiverHalts
    BY <1>5, ReceiverHaltsFacts
  <1>6. CASE UNCHANGED rVars
    BY <1>1, <1>6 DEF rVars
  <1>7. SenderAlone => UNCHANGED rVars
    BY SenderAloneFacts
  <1>8. ASSUME NEW d \in Documents, SendDocument(d) PROVE UNCHANGED rVars
    BY <1>8, SendDocumentFacts
  <1>9. ASSUME NEW c \in calls, AnswerDocument(c) PROVE UNCHANGED rVars
    BY <1>9, AnswerDocumentFacts
  <1>10. ASSUME NEW c \in calls, HandleCall(c) \/ DiscardAnswer(c) PROVE UNCHANGED <<rPc, rCur>>
    BY <1>10 DEF HandleCall, DiscardAnswer, rQueueVars
  <1> QED
    BY <1>1, <1>2, <1>3, <1>4, <1>5, <1>6, <1>7, <1>8, <1>9, <1>10, StepKinds
    DEF TakeReceipt, FinishReceipt, DiscardReceiptAnswer, SenderHalts, vars

\* The receiver's worker copies J-MDN jobs only: a document's row is never QUEUED.
LEMMA CopiesNext ==
    ASSUME IInv, TableStep
    PROVE  \A id \in Ids : RP!Stored(rBatch', id) => id \in Uuids
  <1> SUFFICES ASSUME NEW id \in Ids, RP!Stored(rBatch', id) PROVE id \in Uuids
    OBVIOUS
  <1>1. CASE RP!Stored(rBatch, id)
    BY <1>1 DEF IInv, Vouched, WorkersVouched
  <1>2. CASE rRows[id].status = "QUEUED"
    BY <1>2 DEF IInv, Vouched, DocumentVouched, Ids
  <1>3. CASE ReceiverMoves
    BY <1>1, <1>2, <1>3, RP!BatchNext, ReceiverParameters
    DEF ReceiverMoves, IInv, QueuesSafe, RP!Safe
  <1>4. CASE UNCHANGED rBatch
    BY <1>1, <1>4
  <1> QED
    BY <1>3, <1>4 DEF TableStep, SenderMoves, NeitherMoves, Decides, Acknowledges, OnlyInserts,
                      rVars, rQueueVars

LEMMA CountedNext == IInv /\ [Next]_vars => Counted'
  <1> SUFFICES ASSUME IInv, [Next]_vars PROVE Counted'
    OBVIOUS
  <1>1. CASE UNCHANGED <<accepted, forgotten>>
    BY <1>1 DEF IInv, Counted
  <1>2. ASSUME NEW c \in calls, HandleCall(c) PROVE Counted'
    <2>1. CASE Inbound!Judge(c) \/ Inbound!StoreRefused(c)
      BY <1>1, <1>2, <2>1, JudgeFacts, TypesUsed
    <2>2. CASE Inbound!Store(c)
      BY <1>2, <2>2, StoreFacts, TypesUsed DEF Counted
    <2>3. CASE Inbound!QueueReceipt(c)
      <3>1. accepted' \in [Ids -> Nat] /\ forgotten' \subseteq forgotten \cup Ids
        BY <1>2, <2>3, QueueReceiptFacts, TypesUsed
      <3> QED
        BY <3>1, TypesUsed DEF Counted
    <2> QED
      BY <1>2, <2>1, <2>2, <2>3 DEF HandleCall, Inbound!Handle
  <1>3. SenderAlone \/ ReceiverAlone => UNCHANGED callVars
    BY SenderAloneFacts, ReceiverAloneFacts
  <1>4. ASSUME NEW d \in Documents, SendDocument(d) PROVE UNCHANGED <<accepted, forgotten>>
    BY <1>4, SendDocumentFacts
  <1>5. ASSUME NEW c \in calls, AnswerDocument(c) \/ DiscardAnswer(c)
        PROVE  UNCHANGED <<accepted, forgotten>>
    BY <1>5, AnswerDocumentFacts, DiscardAnswerFacts
  <1>6. CASE SenderHalts \/ ReceiverHalts
    BY <1>1, <1>6, SenderHaltsFacts, ReceiverHaltsFacts DEF callVars
  <1>7. CASE UNCHANGED callVars
    BY <1>1, <1>7 DEF callVars
  <1> QED
    BY <1>1, <1>2, <1>3, <1>4, <1>5, <1>6, <1>7, StepKinds
    DEF SendReceipt, AnswerReceipt, TakeReceipt, FinishReceipt, DiscardReceiptAnswer, vars

LEMMA IInvNext == IInv /\ [Next]_vars => IInv'
  <1> SUFFICES ASSUME IInv, [Next]_vars PROVE IInv'
    OBVIOUS
  <1>1. TableStep
    BY TablesNext
  <1>2. QueuesSafe' /\ Grows
    BY <1>1, QueuesNext, StepGrows DEF IInv
  <1>3. WorkersVouched'
    BY <1>1, <1>2, SenderWorkerNext, ReceiverWorkerNext, CopiesNext DEF WorkersVouched
  <1>4. /\ \A c \in calls' : CallVouched(c)'
        /\ \A m \in mdns' : MdnVouched(m)'
        /\ \A r \in sReceipts' : ReceiptVouched(r)'
    BY <1>2, CallsNext, MdnsNext, ReceiptsNext
  <1>5. /\ \A j \in Uuids : JobVouched(j)'
        /\ \A d \in Documents : DocumentVouched(d)'
        /\ \A id \in Ids : SenderRowVouched(id)'
    BY <1>1, JobsNext, DocumentsNext, SenderRowsNext
  <1>6. Vouched'
    BY <1>3, <1>4, <1>5 DEF Vouched
  <1> QED
    BY <1>2, <1>6, CountedNext DEF IInv
-----------------------------------------------------------------------------
LEMMA InitIsQueues == Init => SP!Init /\ RP!Init
  <1>1. S!Init <=> SP!Init
    BY Zenon DEF S!Init, SP!Init, S!StoreInit, SP!StoreInit, S!EmptyTable, SP!EmptyTable,
                 S!Absent, SP!Absent, S!AnyPartner, SP!AnyPartner, S!NoId, SP!NoId
  <1>2. R!Init <=> RP!Init
    BY Zenon DEF R!Init, RP!Init, R!StoreInit, RP!StoreInit, R!EmptyTable, RP!EmptyTable,
                 R!Absent, RP!Absent, R!AnyPartner, RP!AnyPartner, R!NoId, RP!NoId
  <1> QED
    BY <1>1, <1>2 DEF Init

LEMMA InitTables ==
    ASSUME Init
    PROVE  \A id \in Ids : /\ sRows[id].status = "ABSENT" /\ rRows[id].status = "ABSENT"
                           /\ sRows[id].job = "process_outbound"
  <1>1. SP!Absent.status = "ABSENT" /\ SP!Absent.job = "process_outbound"
    BY DEF SP!Absent
  <1>2. RP!Absent.status = "ABSENT"
    BY DEF RP!Absent
  <1> QED
    BY <1>1, <1>2, InitIsQueues
    DEF SP!Init, SP!StoreInit, SP!EmptyTable, RP!Init, RP!StoreInit, RP!EmptyTable

LEMMA IInvInit == Init => IInv
  <1> SUFFICES ASSUME Init PROVE IInv
    OBVIOUS
  <1>1. QueuesSafe
    BY InitIsQueues, SP!TypedInit, SP!CopiedInit, RP!TypedInit, RP!CopiedInit, RP!BudgetInit,
       SenderParameters, ReceiverParameters
    DEF QueuesSafe, SP!Safe, RP!Safe
  <1>2. Counted /\ calls = {} /\ mdns = {}
    BY DEF Init, Inbound!InboundInit, Counted
  <1>3. sReceipts = {} /\ sPc = "poll" /\ rPc = "poll" /\ rBatch = [id \in Ids |-> RP!Absent]
    BY InitIsQueues DEF SP!Init, RP!Init, RP!EmptyTable
  <1>4. WorkersVouched
    BY <1>3 DEF WorkersVouched, RP!Stored, RP!Absent
  <1>5. Vouched
    BY <1>2, <1>3, <1>4, InitTables
    DEF Vouched, JobVouched, DocumentVouched, SenderRowVouched, RP!Stored, Ids
  <1> QED
    BY <1>1, <1>2, <1>5 DEF IInv

LEMMA IInvAlways == Spec => []IInv
  BY IInvInit, IInvNext, PTL DEF Spec

\* In every reachable state of the exchange the variables of both nodes, the calls
\* and the receipts between them have their types: the worker of each node stands
\* where it can stand and no disturbance exceeds the bound.
THEOREM ExchangeTypes == Spec => []TypeOK
  <1>1. IInv => TypeOK
    <2> SUFFICES ASSUME IInv PROVE TypeOK
      OBVIOUS
    <2>1. S!TypeOK
      <3>1. SP!TypeOK
        BY DEF IInv, QueuesSafe, SP!Safe, SP!Typed
      <3> QED
        BY <3>1
        DEF SP!TypeOK, S!TypeOK, SP!StoreTypeOK, S!StoreTypeOK, SP!Row, S!Row, SP!Payload,
            S!Payload, SP!NoId, S!NoId, SP!JobTypes, S!JobTypes, SP!Statuses, S!Statuses,
            SP!Delivering, S!Delivering, SP!Receipt, S!Receipt, SP!Outcomes, S!Outcomes
    <2>2. RP!TypeOK
      BY DEF IInv, QueuesSafe, RP!Safe, RP!Typed
    <2>3. R!TypeOK
      BY <2>2
      DEF RP!TypeOK, R!TypeOK, RP!StoreTypeOK, R!StoreTypeOK, RP!Row, R!Row, RP!Payload,
          R!Payload, RP!NoId, R!NoId, RP!JobTypes, R!JobTypes, RP!Statuses, R!Statuses,
          RP!Delivering, R!Delivering, RP!Receipt, R!Receipt, RP!Outcomes, R!Outcomes
    <2>4. Inbound!StoreTypeOK
      BY <2>2
      DEF RP!TypeOK, RP!StoreTypeOK, Inbound!StoreTypeOK, RP!Row, Inbound!Row, RP!Payload,
          Inbound!Payload, RP!NoId, Inbound!NoId, RP!JobTypes, Inbound!JobTypes,
          RP!Statuses, Inbound!Statuses
    <2> QED
      BY <2>1, <2>3, <2>4, TypesUsed DEF TypeOK, Inbound!TypeOK
  <1> QED
    BY <1>1, IInvAlways, PTL

\* A receipt at the sender is never about a document the receiver does not have:
\* whatever was lost, repeated or interrupted, the receiver stored it as DELIVERED
\* and queued the job the receipt came from.
THEOREM ReceiptsAreTrue == Spec => []ReceiptsAreTruthful
  <1>1. IInv => ReceiptsAreTruthful
    BY DEF IInv, Vouched, ReceiptVouched, ReceiptsAreTruthful, Kept, AboutOf
  <1> QED
    BY <1>1, IInvAlways, PTL

\* When the receiver's table calls a J-MDN job DELIVERED, the sender has the receipt.
THEOREM SettledReceiptsArrived == Spec => []SentReceiptsArrived
  <1>1. IInv => SentReceiptsArrived
    BY DEF IInv, Vouched, JobVouched, SentReceiptsArrived, Receipted, AboutOf, RP!Stored
  <1> QED
    BY <1>1, IInvAlways, PTL
-----------------------------------------------------------------------------
(***************************************************************************)
(* The refinement, step by step.  The two queues, the calls and receipts   *)
(* between them and every disturbance come down to four actions of         *)
(* DeliveryPromise on one document, or to a stutter.                       *)
(***************************************************************************)
SameTold == \A d \in Documents : sRows'[d].status = sRows[d].status
SameKept == \A d \in Documents : rRows'[d].status = rRows[d].status

LEMMA TwoSameIsStutter ==
    ASSUME SameTold, SameKept
    PROVE  UNCHANGED Promise!vars
  BY DEF SameTold, SameKept, Promise!vars, StatusIn

\* One document's status at the sender changed, and none at the receiver.
LEMMA OneTold ==
    ASSUME NEW d \in Documents, NEW s \in {"QUEUED", "DELIVERED", "FAILED"},
           sRows'[d].status = s, SameKept,
           \A e \in Documents : e # d => sRows'[e].status = sRows[e].status
    PROVE  /\ [e \in Documents |-> StatusIn(sRows, e)]'
                 = [[e \in Documents |-> StatusIn(sRows, e)] EXCEPT ![d] = s]
           /\ UNCHANGED [e \in Documents |-> StatusIn(rRows, e)]
  BY DEF SameKept, StatusIn

LEMMA OneKept ==
    ASSUME NEW d \in Documents, NEW s \in {"DELIVERED", "QUARANTINED"},
           rRows'[d].status = s, SameTold,
           \A e \in Documents : e # d => rRows'[e].status = rRows[e].status
    PROVE  /\ [e \in Documents |-> StatusIn(rRows, e)]'
                 = [[e \in Documents |-> StatusIn(rRows, e)] EXCEPT ![d] = s]
           /\ UNCHANGED [e \in Documents |-> StatusIn(sRows, e)]
  BY DEF SameTold, StatusIn

LEMMA PromiseInit == Init => Promise!Init
  BY InitTables DEF Promise!Init, StatusIn, Ids

PromiseStep == [Promise!Next]_(Promise!vars)

LEMMA SenderKeepsPromise ==
    ASSUME IInv, SenderMoves
    PROVE  PromiseStep
  <1>1. SenderRows /\ SameKept
    BY SenderRowsMove DEF SenderMoves, SameKept, rVars
  <1>2. CASE SameTold
    BY <1>1, <1>2, TwoSameIsStutter DEF PromiseStep
  <1>3. CASE SP!Quiet
    BY <1>2, <1>3 DEF SP!Quiet, SameTold, Ids
  <1>4. ASSUME NEW d \in Ids, NEW s \in {"DELIVERED", "FAILED"}, SP!Moved(d, s),
               d \notin Documents \/ sRows[d].status = s
        PROVE  SameTold
    BY <1>4 DEF SP!Moved, SameTold, Ids
  <1>5. ASSUME NEW d \in Documents, NEW s \in {"DELIVERED", "FAILED"}, SP!Moved(d, s)
        PROVE  /\ sRows'[d].status = s /\ sRows[d].status \in {"QUEUED", "DELIVERED", "FAILED"}
               /\ \A e \in Documents : e # d => sRows'[e].status = sRows[e].status
    BY <1>5 DEF SP!Moved, Ids, IInv, Vouched, SenderRowVouched, SP!Stored
  <1>6. ASSUME NEW d \in Documents, SP!Moved(d, "DELIVERED"), Kept(d),
               sRows[d].status # "DELIVERED"
        PROVE  Promise!Confirm(d)
    <2>1. /\ sRows'[d].status = "DELIVERED" /\ sRows[d].status \in {"QUEUED", "FAILED"}
          /\ \A e \in Documents : e # d => sRows'[e].status = sRows[e].status
      BY <1>5, <1>6
    <2>2. /\ [e \in Documents |-> StatusIn(sRows, e)]'
                = [[e \in Documents |-> StatusIn(sRows, e)] EXCEPT ![d] = "DELIVERED"]
          /\ UNCHANGED [e \in Documents |-> StatusIn(rRows, e)]
      BY <1>1, <2>1, OneTold
    <2> QED
      BY <1>6, <2>1, <2>2 DEF Promise!Confirm, StatusIn, Kept
  <1>7. ASSUME NEW d \in Documents, SP!Moved(d, "FAILED"), sRows[d].status # "FAILED"
        PROVE  Promise!Abandon(d)
    <2>1. /\ sRows'[d].status = "FAILED" /\ sRows[d].status \in {"QUEUED", "DELIVERED"}
          /\ \A e \in Documents : e # d => sRows'[e].status = sRows[e].status
      BY <1>5, <1>7
    <2>2. /\ [e \in Documents |-> StatusIn(sRows, e)]'
                = [[e \in Documents |-> StatusIn(sRows, e)] EXCEPT ![d] = "FAILED"]
          /\ UNCHANGED [e \in Documents |-> StatusIn(rRows, e)]
      BY <1>1, <2>1, OneTold
    <2> QED
      BY <1>7, <2>1, <2>2 DEF Promise!Abandon, StatusIn
  <1>8. ASSUME NEW d \in Ids, SP!InsertNew(d, "OUTBOUND", "QUEUED", Submission)
        PROVE  SameTold \/ (d \in Documents /\ Promise!Submit(d))
    <2> DEFINE row == SP!NewRow("OUTBOUND", "QUEUED", Submission, sStamp)
    <2>1. row.status = "QUEUED"
      BY DEF SP!NewRow
    <2>2. /\ sRows[d].status = "ABSENT" /\ sRows' = [sRows EXCEPT ![d] = row]
          /\ sRows \in [Ids -> SP!Row]
      BY <1>8 DEF SP!InsertNew, SP!CanInsert, SP!Insert, SP!Stored, IInv, QueuesSafe, SP!Safe,
                  SP!Typed, SP!TypeOK, SP!StoreTypeOK
    <2> HIDE DEF row
    <2>3. sRows'[d].status = "QUEUED" /\ \A e \in Ids : e # d => sRows'[e] = sRows[e]
      BY <2>1, <2>2
    <2>4. CASE d \notin Documents
      BY <2>3, <2>4 DEF SameTold, Ids
    <2>5. CASE d \in Documents
      <3>1. /\ [e \in Documents |-> StatusIn(sRows, e)]'
                  = [[e \in Documents |-> StatusIn(sRows, e)] EXCEPT ![d] = "QUEUED"]
            /\ UNCHANGED [e \in Documents |-> StatusIn(rRows, e)]
        BY <1>1, <2>3, <2>5, OneTold DEF Ids
      <3> QED
        BY <2>2, <2>5, <3>1 DEF Promise!Submit, StatusIn
    <2> QED
      BY <2>4, <2>5
  <1> QED
    BY <1>1, <1>2, <1>3, <1>4, <1>6, <1>7, <1>8 DEF SenderRows, PromiseStep, Promise!Next

LEMMA ReceiverKeepsPromise ==
    ASSUME IInv, ReceiverMoves
    PROVE  PromiseStep
  <1>1. ReceiverRows /\ SameTold
    BY ReceiverRowsMove DEF ReceiverMoves, SameTold, sVars
  <1>2. rCur \in Uuids => rCur \notin Documents
    BY DocumentsAssumption
  <1>3. SameKept
    BY <1>1, <1>2 DEF ReceiverRows, RP!Quiet, RP!Moved, SameKept, Ids
  <1> QED
    BY <1>1, <1>3, TwoSameIsStutter DEF PromiseStep

LEMMA DecisionKeepsPromise ==
    ASSUME IInv, NEW d \in Documents, Decides(d)
    PROVE  PromiseStep
  <1>1. PICK v \in {"DELIVERED", "QUARANTINED"}, p \in RP!Payload :
           RP!InsertNew(d, "INBOUND", v, p)
    BY DEF Decides
  <1>2. d \in Ids /\ v \in RP!Statuses /\ "INBOUND" \in {"INBOUND", "OUTBOUND"}
    BY DEF Ids, RP!Statuses
  <1>3. /\ rRows[d].status = "ABSENT" /\ rRows'[d].status = v
        /\ \A e \in Documents : e # d => rRows'[e].status = rRows[e].status
    BY <1>1, <1>2, ReceiverInserts DEF RP!Stored, Ids
  <1>4. SameTold /\ sRows[d].status # "ABSENT"
    BY DEF Decides, OnlyInserts, SameTold, sVars, SentBefore, SP!Stored
  <1>5. sRows[d].status # "unknown"
    BY <1>2 DEF IInv, Vouched, SenderRowVouched
  <1>6. /\ [e \in Documents |-> StatusIn(rRows, e)]'
              = [[e \in Documents |-> StatusIn(rRows, e)] EXCEPT ![d] = v]
        /\ UNCHANGED [e \in Documents |-> StatusIn(sRows, e)]
    BY <1>3, <1>4, OneKept
  <1>7. Promise!Decide(d)
    BY <1>3, <1>4, <1>5, <1>6 DEF Promise!Decide, StatusIn
  <1> QED
    BY <1>7 DEF PromiseStep, Promise!Next

LEMMA JobKeepsPromise ==
    ASSUME IInv, NEW j \in Uuids, Acknowledges(j)
    PROVE  PromiseStep
  <1>1. PICK p \in RP!Payload : RP!InsertNew(j, "OUTBOUND", "QUEUED", p)
    BY DEF Acknowledges
  <1>2. j \in Ids /\ j \notin Documents /\ "QUEUED" \in RP!Statuses
        /\ "OUTBOUND" \in {"INBOUND", "OUTBOUND"}
    BY DocumentsAssumption DEF Ids, RP!Statuses
  <1>3. SameKept
    BY <1>1, <1>2, ReceiverInserts DEF SameKept, Ids
  <1>4. SameTold
    BY DEF Acknowledges, OnlyInserts, SameTold, sVars
  <1> QED
    BY <1>3, <1>4, TwoSameIsStutter DEF PromiseStep

LEMMA PromiseKept == IInv /\ [Next]_vars => PromiseStep
  <1> SUFFICES ASSUME IInv, [Next]_vars PROVE PromiseStep
    OBVIOUS
  <1>1. TableStep
    BY TablesNext
  <1>2. CASE NeitherMoves
    <2>1. SameTold /\ SameKept
      BY <1>2 DEF NeitherMoves, sVars, rVars, SameTold, SameKept
    <2> QED
      BY <2>1, TwoSameIsStutter DEF PromiseStep
  <1> QED
    BY <1>1, <1>2, SenderKeepsPromise, ReceiverKeepsPromise, DecisionKeepsPromise,
       JobKeepsPromise DEF TableStep

\* Two nodes that lose calls and answers, retry, crash and restart move their two
\* tables, document by document, only as DeliveryPromise allows: what is decided is
\* decided once, and DELIVERED is reported only of what was kept.
THEOREM ExchangeKeepsPromise == Spec => KeepsPromise
  <1>1. Init => Promise!Init
    BY PromiseInit
  <1>2. IInv /\ [Next]_vars => [Promise!Next]_(Promise!vars)
    BY PromiseKept DEF PromiseStep
  <1> QED
    BY <1>1, <1>2, IInvAlways, PTL DEF Spec, KeepsPromise, Promise!Spec
=============================================================================
