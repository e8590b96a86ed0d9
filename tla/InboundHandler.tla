---------------------------- MODULE InboundHandler ----------------------------
(***************************************************************************)
(* The receiving half of one FideX node: inboundHandler                    *)
(* (internal/api/external_handlers.go), run by one goroutine per HTTP call *)
(* against the node's tables.  A call looks its sender up, decrypts,       *)
(* stores the envelope, and for a document queues a J-MDN job: three       *)
(* statements without a transaction.  Calls for the same message_id        *)
(* overlap when a sender retries a call it gave up waiting for.            *)
(*                                                                         *)
(* Bodies that are not JSON or fail validateFidexEnvelope are answered 400 *)
(* before any state is touched and are left out.  The cryptography of      *)
(* crypto.AS5Engine is abstracted: an envelope is sound when it decrypts   *)
(* with our key and its signature verifies against the sender's.           *)
(***************************************************************************)
EXTENDS NodeStore, FiniteSets

CONSTANTS
    Envelopes,   \* envelopes that can arrive
    Uuids,       \* fresh ids for J-MDN jobs
    MaxCalls     \* bound on the number of calls in progress

EnvelopeType == [id : Ids, from : Partners,
                 kind : {"document", "receipt"}, sound : BOOLEAN]

ASSUME EnvelopesAssumption == Envelopes \subseteq EnvelopeType
ASSUME UuidsAssumption     == Uuids \subseteq Ids

VARIABLES
    calls,      \* calls in progress, and answers on their way back
    accepted,   \* history: the calls that were answered 202, per message
    forgotten   \* history: messages whose J-MDN job could not be inserted

inboundVars == <<calls, accepted, forgotten>>
vars == <<storeVars, inboundVars>>

(***************************************************************************)
(* A call: the envelope, a number that tells retries apart, where its      *)
(* goroutine stands, the status it decided on, and its answer.             *)
(***************************************************************************)
Verdicts == {"DELIVERED", "QUARANTINED"}
Answers  == {"202", "401", "409", "500"}

Call == [envelope : EnvelopeType, try : Nat,
         pc : {"arrived", "judged", "stored", "answered"},
         verdict : Verdicts, answer : Answers]

NewCall(e, n) == [envelope |-> e, try |-> n, pc |-> "arrived",
                  verdict |-> "DELIVERED", answer |-> "202"]

InboundInit == calls = {} /\ accepted = [id \in Ids |-> 0] /\ forgotten = {}

Init == StoreInit /\ InboundInit

Becomes(c, d) == calls' = (calls \ {c}) \cup {d}

AnswerWith(c, a) == Becomes(c, [c EXCEPT !.pc = "answered", !.answer = a])
-----------------------------------------------------------------------------
Arrive(e, n) ==
    /\ Alive
    /\ calls' = calls \cup {NewCall(e, n)}
    /\ UNCHANGED <<storeVars, accepted, forgotten>>

(***************************************************************************)
(* Admission.  GetByID's error counts as an unknown sender whatever caused *)
(* it; a sender without a usable key, or an envelope that is not sound,    *)
(* ends in quarantine too.                                                 *)
(***************************************************************************)
Admits(profile, e) == {"listed", "keys"} \subseteq profile /\ e.sound

Judge(c) ==
    /\ c \in calls /\ c.pc = "arrived" /\ Alive
    /\ \E v \in Verdicts :
         /\ \/ DbOk /\ (v = "DELIVERED" <=> Admits(partners[c.envelope.from], c.envelope))
            \/ DbFails /\ v = "QUARANTINED"
         /\ Becomes(c, [c EXCEPT !.pc = "judged", !.verdict = v])
    /\ UNCHANGED <<node, tableVars, partners, accepted, forgotten>>

\* The envelope is stored whatever the verdict, unless its message_id is taken.
InboundPayload(c) == [job |-> "", complete |-> TRUE,
                      to |-> c.envelope.from, about |-> NoId]

\* Mutant of Store: quarantined envelopes go on to the J-MDN branch.
StoreAndAcknowledge(c) ==
    /\ c.pc = "judged" /\ DbOk
    /\ InsertNew(c.envelope.id, "INBOUND", c.verdict, InboundPayload(c))
    /\ Becomes(c, [c EXCEPT !.pc = "stored"])
    /\ UNCHANGED <<node, partners, accepted, forgotten>>

\* Mutant of Store: documents are answered like receipts.
StoreWithoutJob(c) ==
    /\ c.pc = "judged" /\ DbOk
    /\ InsertNew(c.envelope.id, "INBOUND", c.verdict, InboundPayload(c))
    /\ IF c.verdict = "QUARANTINED" THEN AnswerWith(c, "401") /\ UNCHANGED accepted
       ELSE /\ AnswerWith(c, "202")
            /\ accepted' = [accepted EXCEPT ![c.envelope.id] = @ + 1]
    /\ UNCHANGED <<node, partners, forgotten>>

Store(c) ==
    /\ c.pc = "judged" /\ DbOk
    /\ InsertNew(c.envelope.id, "INBOUND", c.verdict, InboundPayload(c))
    /\ IF c.verdict = "QUARANTINED" THEN AnswerWith(c, "401") /\ UNCHANGED accepted
       ELSE IF c.envelope.kind = "receipt"
            THEN AnswerWith(c, "202")
                 /\ accepted' = [accepted EXCEPT ![c.envelope.id] = @ + 1]
            ELSE Becomes(c, [c EXCEPT !.pc = "stored"]) /\ UNCHANGED accepted
    /\ UNCHANGED <<node, partners, forgotten>>

\* Mutant of StoreRefused: every error is taken for a duplicate.
StoreRefusedAsTaken(c) ==
    /\ c.pc = "judged"
    /\ \/ DbOk /\ ~CanInsert(rows, c.envelope.id)
       \/ DbFails
    /\ AnswerWith(c, "409")
    /\ UNCHANGED <<node, tableVars, partners, accepted, forgotten>>

StoreRefused(c) ==
    /\ c.pc = "judged"
    /\ \/ DbOk /\ ~CanInsert(rows, c.envelope.id) /\ AnswerWith(c, "409")
       \/ DbFails /\ AnswerWith(c, "500")
    /\ UNCHANGED <<node, tableVars, partners, accepted, forgotten>>

\* The second insert.  Its failure is logged, and the answer is 202 either way.
JobPayload(c) == [job |-> "send_jmdn", complete |-> TRUE,
                  to |-> c.envelope.from, about |-> c.envelope.id]

QueueReceipt(c) ==
    /\ c.pc = "stored"
    /\ \/ /\ DbOk
          /\ \E id \in Uuids : InsertNew(id, "OUTBOUND", "QUEUED", JobPayload(c))
          /\ UNCHANGED forgotten
       \/ /\ DbFails
          /\ forgotten' = forgotten \cup {c.envelope.id}
          /\ UNCHANGED tableVars
    /\ accepted' = [accepted EXCEPT ![c.envelope.id] = @ + 1]
    /\ AnswerWith(c, "202")
    /\ UNCHANGED <<node, partners>>

Handle(c) == Judge(c) \/ Store(c) \/ StoreRefused(c) \/ QueueReceipt(c)

\* The answer reaches the caller, or the connection is lost before or after.
Hangup(c) ==
    /\ c.pc \in {"arrived", "answered"}
    /\ calls' = calls \ {c}
    /\ UNCHANGED <<storeVars, accepted, forgotten>>

Die == calls' = {} /\ UNCHANGED <<accepted, forgotten>>
-----------------------------------------------------------------------------
(***************************************************************************)
(* The handler on its own: envelopes arrive at any time and any number of  *)
(* times, the registry changes, the node shuts down, dies and comes back.  *)
(***************************************************************************)
Next ==
    \/ /\ Cardinality(calls) < MaxCalls
       /\ \E e \in Envelopes, n \in 1 .. MaxCalls : Arrive(e, n)
    \/ \E c \in calls : Handle(c) \/ Hangup(c)
    \/ /\ \E p \in Partners, profile \in Profiles : ChangePartner(p, profile)
       /\ UNCHANGED inboundVars
    \/ BeginShutdown /\ UNCHANGED inboundVars
    \/ Exit /\ Die
    \/ Boot /\ UNCHANGED inboundVars

Spec == Init /\ [][Next]_vars
-----------------------------------------------------------------------------
Jobs(id) == {j \in Ids : rows[j].payload.job = "send_jmdn"
                         /\ rows[j].payload.about = id}

TypeOK ==
    /\ StoreTypeOK
    /\ calls \subseteq Call
    /\ accepted \in [Ids -> Nat]
    /\ forgotten \subseteq Ids

\* Spec 9.3: overlapping or repeated calls for one message_id, with crashes in
\* between, are answered 202 at most once.
AcceptedAtMostOnce == \A id \in Ids : accepted[id] <= 1

\* A message is acknowledged by at most one J-MDN job, and only when it was
\* decrypted, verified and stored: never when it is quarantined.
ReceiptsMatchAcceptance ==
    \A id \in Ids :
        /\ Cardinality(Jobs(id)) <= 1
        /\ Jobs(id) # {} => rows[id].dir = "INBOUND" /\ rows[id].status = "DELIVERED"

\* What a caller is told agrees with the table, at the moment of the answer and
\* ever after: 202 a kept message, 401 a quarantined one, 409 a taken id.
AnswersAgreeWithTable ==
    \A c \in calls : c.pc = "answered" =>
        LET row == rows[c.envelope.id] IN
        /\ c.answer = "202" => row.dir = "INBOUND" /\ row.status = "DELIVERED"
        /\ c.answer = "401" => row.dir = "INBOUND" /\ row.status = "QUARANTINED"
        /\ c.answer = "409" => row.status # "ABSENT"

\* Every accepted document is acknowledged by a job, except where the insert of
\* the job failed or the process died between the two inserts.
OnlyForgottenReceiptsAreMissing ==
    \A c \in calls :
        c.pc = "answered" /\ c.answer = "202" /\ c.envelope.kind = "document" =>
            Jobs(c.envelope.id) # {} \/ c.envelope.id \in forgotten

(***************************************************************************)
(* external_handlers.go:246-247: when the J-MDN job cannot be queued "the  *)
(* sender will retry on its outbound side".  The sender retries what is    *)
(* not answered 2xx, so a message without a job is not answered 202, and a *)
(* later call for it gets its job queued.                                  *)
(***************************************************************************)
ForgottenIsNotConfirmed ==
    \A c \in calls : c.pc = "answered" /\ c.envelope.id \in forgotten =>
        c.answer # "202"
=============================================================================
