---------------------------- MODULE OutboundQueue ----------------------------
(***************************************************************************)
(* The sending half of one FideX node: the message table, the queue worker *)
(* (internal/queue/worker.go), the handlers that share the table with it,  *)
(* and the life of the process that hosts them all.                        *)
(*                                                                         *)
(* One goroutine polls the table, walks over a copy of the queued rows and *)
(* delivers them one at a time; meanwhile HTTP handlers insert rows and    *)
(* receipts settle rows the worker may hold a copy of.  Each SQL statement *)
(* is one step, and between two of them anything else can happen: a        *)
(* handler, a minute, a failed statement, a crash, a shutdown.             *)
(***************************************************************************)
EXTENDS NodeStore

CONSTANTS
    Requests,    \* payloads that the insert sites can be asked to queue
    MaxRetries,  \* WorkerConfig.MaxRetries
    Times        \* timestamps a receipt can carry

ASSUME RetriesAssumption  == MaxRetries \in Nat \ {0}
ASSUME RequestsAssumption == Requests \subseteq Payload

Outcomes == {"DELIVERED", "FAILED"}      \* dispositions of a receipt
Receipt == [about : Ids, outcome : Outcomes, time : Times]

VARIABLES
    pc,        \* where the worker goroutine stands
    batch,     \* its copy of the queued rows that are still to be handled
    cur,       \* the row it is delivering
    receipts,  \* receipts stored as rows of their own
    handling,  \* receipts whose receiptHandler call is about to reconcile
    posts,     \* history: HTTP requests sent for each row
    acked,     \* history: rows for which the worker saw a 2xx answer
    refused    \* history: rows the worker once could not even send

workerVars  == <<pc, batch, cur>>
receiptVars == <<receipts, handling>>
historyVars == <<posts, acked, refused>>
queueVars   == <<workerVars, receiptVars, historyVars>>
vars == <<storeVars, queueVars>>

Init ==
    /\ StoreInit
    /\ pc = "poll"          \* Start processes the queue before its first tick
    /\ batch = EmptyTable
    /\ cur = NoId
    /\ receipts = {} /\ handling = {}
    /\ posts = [id \in Ids |-> 0]
    /\ acked = {} /\ refused = {}

-----------------------------------------------------------------------------
(***************************************************************************)
(* Insert sites.  transmitHandler queues a business document under a fresh *)
(* uuid and answers 500 when the insert fails; the watch folder and the    *)
(* J-MDN branch of inboundHandler end in the same insert.                  *)
(***************************************************************************)
Enqueue(id, request) ==
    /\ Alive
    /\ \/ DbOk /\ InsertNew(id, "OUTBOUND", "QUEUED", request)
       \/ DbFails /\ UNCHANGED tableVars
    /\ UNCHANGED <<node, partners, queueVars>>

EditPartner(p, profile) ==
    ChangePartner(p, profile) /\ UNCHANGED queueVars
-----------------------------------------------------------------------------
(***************************************************************************)
(* The worker loop.                                                        *)
(*   wait  - in the select of Start       poll - calls ListByStatus        *)
(*   next  - at the head of the for loop  post - inside httpClient.Do      *)
(*   ok, retryable, fatal - deliverMessage returned (its error class)      *)
(*   note  - between the two updates of a row that is given up             *)
(***************************************************************************)
Delivering == {"post", "ok", "retryable", "fatal", "note"}

Fire ==
    /\ pc = "wait" /\ Alive
    /\ pc' = "poll"
    /\ UNCHANGED <<node, tableVars, partners, batch, cur, receiptVars, historyVars, faults>>

\* The select picks freely among a tick and the closed stopChan.
SeeStop ==
    /\ pc = "wait" /\ node = "stopping"
    /\ pc' = "stopped"
    /\ UNCHANGED <<node, tableVars, partners, batch, cur, receiptVars, historyVars, faults>>

\* Mutant of Poll: the worker ends when it cannot list the queue.
PollOrStop ==
    /\ pc = "poll"
    /\ \/ DbOk /\ batch' = ListQueued(rows) /\ pc' = "next"
       \/ DbFails /\ pc' = "stopped" /\ UNCHANGED batch
    /\ UNCHANGED <<node, tableVars, partners, cur, receiptVars, historyVars>>

Poll ==
    /\ pc = "poll"
    /\ \/ DbOk /\ batch' = ListQueued(rows) /\ pc' = "next"
       \/ DbFails /\ pc' = "wait" /\ UNCHANGED batch
    /\ UNCHANGED <<node, tableVars, partners, cur, receiptVars, historyVars>>

Drop(id) == [batch EXCEPT ![id] = Absent]

\* Mutant of NotDueYet: next_retry_at is not looked at.
AlwaysDue(id) == FALSE

NotDueYet(id) == batch[id].wait > 0

Skip(id) ==
    /\ pc = "next" /\ Oldest(batch, id) /\ NotDueYet(id)
    /\ batch' = Drop(id)
    /\ UNCHANGED <<node, tableVars, partners, pc, cur, receiptVars, historyVars, faults>>

EndOfBatch ==
    /\ pc = "next" /\ \A id \in Ids : ~Stored(batch, id)
    /\ pc' = "wait"
    /\ UNCHANGED <<node, tableVars, partners, batch, cur, receiptVars, historyVars, faults>>

(***************************************************************************)
(* deliverMessage up to the HTTP call.  A J-MDN goes to the receipt        *)
(* endpoint and falls back to the message endpoint; a document needs the   *)
(* message endpoint and a cached key that fits the negotiated algorithm.   *)
(***************************************************************************)
Reachable(job, profile) ==
    /\ "listed" \in profile
    /\ \/ job = "send_jmdn" /\ profile \cap {"receipt", "message"} # {}
       \/ job = "process_outbound" /\ {"message", "keys"} \subseteq profile

\* The checks that precede the partner lookup.
Dispatchable(row) == row.job # "unknown" /\ row.payload.complete

Due(id) == pc = "next" /\ Oldest(batch, id) /\ ~NotDueYet(id)

Post(id) ==
    /\ Due(id)
    /\ Dispatchable(batch[id])
    /\ DbOk                                             \* partnerRepo.GetByID
    /\ Reachable(batch[id].job, partners[batch[id].payload.to])
    /\ posts' = [posts EXCEPT ![id] = posts[id] + 1]
    /\ cur' = id /\ pc' = "post"
    /\ UNCHANGED <<node, tableVars, partners, batch, receiptVars, acked, refused>>

(***************************************************************************)
(* A non-retryable error before anything is sent.  A failed lookup is one: *)
(* GetByID's error is wrapped as PARTNER_NOT_FOUND whatever its cause.     *)
(***************************************************************************)
Reject(id) ==
    /\ Due(id)
    /\ \/ ~Dispatchable(batch[id]) /\ UNCHANGED faults
       \/ /\ Dispatchable(batch[id])
          /\ \/ DbOk /\ ~Reachable(batch[id].job, partners[batch[id].payload.to])
             \/ DbFails
    /\ refused' = refused \cup {id}
    /\ cur' = id /\ pc' = "fatal"
    /\ UNCHANGED <<node, tableVars, partners, batch, receiptVars, posts, acked>>

\* Mutant of Reply: the status code is not looked at.
ReplyTakenAsSuccess(answer) ==
    /\ pc = "post"
    /\ pc' = "ok" /\ acked' = IF answer = "2xx" THEN acked \cup {cur} ELSE acked
    /\ UNCHANGED <<node, tableVars, partners, batch, cur, receiptVars, posts, refused, faults>>

\* The call returns: 2xx, any other status, or a transport error or timeout.
Reply(answer) ==
    /\ pc = "post"
    /\ IF answer = "2xx"
       THEN pc' = "ok" /\ acked' = acked \cup {cur}
       ELSE pc' = "retryable" /\ UNCHANGED acked
    /\ UNCHANGED <<node, tableVars, partners, batch, cur, receiptVars, posts, refused, faults>>

\* Mutant of Advance: the loop index is not moved on.
AdvanceInPlace == pc' = "next" /\ cur' = NoId /\ UNCHANGED batch

Advance == pc' = "next" /\ batch' = Drop(cur) /\ cur' = NoId

\* handleSuccess
MarkDelivered ==
    /\ pc = "ok"
    /\ Write(UpdateStatus(rows, cur, "DELIVERED"))
    /\ Advance
    /\ UNCHANGED <<node, stamp, partners, receiptVars, historyVars>>

\* handleFailure works on the retry count of the copy, not of the row.
Attempts == batch[cur].retries + 1

\* NETWORK, TIMEOUT, UNAVAILABLE and RATE_LIMITED errors; the delivery's other
\* failures are final.
IsRetryable == pc = "retryable"

\* Mutants of ShouldRetry: off by one, either way.
RetriesOnceMore == IsRetryable /\ Attempts <= MaxRetries
RetriesOnceLess == IsRetryable /\ Attempts + 1 < MaxRetries

ShouldRetry == IsRetryable /\ Attempts < MaxRetries

Backoff(n) == IF n * n > 60 THEN 60 ELSE n * n

ScheduleRetry ==
    /\ ShouldRetry
    /\ Write(UpdateRetryInfo(rows, cur, Attempts, Backoff(Attempts)))
    /\ Advance
    /\ UNCHANGED <<node, stamp, partners, receiptVars, historyVars>>

GiveUp ==
    /\ pc \in {"retryable", "fatal"} /\ ~ShouldRetry
    /\ Write(UpdateStatus(rows, cur, "FAILED"))
    /\ pc' = "note"
    /\ UNCHANGED <<node, stamp, partners, batch, cur, receiptVars, historyVars>>

NoteFailure ==
    /\ pc = "note"
    /\ Write(UpdateRetryInfo(rows, cur, Attempts, 0))
    /\ Advance
    /\ UNCHANGED <<node, stamp, partners, receiptVars, historyVars>>
-----------------------------------------------------------------------------
(***************************************************************************)
(* receiptHandler: store the receipt as a row of its own, then reconcile   *)
(* the message it names.  The row's key is the message and the receipt's   *)
(* timestamp; when it is taken the handler logs a duplicate and goes on.   *)
(* A partner gives one disposition per message and timestamp.              *)
(***************************************************************************)
StoreReceipt(r) ==
    /\ Alive
    /\ \/ /\ DbOk
          /\ handling' = handling \cup {r}
          /\ receipts' = receipts \cup {r}
       \/ DbFails /\ UNCHANGED receiptVars                         \* 500
    /\ UNCHANGED <<node, tableVars, partners, workerVars, historyVars>>

Reconcile(r) ==
    /\ r \in handling
    /\ Write(UpdateStatus(rows, r.about, r.outcome))
    /\ handling' = handling \ {r}
    /\ UNCHANGED <<node, stamp, partners, workerVars, receipts, historyVars>>

\* Partners send receipts for the documents that were sent to them.
PartnerAcknowledges(r) ==
    /\ posts[r.about] > 0 /\ rows[r.about].job = "process_outbound"
    /\ StoreReceipt(r)
-----------------------------------------------------------------------------
Tick ==
    /\ \E id \in Ids : rows[id].wait > 0
    /\ rows' = Age(rows) /\ batch' = Age(batch)
    /\ UNCHANGED <<node, stamp, partners, faults, pc, cur, receiptVars, historyVars>>

Shutdown == BeginShutdown /\ UNCHANGED queueVars

Halt ==
    /\ Exit
    /\ pc' = "down" /\ batch' = EmptyTable /\ cur' = NoId
    /\ handling' = {}
    /\ UNCHANGED <<receipts, historyVars>>

Restart ==
    /\ Boot
    /\ pc' = "poll"
    /\ UNCHANGED <<batch, cur, receiptVars, historyVars>>
-----------------------------------------------------------------------------
Worker ==
    \/ Fire \/ SeeStop \/ Poll \/ EndOfBatch
    \/ \E id \in Ids : Skip(id) \/ Post(id) \/ Reject(id)
    \/ \E answer \in {"2xx", "other"} : Reply(answer)
    \/ MarkDelivered \/ ScheduleRetry \/ GiveUp \/ NoteFailure

Handlers ==
    \/ \E id \in Ids, request \in Requests : Enqueue(id, request)
    \/ \E p \in Partners, profile \in Profiles : EditPartner(p, profile)
    \/ \E r \in Receipt : PartnerAcknowledges(r)
    \/ \E r \in handling : Reconcile(r)

Process == Tick \/ Shutdown \/ Halt \/ Restart

Next == Worker \/ Handlers \/ Process

Spec == Init /\ [][Next]_vars

(***************************************************************************)
(* The goroutine is scheduled, the HTTP client gives up after 30 seconds,  *)
(* the clock runs, main returns after a shutdown, and an operator or       *)
(* supervisor starts the node again.                                       *)
(***************************************************************************)
Fairness ==
    /\ WF_vars(Worker)
    /\ WF_vars(Tick)
    /\ WF_vars(node = "stopping" /\ Halt)
    /\ WF_vars(Restart)

FairSpec == Spec /\ Fairness
-----------------------------------------------------------------------------
TypeOK ==
    /\ StoreTypeOK
    /\ batch \in [Ids -> Row]
    /\ pc \in {"wait", "poll", "next", "stopped", "down"} \cup Delivering
    /\ cur \in Ids \cup {NoId}
    /\ receipts \subseteq Receipt /\ handling \subseteq receipts
    /\ posts \in [Ids -> Nat]
    /\ acked \subseteq Ids /\ refused \subseteq Ids

\* The worker's copy of a row never disagrees with the table on the columns it
\* computes with (retry_count, next_retry_at, payload), although handlers and
\* receipts write the table while the worker walks over its copy: reading the
\* retry count from the copy in handleFailure loses no update.
CopyIsFresh ==
    \A id \in Ids : Stored(batch, id) =>
        /\ rows[id].retries = batch[id].retries
        /\ rows[id].wait = batch[id].wait
        /\ rows[id].payload = batch[id].payload

\* However receipts, failed statements, crashes and shutdowns interleave with
\* deliveries, a row is sent at most MaxRetries times plus once for every
\* disturbance that can have hidden an attempt from retry_count.
AttemptsBounded == \A id \in Ids : posts[id] <= MaxRetries + faults

Reported(id, outcome) ==
    \E r \in receipts : r.about = id /\ r.outcome = outcome

\* A row is FAILED only if a negative receipt said so, or the worker met an
\* error it must not retry, or MaxRetries requests really left the node: no
\* disturbance makes the worker give up early.
GivenUpOnlyWhenExhausted ==
    \A id \in Ids : rows[id].status = "FAILED" =>
        \/ Reported(id, "FAILED")
        \/ id \in refused
        \/ posts[id] >= MaxRetries

\* A row is DELIVERED only if the partner answered 2xx to it or sent a receipt
\* that does not report a failure; no error path of the worker ends there.
DeliveredIsConfirmed ==
    \A id \in Ids : rows[id].status = "DELIVERED" =>
        id \in acked \/ Reported(id, "DELIVERED")

\* A request goes out for a row that is not QUEUED any more only when a receipt
\* settled the row after the poll that copied it: a row the worker itself
\* settled is never sent again, across restarts too.
OnlyOpenRowsAreSent ==
    [][\A id \in Ids : posts'[id] # posts[id] =>
         \/ rows[id].status = "QUEUED"
         \/ \E outcome \in Outcomes : Reported(id, outcome)]_vars

\* No request goes out before the next_retry_at the table holds, even when the
\* row was copied long before and the node crashed in between.
BackoffRespected ==
    [][\A id \in Ids : posts'[id] # posts[id] => rows[id].wait = 0]_vars

\* Every queued row is eventually settled, whatever the partners answer, as
\* long as disturbances stop.
EventuallySettled ==
    \A id \in Ids : rows[id].status = "QUEUED" ~> rows[id].status # "QUEUED"
=============================================================================
