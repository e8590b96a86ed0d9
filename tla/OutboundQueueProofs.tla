------------------------- MODULE OutboundQueueProofs -------------------------
(***************************************************************************)
(* Theorems about OutboundQueue for every number of rows, partners,        *)
(* retries and disturbances.  Its invariants are proved one on top of the  *)
(* other: Typed, types and the worker's position; Copied, the agreement of *)
(* its copy with the table; Confirmed, Spent and Budget, the accounting of *)
(* answers, receipts and attempts.                                         *)
(***************************************************************************)
EXTENDS OutboundQueue, TLAPS

-----------------------------------------------------------------------------
(***************************************************************************)
(* What each statement on the messages table changes and what it leaves    *)
(* alone, column by column.                                                *)
(***************************************************************************)
Tables == [Ids -> Row]

\* UpdateStatus writes one status column of one stored row, and nothing else.
LEMMA UpdateStatusFacts ==
    ASSUME NEW t \in Tables, NEW id \in Ids, NEW s \in Statuses
    PROVE  LET u == UpdateStatus(t, id, s) IN
           /\ u \in Tables
           /\ \A j \in Ids : /\ u[j].retries = t[j].retries
                             /\ u[j].wait = t[j].wait
                             /\ u[j].payload = t[j].payload
                             /\ u[j].job = t[j].job
                             /\ Stored(u, j) <=> Stored(t, j)
                             /\ j # id => u[j].status = t[j].status
           /\ Stored(t, id) => u[id].status = s
  BY DEF Tables, Row, UpdateStatus, Stored, Statuses

\* UpdateRetryInfo writes retry_count and next_retry_at of one row; in
\* particular it never moves a row from one status to another.
LEMMA UpdateRetryInfoFacts ==
    ASSUME NEW t \in Tables, NEW id \in Ids, NEW n \in Nat, NEW w \in Nat
    PROVE  LET u == UpdateRetryInfo(t, id, n, w) IN
           /\ u \in Tables
           /\ \A j \in Ids : /\ u[j].status = t[j].status
                             /\ u[j].payload = t[j].payload
                             /\ u[j].job = t[j].job
                             /\ Stored(u, j) <=> Stored(t, j)
                             /\ j # id => u[j].retries = t[j].retries
                             /\ j # id => u[j].wait = t[j].wait
           /\ Stored(t, id) => u[id].retries = n /\ u[id].wait = w
  BY DEF Tables, Row, UpdateRetryInfo, Stored

\* The absent row is a row; no table operation confuses it with a stored one.
LEMMA AbsentFacts ==
    ASSUME Partners # {}
    PROVE  /\ Absent \in Row /\ Absent.status = "ABSENT"
           /\ EmptyTable \in Tables
           /\ \A j \in Ids : ~Stored(EmptyTable, j)
  <1>1. AnyPartner \in Partners
    BY DEF AnyPartner
  <1>2. Absent \in Row /\ Absent.status = "ABSENT"
    BY <1>1 DEF Absent, Row, Payload, JobTypes, Statuses
  <1> QED
    BY <1>2 DEF EmptyTable, Tables, Stored

\* An insert that the UNIQUE constraint lets through adds one row with a fresh
\* retry count and changes no other row.
LEMMA InsertFacts ==
    ASSUME NEW t \in Tables, NEW id \in Ids, NEW dir \in {"INBOUND", "OUTBOUND"},
           NEW s \in Statuses, NEW p \in Payload, NEW at \in Nat
    PROVE  LET u == Insert(t, id, NewRow(dir, s, p, at)) IN
           /\ u \in Tables
           /\ \A j \in Ids : j # id => u[j] = t[j]
           /\ Stored(u, id) /\ u[id].status = s
           /\ u[id].retries = 0 /\ u[id].wait = 0
  <1>1. ResolveJobType("", p.job) \in JobTypes
    BY DEF ResolveJobType, Payload, JobTypes
  <1>2. NewRow(dir, s, p, at) \in Row
    BY <1>1 DEF NewRow, Row
  <1> QED
    BY <1>2 DEF Insert, NewRow, Tables, Stored, Statuses

\* ListByStatus copies the queued rows as they are and nothing else.
LEMMA ListQueuedFacts ==
    ASSUME NEW t \in Tables, Partners # {}
    PROVE  /\ ListQueued(t) \in Tables
           /\ \A j \in Ids : Stored(ListQueued(t), j) =>
                 t[j].status = "QUEUED" /\ ListQueued(t)[j] = t[j]
  BY AbsentFacts DEF ListQueued, Queued, Tables, Stored

\* The passing of a minute changes no column but next_retry_at, by the same
\* amount in every copy of a row.
LEMMA AgeFacts ==
    ASSUME NEW t \in Tables
    PROVE  /\ Age(t) \in Tables
           /\ \A j \in Ids : /\ Age(t)[j].status = t[j].status
                             /\ Age(t)[j].retries = t[j].retries
                             /\ Age(t)[j].payload = t[j].payload
                             /\ Age(t)[j].job = t[j].job
                             /\ Stored(Age(t), j) <=> Stored(t, j)
                             /\ Age(t)[j].wait = IF t[j].wait = 0 THEN 0 ELSE t[j].wait - 1
  <1>1. \A j \in Ids : [t[j] EXCEPT !.wait = IF t[j].wait = 0 THEN 0 ELSE t[j].wait - 1] \in Row
    BY DEF Tables, Row
  <1> QED
    BY <1>1 DEF Age, Tables, Stored, Row

-----------------------------------------------------------------------------
(***************************************************************************)
(* The invariants.                                                         *)
(***************************************************************************)
\* Where the worker stands, what it holds, and whether its process runs.
Position ==
    /\ pc \in Delivering => cur \in Ids /\ Stored(batch, cur)
    /\ pc \notin Delivering => cur = NoId
    /\ pc \notin Delivering \cup {"next"} => \A id \in Ids : ~Stored(batch, id)
    /\ node = "down" <=> pc = "down"

Typed == TypeOK /\ Position

USE PartnersAssumption, NoIdAssumption, RetriesAssumption, FaultsAssumption,
    RequestsAssumption

\* A logged-and-ignored write keeps the table a table and costs a disturbance only
\* when it fails while the node is up.
LEMMA WriteFacts ==
    ASSUME NEW u \in Tables, rows \in Tables, faults \in 0 .. MaxFaults, Write(u)
    PROVE  /\ rows' \in Tables /\ faults' \in 0 .. MaxFaults
           /\ \/ rows' = u /\ node = "up" /\ faults' = faults
              \/ rows' = rows /\ node = "up" /\ faults' = faults + 1
              \/ rows' = rows /\ node = "stopping" /\ faults' = faults
  <1>1. CASE DbOk /\ rows' = u
    BY <1>1 DEF DbOk
  <1>2. CASE DbFails /\ UNCHANGED rows
    BY <1>2 DEF DbFails, Disturb
  <1> QED
    BY <1>1, <1>2 DEF Write

\* Finishing a row drops it from the worker's copy and touches no other.
LEMMA DropFacts ==
    ASSUME NEW id \in Ids, batch \in Tables
    PROVE  /\ Drop(id) \in Tables /\ ~Stored(Drop(id), id)
           /\ \A j \in Ids : j # id => Drop(id)[j] = batch[j]
  BY AbsentFacts DEF Drop, Tables, Stored

\* What is left in the copy after Advance is what was there, without the row.
LEMMA AdvanceFacts ==
    ASSUME Advance, cur \in Ids, batch \in Tables
    PROVE  \A j \in Ids : Stored(batch', j) =>
              j # cur /\ batch'[j] = batch[j] /\ Stored(batch, j)
  BY DropFacts DEF Advance, Stored

LEMMA TypedInit == Init => Typed
  BY AbsentFacts
  DEF Init, Typed, TypeOK, Position, StoreInit, StoreTypeOK, Delivering, Tables

LEMMA TypedNext == Typed /\ [Next]_vars => Typed'
  <1> SUFFICES ASSUME Typed, [Next]_vars PROVE Typed'
    OBVIOUS
  <1> USE DEF Typed, TypeOK, StoreTypeOK, Tables
  <1>1. CASE Fire
    BY <1>1 DEF Fire, Position, Delivering, tableVars, receiptVars, historyVars, Alive
  <1>2. CASE SeeStop
    BY <1>2 DEF SeeStop, Position, Delivering, tableVars, receiptVars, historyVars
  <1>3. CASE Poll
    BY <1>3, ListQueuedFacts
    DEF Poll, Position, Delivering, tableVars, receiptVars, historyVars, DbOk, DbFails, Disturb
  <1>4. CASE EndOfBatch
    BY <1>4 DEF EndOfBatch, Position, Delivering, tableVars, receiptVars, historyVars
  <1>5. ASSUME NEW id \in Ids, Skip(id) PROVE Typed'
    BY <1>5, AbsentFacts
    DEF Skip, Drop, Position, Delivering, tableVars, receiptVars, historyVars
  <1>6. ASSUME NEW id \in Ids, Post(id) PROVE Typed'
    BY <1>6 DEF Post, Due, Oldest, Position, Delivering, tableVars, receiptVars, DbOk
  <1>7. ASSUME NEW id \in Ids, Reject(id) PROVE Typed'
    BY <1>7
    DEF Reject, Due, Oldest, Position, Delivering, tableVars, receiptVars, DbOk, DbFails, Disturb
  <1>8. ASSUME NEW answer \in {"2xx", "other"}, Reply(answer) PROVE Typed'
    BY <1>8 DEF Reply, Position, Delivering, tableVars, receiptVars
  <1>9. CASE MarkDelivered
    <2>1. cur \in Ids /\ UpdateStatus(rows, cur, "DELIVERED") \in Tables
      BY <1>9, UpdateStatusFacts DEF MarkDelivered, Position, Delivering, Statuses
    <2>2. rows' \in Tables /\ faults' \in 0 .. MaxFaults /\ node # "down"
      BY <1>9, <2>1, WriteFacts DEF MarkDelivered
    <2> QED
      BY <1>9, <2>1, <2>2, DropFacts
      DEF MarkDelivered, Advance, Position, Delivering, receiptVars, historyVars
  <1>10. CASE ScheduleRetry
    <2>1. cur \in Ids /\ Attempts \in Nat /\ Backoff(Attempts) \in Nat
      BY <1>10 DEF ScheduleRetry, ShouldRetry, IsRetryable, Attempts, Backoff, Position, Delivering, Row
    <2>2. rows' \in Tables /\ faults' \in 0 .. MaxFaults /\ node # "down"
      BY <1>10, <2>1, UpdateRetryInfoFacts, WriteFacts DEF ScheduleRetry
    <2> QED
      BY <1>10, <2>1, <2>2, DropFacts
      DEF ScheduleRetry, ShouldRetry, IsRetryable, Advance, Position, Delivering, receiptVars, historyVars
  <1>11. CASE GiveUp
    BY <1>11, UpdateStatusFacts
    DEF GiveUp, Write, Position, Delivering, Statuses, receiptVars, historyVars, DbOk, DbFails, Disturb
  <1>12. CASE NoteFailure
    <2>1. cur \in Ids /\ Attempts \in Nat /\ 0 \in Nat
      BY <1>12 DEF NoteFailure, Attempts, Backoff, Position, Delivering, Row
    <2>2. rows' \in Tables /\ faults' \in 0 .. MaxFaults /\ node # "down"
      BY <1>12, <2>1, UpdateRetryInfoFacts, WriteFacts DEF NoteFailure
    <2> QED
      BY <1>12, <2>1, <2>2, DropFacts
      DEF NoteFailure, Advance, Position, Delivering, receiptVars, historyVars
  <1>13. ASSUME NEW id \in Ids, NEW request \in Requests, Enqueue(id, request) PROVE Typed'
    <2>1. rows' \in Tables /\ stamp' \in Nat
      <3>1. /\ rows \in Tables /\ stamp \in Nat /\ request \in Payload
            /\ "QUEUED" \in Statuses /\ "OUTBOUND" \in {"INBOUND", "OUTBOUND"}
        BY DEF Statuses
      <3>2. Insert(rows, id, NewRow("OUTBOUND", "QUEUED", request, stamp)) \in Tables
        BY <3>1, InsertFacts
      <3> QED
        BY <1>13, <3>1, <3>2 DEF Enqueue, InsertNew, tableVars
    <2> QED
      BY <1>13, <2>1
      DEF Enqueue, Position, Delivering, queueVars, workerVars, receiptVars, historyVars,
          DbOk, DbFails, Disturb, Tables
  <1>14. ASSUME NEW p \in Partners, NEW profile \in Profiles, EditPartner(p, profile) PROVE Typed'
    BY <1>14
    DEF EditPartner, ChangePartner, Position, Delivering, queueVars, workerVars, receiptVars, historyVars
  <1>15. ASSUME NEW r \in Receipt, PartnerAcknowledges(r) PROVE Typed'
    <2>1. handling' \subseteq receipts' /\ receipts' \subseteq Receipt
      BY <1>15 DEF PartnerAcknowledges, StoreReceipt, receiptVars
    <2> QED
      BY <1>15, <2>1
      DEF PartnerAcknowledges, StoreReceipt, Position, Delivering, tableVars, workerVars,
          historyVars, DbOk, DbFails, Disturb
  <1>16. ASSUME NEW h \in handling, Reconcile(h) PROVE Typed'
    <2>1. h.about \in Ids /\ h.outcome \in Statuses
      BY DEF Receipt, Outcomes, Statuses
    <2> QED
      BY <1>16, <2>1, UpdateStatusFacts
      DEF Reconcile, Write, Position, Delivering, workerVars, historyVars, DbOk, DbFails, Disturb
  <1>17. CASE Tick
    BY <1>17, AgeFacts DEF Tick, Position, Delivering, receiptVars, historyVars
  <1>18. CASE Shutdown
    BY <1>18
    DEF Shutdown, BeginShutdown, Disturb, Position, Delivering, queueVars, workerVars, receiptVars, historyVars
  <1>19. CASE Halt
    BY <1>19, AbsentFacts DEF Halt, Exit, Disturb, Position, Delivering, historyVars
  <1>20. CASE Restart
    BY <1>20 DEF Restart, Boot, Position, Delivering, receiptVars, historyVars
  <1>21. CASE UNCHANGED vars
    BY <1>21
    DEF vars, storeVars, queueVars, workerVars, receiptVars, historyVars, Position
  <1> QED
    BY <1>1, <1>2, <1>3, <1>4, <1>5, <1>6, <1>7, <1>8, <1>9, <1>10, <1>11, <1>12, <1>13,
       <1>14, <1>15, <1>16, <1>17, <1>18, <1>19, <1>20, <1>21
    DEF Next, Worker, Handlers, Process

\* Every reachable state is well typed, and the worker's position determines
\* what it holds (worker.go processQueue, container.go Close).
THEOREM TypeCorrect == Spec => []TypeOK
  <1>1. Spec => []Typed
    BY TypedInit, TypedNext, PTL DEF Spec
  <1> QED
    BY <1>1, PTL DEF Typed
-----------------------------------------------------------------------------
(***************************************************************************)
(* The copy and the table.  A row the worker holds a copy of is in the     *)
(* table with the same retry columns, and it is still QUEUED unless the    *)
(* worker itself has just given it up or a receipt has settled it.         *)
(***************************************************************************)
SameColumns(id) ==
    /\ rows[id].retries = batch[id].retries
    /\ rows[id].wait = batch[id].wait
    /\ rows[id].payload = batch[id].payload

KeepsRetryColumns(t, u, id) ==
    /\ Stored(t, id) => Stored(u, id)
    /\ u[id].retries = t[id].retries
    /\ u[id].wait = t[id].wait
    /\ u[id].payload = t[id].payload

Settled(id) == \E outcome \in Outcomes : Reported(id, outcome)

Copied ==
    \A id \in Ids : Stored(batch, id) =>
        /\ Stored(rows, id)
        /\ SameColumns(id)
        /\ rows[id].status = "QUEUED" \/ Settled(id) \/ (id = cur /\ pc = "note")

\* Receipts are only ever added, so what they settled stays settled.
LEMMA SettledStays ==
    ASSUME receipts \subseteq receipts'
    PROVE  \A id \in Ids :
              /\ \A outcome \in Outcomes : Reported(id, outcome) => Reported(id, outcome)'
              /\ Settled(id) => Settled(id)'
  BY DEF Settled, Reported

\* A step that keeps the columns of the rows it does not drop from the copy, and
\* the QUEUED status of all of them but the row it gives up, keeps Copied.
LEMMA CopiedKept ==
    ASSUME Copied, receipts \subseteq receipts',
           \A id \in Ids : Stored(batch', id) =>
               /\ batch'[id] = batch[id] /\ Stored(batch, id)
               /\ Stored(rows', id)
               /\ rows'[id].retries = rows[id].retries
               /\ rows'[id].wait = rows[id].wait
               /\ rows'[id].payload = rows[id].payload
               /\ \/ rows'[id].status = rows[id].status
                  \/ Settled(id)' \/ (id = cur' /\ pc' = "note"),
           pc = "note" => \A id \in Ids : id = cur /\ Stored(batch', id) =>
               pc' = "note" /\ cur' = cur
    PROVE  Copied'
  <1> SUFFICES ASSUME NEW id \in Ids, Stored(batch', id)
               PROVE  /\ Stored(rows', id)
                      /\ SameColumns(id)'
                      /\ rows'[id].status = "QUEUED" \/ Settled(id)' \/ (id = cur' /\ pc' = "note")
    BY DEF Copied, Stored
  <1>1. /\ SameColumns(id)
        /\ rows[id].status = "QUEUED" \/ Settled(id) \/ (id = cur /\ pc = "note")
    BY DEF Copied
  <1>2. SameColumns(id)'
    BY <1>1 DEF SameColumns
  <1> QED
    BY <1>1, <1>2, SettledStays

LEMMA CopiedInit == Init => Copied
  BY AbsentFacts DEF Init, Copied

LEMMA CopiedNext == Typed /\ Copied /\ [Next]_vars => Copied'
  <1> SUFFICES ASSUME Typed, Copied, [Next]_vars PROVE Copied'
    OBVIOUS
  <1> USE DEF Typed, TypeOK, StoreTypeOK, Tables
  <1>1. CASE Fire \/ SeeStop \/ EndOfBatch
    BY <1>1, CopiedKept DEF Fire, SeeStop, EndOfBatch, tableVars, receiptVars, Stored, Copied
  <1>2. CASE Poll
    <2>1. CASE DbOk /\ batch' = ListQueued(rows) /\ pc' = "next"
      BY <1>2, <2>1, ListQueuedFacts DEF Poll, Copied, SameColumns, Stored, tableVars
    <2>2. CASE UNCHANGED batch /\ pc' = "wait"
      BY <1>2, <2>2, CopiedKept DEF Poll, tableVars, receiptVars, Copied, Stored
    <2> QED
      BY <1>2, <2>1, <2>2 DEF Poll
  <1>3. ASSUME NEW id \in Ids, Skip(id) PROVE Copied'
    BY <1>3, CopiedKept, DropFacts DEF Skip, tableVars, receiptVars, Copied, Stored
  <1>4. ASSUME NEW id \in Ids, Post(id) \/ Reject(id) PROVE Copied'
    BY <1>4, CopiedKept DEF Post, Reject, Due, tableVars, receiptVars, Copied, Stored
  <1>5. ASSUME NEW answer \in {"2xx", "other"}, Reply(answer) PROVE Copied'
    BY <1>5, CopiedKept DEF Reply, tableVars, receiptVars, Copied, Stored
  <1>6. CASE MarkDelivered
    <2>1. cur \in Ids /\ "DELIVERED" \in Statuses
      BY <1>6 DEF MarkDelivered, Position, Delivering, Statuses
    <2>2. rows' = UpdateStatus(rows, cur, "DELIVERED") \/ rows' = rows
      BY <1>6 DEF MarkDelivered, Write
    <2>3. \A j \in Ids : KeepsRetryColumns(rows, rows', j) /\ (j # cur => rows'[j].status = rows[j].status)
      BY <2>1, <2>2, UpdateStatusFacts, SMTT(30) DEF KeepsRetryColumns
    <2>4. \A j \in Ids : Stored(batch', j) => j # cur /\ batch'[j] = batch[j] /\ Stored(batch, j)
      BY <1>6, <2>1, AdvanceFacts DEF MarkDelivered
    <2> QED
      BY <1>6, <2>3, <2>4, CopiedKept DEF MarkDelivered, receiptVars, Copied, KeepsRetryColumns
  <1>7. CASE ScheduleRetry \/ NoteFailure
    <2>1. cur \in Ids /\ Attempts \in Nat
      BY <1>7 DEF ScheduleRetry, NoteFailure, ShouldRetry, IsRetryable, Attempts, Position, Delivering, Row
    <2>2. Backoff(Attempts) \in Nat
      BY <2>1 DEF Backoff
    <2>3. PICK w \in Nat : rows' = UpdateRetryInfo(rows, cur, Attempts, w) \/ rows' = rows
      BY <1>7, <2>2 DEF ScheduleRetry, NoteFailure, Write
    <2>4. \A j \in Ids : /\ Stored(rows, j) => Stored(rows', j)
                         /\ j # cur => KeepsRetryColumns(rows, rows', j)
                         /\ rows'[j].status = rows[j].status
      <3>1. CASE rows' = rows
        BY <3>1 DEF KeepsRetryColumns, Stored
      <3>2. CASE rows' = UpdateRetryInfo(rows, cur, Attempts, w)
        BY <2>1, <3>2 DEF KeepsRetryColumns, UpdateRetryInfo, Stored, Row
      <3> QED
        BY <2>3, <3>1, <3>2
    <2>5. \A j \in Ids : Stored(batch', j) => j # cur /\ batch'[j] = batch[j] /\ Stored(batch, j)
      BY <1>7, <2>1, AdvanceFacts DEF ScheduleRetry, NoteFailure
    <2> QED
      BY <1>7, <2>4, <2>5, CopiedKept
      DEF ScheduleRetry, NoteFailure, receiptVars, Copied, KeepsRetryColumns
  <1>8. CASE GiveUp
    <2>1. cur \in Ids /\ "FAILED" \in Statuses
      BY <1>8 DEF GiveUp, Position, Delivering, Statuses
    <2>2. rows' = UpdateStatus(rows, cur, "FAILED") \/ rows' = rows
      BY <1>8 DEF GiveUp, Write
    <2>3. \A j \in Ids : KeepsRetryColumns(rows, rows', j) /\ (j # cur => rows'[j].status = rows[j].status)
      BY <2>1, <2>2, UpdateStatusFacts, SMTT(30) DEF KeepsRetryColumns
    <2> QED
      BY <1>8, <2>3, CopiedKept DEF GiveUp, receiptVars, Copied, KeepsRetryColumns
  <1>9. ASSUME NEW id \in Ids, NEW request \in Requests, Enqueue(id, request) PROVE Copied'
    <2>1. CASE InsertNew(id, "OUTBOUND", "QUEUED", request)
      <3>1. ~Stored(rows, id)
        BY <2>1 DEF InsertNew, CanInsert
      <3>2. \A j \in Ids : j # id => rows'[j] = rows[j]
        BY <2>1 DEF InsertNew, Insert
      <3> QED
        BY <1>9, <3>1, <3>2, CopiedKept
        DEF Enqueue, queueVars, workerVars, receiptVars, Copied, Stored
    <2>2. CASE UNCHANGED tableVars
      BY <1>9, <2>2, CopiedKept
      DEF Enqueue, tableVars, queueVars, workerVars, receiptVars, Copied, Stored
    <2> QED
      BY <1>9, <2>1, <2>2 DEF Enqueue
  <1>10. ASSUME NEW p \in Partners, NEW profile \in Profiles, EditPartner(p, profile) PROVE Copied'
    BY <1>10, CopiedKept
    DEF EditPartner, ChangePartner, queueVars, workerVars, receiptVars, Copied, Stored
  <1>11. ASSUME NEW r \in Receipt, PartnerAcknowledges(r) PROVE Copied'
    BY <1>11, CopiedKept
    DEF PartnerAcknowledges, StoreReceipt, tableVars, workerVars, receiptVars, Copied, Stored
  <1>12. ASSUME NEW h \in handling, Reconcile(h) PROVE Copied'
    <2> DEFINE u == UpdateStatus(rows, h.about, h.outcome)
    <2>1. h \in receipts /\ h.about \in Ids /\ h.outcome \in Statuses /\ h.outcome \in Outcomes
      BY DEF Receipt, Outcomes, Statuses
    <2>2. Settled(h.about)'
      BY <1>12, <2>1 DEF Reconcile, Settled, Reported
    <2>3. rows' = u \/ rows' = rows
      BY <1>12 DEF Reconcile, Write
    <2>4. \A j \in Ids : /\ KeepsRetryColumns(rows, rows', j)
                         /\ j # h.about => rows'[j].status = rows[j].status
      BY <2>1, <2>3, UpdateStatusFacts DEF KeepsRetryColumns
    <2> QED
      BY <1>12, <2>2, <2>4, CopiedKept DEF Reconcile, workerVars, Copied, KeepsRetryColumns
  <1>13. CASE Tick
    BY <1>13, AgeFacts, SettledStays DEF Tick, Copied, SameColumns, receiptVars
  <1>14. CASE Shutdown \/ Restart
    BY <1>14, CopiedKept
    DEF Shutdown, BeginShutdown, Restart, Boot, queueVars, workerVars, receiptVars, Copied, Stored, Position, Delivering
  <1>15. CASE Halt
    BY <1>15, AbsentFacts DEF Halt, Copied
  <1>16. CASE UNCHANGED vars
    BY <1>16, CopiedKept
    DEF vars, storeVars, queueVars, workerVars, receiptVars, Copied, Stored
  <1> QED
    BY <1>1, <1>2, <1>3, <1>4, <1>5, <1>6, <1>7, <1>8, <1>9, <1>10, <1>11, <1>12, <1>13,
       <1>14, <1>15, <1>16
    DEF Next, Worker, Handlers, Process

Safe == Typed /\ Copied

LEMMA SafeAlways == Spec => []Safe
  <1>1. Init => Safe
    BY TypedInit, CopiedInit DEF Safe
  <1>2. Safe /\ [Next]_vars => Safe'
    BY TypedNext, CopiedNext DEF Safe
  <1> QED
    BY <1>1, <1>2, PTL DEF Spec

\* handleFailure may compute with the copy of a row: it never disagrees with the
\* table on what a delivery and its backoff are computed from.
THEOREM CopyStaysFresh == Spec => []CopyIsFresh
  <1>1. Safe => CopyIsFresh
    BY DEF Safe, Copied, CopyIsFresh, SameColumns
  <1> QED
    BY <1>1, SafeAlways, PTL

\* Only Post sends, and only a row the worker holds a copy of that is due.
LEMMA OnlyPostSends ==
    ASSUME [Next]_vars, NEW id \in Ids, posts'[id] # posts[id], Typed
    PROVE  Post(id)
  <1> USE DEF Typed, TypeOK
  <1>1. CASE \E j \in Ids : Post(j)
    BY <1>1 DEF Post
  <1>2. CASE posts' = posts
    BY <1>2
  <1>3. CASE \E j \in Ids : Reject(j)
    BY <1>3 DEF Reject
  <1>4. CASE \E answer \in {"2xx", "other"} : Reply(answer)
    BY <1>4 DEF Reply
  <1>5. CASE \E j \in Ids : Skip(j)
    BY <1>5 DEF Skip, historyVars
  <1>6. CASE Fire \/ SeeStop \/ Poll \/ EndOfBatch \/ MarkDelivered \/ ScheduleRetry \/ GiveUp \/ NoteFailure
    BY <1>6
    DEF Fire, SeeStop, Poll, EndOfBatch, MarkDelivered, ScheduleRetry, GiveUp, NoteFailure, historyVars
  <1>7. CASE Handlers
    BY <1>7
    DEF Handlers, Enqueue, EditPartner, PartnerAcknowledges, StoreReceipt, Reconcile, queueVars, historyVars
  <1>8. CASE Process
    BY <1>8 DEF Process, Tick, Shutdown, Halt, Restart, queueVars, historyVars
  <1>9. CASE UNCHANGED vars
    BY <1>9 DEF vars, queueVars, historyVars
  <1> QED
    BY <1>1, <1>3, <1>4, <1>5, <1>6, <1>7, <1>8, <1>9 DEF Next, Worker

\* A row the worker or a receipt settled is not sent again, whatever polls,
\* restarts and receipts come in between.
THEOREM SettledRowsAreNotSent == Spec => OnlyOpenRowsAreSent
  <1>1. ASSUME Safe, [Next]_vars, NEW id \in Ids, posts'[id] # posts[id]
        PROVE  rows[id].status = "QUEUED" \/ \E outcome \in Outcomes : Reported(id, outcome)
    <2>1. Post(id)
      BY <1>1, OnlyPostSends DEF Safe
    <2>2. pc = "next" /\ Stored(batch, id)
      BY <2>1 DEF Post, Due, Oldest
    <2> QED
      BY <1>1, <2>2 DEF Safe, Copied, Settled
  <1>2. Safe /\ [Next]_vars =>
          [\A id \in Ids : posts'[id] # posts[id] =>
             \/ rows[id].status = "QUEUED"
             \/ \E outcome \in Outcomes : Reported(id, outcome)]_vars
    BY <1>1
  <1> QED
    BY <1>2, SafeAlways, PTL DEF Spec, OnlyOpenRowsAreSent

\* No request goes out while the next_retry_at of the table is in the future.
THEOREM BackoffIsRespected == Spec => BackoffRespected
  <1>1. ASSUME Safe, [Next]_vars, NEW id \in Ids, posts'[id] # posts[id]
        PROVE  rows[id].wait = 0
    <2>1. Post(id)
      BY <1>1, OnlyPostSends DEF Safe
    <2>2. Stored(batch, id) /\ ~(batch[id].wait > 0)
      BY <2>1 DEF Post, Due, Oldest, NotDueYet
    <2>3. batch[id].wait \in Nat
      BY <1>1 DEF Safe, Typed, TypeOK, Row
    <2> QED
      BY <1>1, <2>2, <2>3 DEF Safe, Copied, SameColumns
  <1>2. Safe /\ [Next]_vars =>
          [\A id \in Ids : posts'[id] # posts[id] => rows[id].wait = 0]_vars
    BY <1>1
  <1> QED
    BY <1>2, SafeAlways, PTL DEF Spec, BackoffRespected
-----------------------------------------------------------------------------
(***************************************************************************)
(* Outcomes.  A 2xx answer is remembered until it is recorded; whatever    *)
(* retry_count says was really sent, unless the row could not be sent.     *)
(***************************************************************************)
Answered == {"post", "ok", "retryable"}

Confirmed ==
    /\ pc = "ok" => cur \in acked
    /\ DeliveredIsConfirmed

Accounted(id, n) == id \in refused \/ n <= posts[id]

InHand ==
    /\ pc \in Answered => Accounted(cur, batch[cur].retries + 1)
    /\ pc = "fatal" => cur \in refused
    /\ pc = "note" => /\ Accounted(cur, batch[cur].retries + 1)
                      /\ cur \in refused \/ MaxRetries <= posts[cur]

Spent ==
    /\ \A id \in Ids : Accounted(id, rows[id].retries)
    /\ InHand
    /\ GivenUpOnlyWhenExhausted

(***************************************************************************)
(* The budget.  A row that can still be sent has been sent retry_count     *)
(* times, except for the attempts that disturbances hid and for the one    *)
(* that is under way on a node that is up.  handleFailure stops at         *)
(* MaxRetries, but a row it failed to mark FAILED keeps a retry_count of   *)
(* MaxRetries and is sent again: hence the cap.                            *)
(***************************************************************************)
Open(id) ==
    rows[id].status = "QUEUED" \/ (Stored(batch, id) /\ ~(id = cur /\ pc = "note"))

UnderWay(id) == id = cur /\ pc \in Answered /\ node = "up"

Counted(id) ==
    IF rows[id].retries < MaxRetries THEN rows[id].retries ELSE MaxRetries - 1

Allowance(id) == Counted(id) + faults + (IF UnderWay(id) THEN 1 ELSE 0)

Budget ==
    /\ \A id \in Ids : Open(id) => posts[id] <= Allowance(id)
    /\ \A id \in Ids : ~Stored(rows, id) => posts[id] = 0
    /\ AttemptsBounded
-----------------------------------------------------------------------------
LEMMA ConfirmedInit == Init => Confirmed
  BY AbsentFacts
  DEF Init, StoreInit, EmptyTable, Confirmed, DeliveredIsConfirmed

\* A step that takes no row to DELIVERED without a 2xx answer or a receipt, and
\* forgets no answer, keeps Confirmed.
LEMMA ConfirmedKept ==
    ASSUME Typed, Confirmed, receipts \subseteq receipts', acked \subseteq acked',
           pc' = "ok" => cur' \in acked',
           \A id \in Ids : rows'[id].status = "DELIVERED" =>
               \/ rows[id].status = "DELIVERED"
               \/ id \in acked' \/ Reported(id, "DELIVERED")'
    PROVE  Confirmed'
  BY SettledStays DEF Confirmed, DeliveredIsConfirmed, Outcomes

LEMMA ConfirmedNext == Typed /\ Confirmed /\ [Next]_vars => Confirmed'
  <1> SUFFICES ASSUME Typed, Confirmed, [Next]_vars PROVE Confirmed'
    OBVIOUS
  <1> USE DEF Typed, TypeOK, StoreTypeOK, Tables
  <1>1. CASE Fire \/ SeeStop \/ EndOfBatch \/ Poll
    BY <1>1, ConfirmedKept
    DEF Fire, SeeStop, EndOfBatch, Poll, tableVars, receiptVars, historyVars, Confirmed
  <1>2. ASSUME NEW id \in Ids, Skip(id) \/ Post(id) \/ Reject(id) PROVE Confirmed'
    BY <1>2, ConfirmedKept
    DEF Skip, Post, Reject, tableVars, receiptVars, historyVars, Confirmed
  <1>3. ASSUME NEW answer \in {"2xx", "other"}, Reply(answer) PROVE Confirmed'
    BY <1>3, ConfirmedKept DEF Reply, tableVars, receiptVars, Confirmed
  <1>4. CASE MarkDelivered
    <2>1. cur \in Ids /\ "DELIVERED" \in Statuses /\ cur \in acked
      BY <1>4 DEF MarkDelivered, Position, Delivering, Statuses, Confirmed
    <2>2. rows' = UpdateStatus(rows, cur, "DELIVERED") \/ rows' = rows
      BY <1>4 DEF MarkDelivered, Write
    <2>3. \A j \in Ids : j # cur => rows'[j].status = rows[j].status
      BY <2>1, <2>2, UpdateStatusFacts
    <2> QED
      BY <1>4, <2>1, <2>3, ConfirmedKept DEF MarkDelivered, Advance, receiptVars, historyVars
  <1>5. CASE ScheduleRetry \/ NoteFailure
    <2>1. \E n, w : rows' = UpdateRetryInfo(rows, cur, n, w) \/ rows' = rows
      BY <1>5 DEF ScheduleRetry, NoteFailure, Write
    <2>2. \A j \in Ids : rows'[j].status = rows[j].status
      BY <2>1 DEF UpdateRetryInfo, Stored, Row
    <2> QED
      BY <1>5, <2>2, ConfirmedKept
      DEF ScheduleRetry, NoteFailure, Advance, receiptVars, historyVars
  <1>6. CASE GiveUp
    <2>1. \A j \in Ids : rows'[j].status = "DELIVERED" => rows[j].status = "DELIVERED"
      <3>1. cur \in Ids /\ "FAILED" \in Statuses
        BY <1>6 DEF GiveUp, Position, Delivering, Statuses
      <3>2. rows' = UpdateStatus(rows, cur, "FAILED") \/ rows' = rows
        BY <1>6 DEF GiveUp, Write
      <3>3. \A j \in Ids : j # cur => rows'[j].status = rows[j].status
        BY <3>1, <3>2, UpdateStatusFacts DEF Typed, TypeOK, StoreTypeOK, Tables
      <3>4. rows'[cur].status = "FAILED" \/ rows'[cur] = rows[cur]
        <4>1. CASE Stored(rows, cur)
          BY <3>1, <3>2, <4>1, UpdateStatusFacts DEF Typed, TypeOK, StoreTypeOK, Tables
        <4>2. CASE ~Stored(rows, cur)
          BY <3>1, <3>2, <4>2 DEF UpdateStatus
        <4> QED
          BY <4>1, <4>2
      <3> QED
        BY <3>3, <3>4
    <2> QED
      BY <1>6, <2>1, ConfirmedKept DEF GiveUp, receiptVars, historyVars
  <1>7. ASSUME NEW id \in Ids, NEW request \in Requests, Enqueue(id, request) PROVE Confirmed'
    <2>1. \A j \in Ids : rows'[j].status = "DELIVERED" => rows[j].status = "DELIVERED"
      <3>1. CASE UNCHANGED tableVars
        BY <3>1 DEF tableVars
      <3>2. CASE InsertNew(id, "OUTBOUND", "QUEUED", request)
        BY <3>2 DEF InsertNew, Insert, NewRow
      <3> QED
        BY <1>7, <3>1, <3>2 DEF Enqueue
    <2> QED
      BY <1>7, <2>1, ConfirmedKept
      DEF Enqueue, queueVars, workerVars, receiptVars, historyVars, Confirmed
  <1>8. ASSUME NEW p \in Partners, NEW profile \in Profiles, EditPartner(p, profile) PROVE Confirmed'
    BY <1>8, ConfirmedKept
    DEF EditPartner, ChangePartner, queueVars, workerVars, receiptVars, historyVars, Confirmed
  <1>9. ASSUME NEW r \in Receipt, PartnerAcknowledges(r) PROVE Confirmed'
    BY <1>9, ConfirmedKept
    DEF PartnerAcknowledges, StoreReceipt, tableVars, workerVars, receiptVars, historyVars, Confirmed
  <1>10. ASSUME NEW h \in handling, Reconcile(h) PROVE Confirmed'
    <2>1. h \in receipts /\ h.about \in Ids /\ h.outcome \in Outcomes
      BY DEF Receipt
    <2>2. Reported(h.about, h.outcome)'
      BY <1>10, <2>1 DEF Reconcile, Reported
    <2>3. \A j \in Ids : rows'[j].status = "DELIVERED" =>
             rows[j].status = "DELIVERED" \/ (j = h.about /\ h.outcome = "DELIVERED")
      BY <1>10, <2>1 DEF Reconcile, Write, UpdateStatus, Stored, Row
    <2> QED
      BY <1>10, <2>2, <2>3, ConfirmedKept DEF Reconcile, workerVars, historyVars, Confirmed
  <1>11. CASE Tick
    BY <1>11, AgeFacts, ConfirmedKept DEF Tick, receiptVars, historyVars, Confirmed
  <1>12. CASE Shutdown \/ Halt \/ Restart
    BY <1>12, ConfirmedKept
    DEF Shutdown, BeginShutdown, Halt, Exit, Restart, Boot, queueVars, workerVars, receiptVars,
        historyVars, Confirmed
  <1>13. CASE UNCHANGED vars
    BY <1>13, ConfirmedKept
    DEF vars, storeVars, queueVars, workerVars, receiptVars, historyVars, Confirmed
  <1> QED
    BY <1>1, <1>2, <1>3, <1>4, <1>5, <1>6, <1>7, <1>8, <1>9, <1>10, <1>11, <1>12, <1>13
    DEF Next, Worker, Handlers, Process
-----------------------------------------------------------------------------
LEMMA SpentInit == Init => Spent
  <1> SUFFICES ASSUME Init PROVE Spent
    OBVIOUS
  <1>1. \A id \in Ids : rows[id].retries = 0 /\ rows[id].status = "ABSENT" /\ posts[id] = 0
    BY DEF Init, StoreInit, EmptyTable, Absent
  <1>2. pc = "poll"
    BY DEF Init
  <1> QED
    BY <1>1, <1>2 DEF Spent, InHand, Answered, Accounted, GivenUpOnlyWhenExhausted

\* Requests are only added: what is accounted for stays so.
LEMMA AccountedStays ==
    ASSUME NEW id \in Ids, NEW n \in Nat, posts \in [Ids -> Nat], posts' \in [Ids -> Nat],
           posts[id] <= posts'[id], refused \subseteq refused', Accounted(id, n)
    PROVE  id \in refused' \/ n <= posts'[id]
  BY DEF Accounted

LEMMA SpentKept ==
    ASSUME Typed, Typed', Spent, InHand', receipts \subseteq receipts', refused \subseteq refused',
           \A id \in Ids : posts[id] <= posts'[id],
           \A id \in Ids : \/ rows'[id].retries = rows[id].retries
                           \/ id \in refused' \/ rows'[id].retries <= posts'[id],
           \A id \in Ids : rows'[id].status = "FAILED" =>
               \/ rows[id].status = "FAILED" \/ Reported(id, "FAILED")'
               \/ id \in refused' \/ MaxRetries <= posts'[id]
    PROVE  Spent'
  <1> USE DEF Typed, TypeOK, StoreTypeOK
  <1>1. ASSUME NEW id \in Ids PROVE Accounted(id, rows[id].retries)'
    <2>1. rows[id].retries \in Nat /\ rows'[id].retries \in Nat
      BY DEF Row
    <2> QED
      BY <2>1 DEF Spent, Accounted
  <1>2. ASSUME NEW id \in Ids, rows'[id].status = "FAILED"
        PROVE  Reported(id, "FAILED")' \/ id \in refused' \/ posts'[id] >= MaxRetries
    BY <1>2, SettledStays DEF Spent, GivenUpOnlyWhenExhausted, Outcomes
  <1> QED
    BY <1>1, <1>2 DEF Spent, GivenUpOnlyWhenExhausted

\* What is in hand stays accounted for while the worker waits.
LEMMA InHandKept ==
    ASSUME Typed, Typed', Spent, refused \subseteq refused', posts' = posts,
           \/ pc' = pc /\ cur' = cur /\ (pc \in Delivering => batch'[cur].retries = batch[cur].retries)
           \/ pc' \notin Delivering
    PROVE  InHand'
  BY DEF Spent, InHand, Accounted, Answered, Delivering

LEMMA SpentNext == Safe /\ Safe' /\ Spent /\ [Next]_vars => Spent'
  <1> SUFFICES ASSUME Safe, Safe', Spent, [Next]_vars PROVE Spent'
    OBVIOUS
  <1> USE DEF Safe
  <1>posts. posts \in [Ids -> Nat] /\ posts' \in [Ids -> Nat] /\ MaxRetries \in Nat
            /\ \A id \in Ids : posts[id] <= posts[id]
    BY DEF Typed, TypeOK
  <1>1. CASE Fire \/ SeeStop \/ EndOfBatch \/ Poll
    BY <1>1, <1>posts, SpentKept, InHandKept
    DEF Fire, SeeStop, EndOfBatch, Poll, tableVars, receiptVars, historyVars, Delivering
  <1>2. ASSUME NEW id \in Ids, Skip(id) PROVE Spent'
    BY <1>2, <1>posts, SpentKept, InHandKept
    DEF Skip, tableVars, receiptVars, historyVars, Delivering
  <1>3. ASSUME NEW id \in Ids, Post(id) PROVE Spent'
    <2>1. \A j \in Ids : posts[j] <= posts'[j]
      BY <1>3, <1>posts DEF Post
    <2>2. rows' = rows /\ receipts' = receipts /\ refused' = refused /\ posts'[id] = posts[id] + 1
      BY <1>3, <1>posts DEF Post, tableVars, receiptVars
    <2>3. Stored(batch, id) /\ batch' = batch /\ pc' = "post" /\ cur' = id
      BY <1>3 DEF Post, Due, Oldest
    <2>4. batch[id].retries = rows[id].retries /\ batch[id].retries \in Nat
      BY <2>3 DEF Copied, SameColumns, Typed, TypeOK, Row
    <2>5. InHand'
      BY <2>2, <2>3, <2>4, <1>posts DEF InHand, Spent, Accounted, Answered
    <2> QED
      BY <2>1, <2>2, <2>5, SpentKept
  <1>4. ASSUME NEW id \in Ids, Reject(id) PROVE Spent'
    <2>1. InHand'
      BY <1>4 DEF Reject, InHand, Answered
    <2> QED
      BY <1>4, <2>1, <1>posts, SpentKept DEF Reject, tableVars, receiptVars
  <1>5. ASSUME NEW answer \in {"2xx", "other"}, Reply(answer) PROVE Spent'
    <2>1. InHand'
      BY <1>5 DEF Reply, InHand, Spent, Answered, Accounted
    <2> QED
      BY <1>5, <2>1, <1>posts, SpentKept DEF Reply, tableVars, receiptVars
  <1>6. CASE MarkDelivered
    <2>1. cur \in Ids /\ "DELIVERED" \in Statuses
      BY <1>6 DEF MarkDelivered, Typed, Position, Delivering, Statuses
    <2>2. rows' = UpdateStatus(rows, cur, "DELIVERED") \/ rows' = rows
      BY <1>6 DEF MarkDelivered, Write
    <2>3. \A j \in Ids : /\ rows'[j].retries = rows[j].retries
                         /\ rows'[j].status = "FAILED" => rows[j].status = "FAILED"
      BY <2>1, <2>2 DEF UpdateStatus, Stored, Row, Typed, TypeOK, StoreTypeOK
    <2> QED
      BY <1>6, <2>3, <1>posts, SpentKept, InHandKept
      DEF MarkDelivered, Advance, receiptVars, historyVars, Delivering
  <1>7. CASE ScheduleRetry \/ NoteFailure
    <2>1. cur \in Ids /\ Attempts \in Nat /\ (cur \in refused \/ Attempts <= posts[cur])
      BY <1>7, <1>posts
      DEF ScheduleRetry, NoteFailure, ShouldRetry, IsRetryable, Attempts, Typed, TypeOK, Position, Delivering,
          Row, Spent, InHand, Answered, Accounted
    <2>2. \E w : rows' = UpdateRetryInfo(rows, cur, Attempts, w) \/ rows' = rows
      BY <1>7 DEF ScheduleRetry, NoteFailure, Write
    <2>3. \A j \in Ids : /\ rows'[j].status = rows[j].status
                         /\ rows'[j].retries = rows[j].retries \/ (j = cur /\ rows'[j].retries = Attempts)
      BY <2>1, <2>2 DEF UpdateRetryInfo, Stored, Row, Typed, TypeOK, StoreTypeOK
    <2> QED
      BY <1>7, <2>1, <2>3, <1>posts, SpentKept, InHandKept
      DEF ScheduleRetry, NoteFailure, Advance, receiptVars, historyVars, Delivering
  <1>8. CASE GiveUp
    <2>1. cur \in Ids /\ Attempts \in Nat /\ (cur \in refused \/ Attempts <= posts[cur])
                      /\ (cur \in refused \/ MaxRetries <= posts[cur])
      BY <1>8, <1>posts
      DEF GiveUp, ShouldRetry, IsRetryable, Attempts, Typed, TypeOK, Position, Delivering, Row,
          Spent, InHand, Answered, Accounted
    <2>2. rows' = UpdateStatus(rows, cur, "FAILED") \/ rows' = rows
      BY <1>8 DEF GiveUp, Write
    <2>3. \A j \in Ids : /\ rows'[j].retries = rows[j].retries
                         /\ j # cur => rows'[j].status = rows[j].status
      BY <2>1, <2>2 DEF UpdateStatus, Stored, Row, Typed, TypeOK, StoreTypeOK
    <2>4. InHand'
      BY <1>8, <2>1 DEF GiveUp, InHand, Accounted, Answered, Attempts, historyVars
    <2> QED
      BY <1>8, <2>1, <2>3, <2>4, <1>posts, SpentKept DEF GiveUp, receiptVars, historyVars
  <1>9. ASSUME NEW id \in Ids, NEW request \in Requests, Enqueue(id, request) PROVE Spent'
    <2>1. \A j \in Ids : /\ rows'[j].retries = rows[j].retries \/ rows'[j].retries = 0
                         /\ rows'[j].status = "FAILED" => rows[j].status = "FAILED"
      <3>1. CASE UNCHANGED tableVars
        BY <3>1 DEF tableVars
      <3>2. CASE InsertNew(id, "OUTBOUND", "QUEUED", request)
        BY <3>2 DEF InsertNew, Insert, NewRow, Typed, TypeOK, StoreTypeOK
      <3> QED
        BY <1>9, <3>1, <3>2 DEF Enqueue
    <2> QED
      BY <1>9, <2>1, <1>posts, SpentKept, InHandKept
      DEF Enqueue, queueVars, workerVars, receiptVars, historyVars
  <1>10. ASSUME NEW p \in Partners, NEW profile \in Profiles, EditPartner(p, profile) PROVE Spent'
    BY <1>10, <1>posts, SpentKept, InHandKept
    DEF EditPartner, ChangePartner, queueVars, workerVars, receiptVars, historyVars
  <1>11. ASSUME NEW r \in Receipt, PartnerAcknowledges(r) PROVE Spent'
    BY <1>11, <1>posts, SpentKept, InHandKept
    DEF PartnerAcknowledges, StoreReceipt, tableVars, workerVars, receiptVars, historyVars
  <1>12. ASSUME NEW h \in handling, Reconcile(h) PROVE Spent'
    <2>1. h \in receipts /\ h.about \in Ids /\ h.outcome \in Outcomes
      BY DEF Receipt, Typed, TypeOK
    <2>2. Reported(h.about, h.outcome)'
      BY <1>12, <2>1 DEF Reconcile, Reported
    <2>3. \A j \in Ids : /\ rows'[j].retries = rows[j].retries
                         /\ rows'[j].status = "FAILED" =>
                               rows[j].status = "FAILED" \/ (j = h.about /\ h.outcome = "FAILED")
      BY <1>12, <2>1 DEF Reconcile, Write, UpdateStatus, Stored, Row, Typed, TypeOK, StoreTypeOK
    <2> QED
      BY <1>12, <2>2, <2>3, <1>posts, SpentKept, InHandKept DEF Reconcile, workerVars, historyVars
  <1>13. CASE Tick
    <2>1. \A j \in Ids : /\ rows'[j].retries = rows[j].retries
                         /\ rows'[j].status = rows[j].status
                         /\ batch'[j].retries = batch[j].retries
      BY <1>13, AgeFacts DEF Tick, Typed, TypeOK, StoreTypeOK, Tables
    <2> QED
      BY <1>13, <2>1, <1>posts, SpentKept, InHandKept
      DEF Tick, receiptVars, historyVars, Typed, Position
  <1>14. CASE Shutdown
    BY <1>14, <1>posts, SpentKept, InHandKept
    DEF Shutdown, BeginShutdown, queueVars, workerVars, receiptVars, historyVars
  <1>15. CASE Halt \/ Restart
    BY <1>15, <1>posts, SpentKept, InHandKept
    DEF Halt, Exit, Restart, Boot, receiptVars, historyVars, Delivering
  <1>16. CASE UNCHANGED vars
    BY <1>16, <1>posts, SpentKept, InHandKept
    DEF vars, storeVars, queueVars, workerVars, receiptVars, historyVars
  <1> QED
    BY <1>1, <1>2, <1>3, <1>4, <1>5, <1>6, <1>7, <1>8, <1>9, <1>10, <1>11, <1>12, <1>13,
       <1>14, <1>15, <1>16
    DEF Next, Worker, Handlers, Process
-----------------------------------------------------------------------------
WithinBounds ==
    \A id \in Ids : /\ Counted(id) \in Nat /\ Counted(id) + 1 <= MaxRetries
                   /\ Allowance(id) \in Nat /\ faults \in Nat /\ posts[id] \in Nat
                   /\ Allowance(id) <= MaxRetries + faults

LEMMA AllowanceFacts == Typed => WithinBounds
  <1> SUFFICES ASSUME Typed, NEW id \in Ids
               PROVE  /\ Counted(id) \in Nat /\ Counted(id) + 1 <= MaxRetries
                      /\ Allowance(id) \in Nat /\ faults \in Nat /\ posts[id] \in Nat
                      /\ Allowance(id) <= MaxRetries + faults
    BY DEF WithinBounds
  <1>1. rows[id].retries \in Nat /\ faults \in Nat /\ posts[id] \in Nat /\ MaxRetries \in Nat \ {0}
    BY DEF Typed, TypeOK, StoreTypeOK, Row
  <1>2. Counted(id) \in Nat /\ Counted(id) + 1 <= MaxRetries
    BY <1>1 DEF Counted
  <1> QED
    BY <1>1, <1>2 DEF Allowance

LEMMA BudgetInit == Init => Budget
  <1> SUFFICES ASSUME Init PROVE Budget
    OBVIOUS
  <1>1. \A id \in Ids : posts[id] = 0
    BY DEF Init
  <1>2. Typed
    BY TypedInit
  <1> QED
    BY <1>1, <1>2, AllowanceFacts DEF Budget, AttemptsBounded, WithinBounds

\* A step that sends nothing and lowers the allowance of no row that can still be
\* sent keeps the budget.
LEMMA BudgetKept ==
    ASSUME Typed, Typed', Budget, posts' = posts, faults <= faults',
           \A id \in Ids : Stored(rows, id) => Stored(rows', id),
           \A id \in Ids : Open(id)' =>
               posts[id] = 0 \/ (Open(id) /\ Allowance(id) <= Allowance(id)')
    PROVE  Budget'
  <1> WithinBounds /\ WithinBounds'
    BY AllowanceFacts, PTL
  <1>1. ASSUME NEW id \in Ids, Open(id)' PROVE posts'[id] <= Allowance(id)'
    <2>1. Allowance(id) \in Nat /\ Allowance(id)' \in Nat /\ posts[id] \in Nat
      BY DEF WithinBounds
    <2> QED
      BY <1>1, <2>1 DEF Budget
  <1>2. ASSUME NEW id \in Ids, ~Stored(rows', id) PROVE posts'[id] = 0
    BY <1>2 DEF Budget
  <1>3. ASSUME NEW id \in Ids PROVE posts'[id] <= MaxRetries + faults'
    <2>1. faults \in Nat /\ faults' \in Nat /\ posts[id] \in Nat
      BY DEF WithinBounds
    <2> QED
      BY <2>1 DEF Budget, AttemptsBounded
  <1> QED
    BY <1>1, <1>2, <1>3 DEF Budget, AttemptsBounded, Stored

\* The usual way to keep an allowance: the retry count only grows, and what is no
\* longer under way was charged to a disturbance or counted.
LEMMA AllowanceKept ==
    ASSUME Typed, Typed', NEW id \in Ids,
           \/ /\ rows'[id].retries = rows[id].retries
              /\ faults <= faults'
              /\ UnderWay(id) => UnderWay(id)' \/ faults' = faults + 1
           \/ /\ rows'[id].retries = rows[id].retries + 1
              /\ rows'[id].retries < MaxRetries
              /\ faults <= faults'
    PROVE  Allowance(id) <= Allowance(id)'
  <1>1. /\ rows[id].retries \in Nat /\ faults \in Nat /\ MaxRetries \in Nat \ {0}
        /\ rows'[id].retries \in Nat /\ faults' \in Nat
    BY DEF Typed, TypeOK, StoreTypeOK, Row
  <1> QED
    BY <1>1 DEF Allowance, Counted

LEMMA BudgetNext == Safe /\ Safe' /\ Budget /\ [Next]_vars => Budget'
  <1> SUFFICES ASSUME Safe, Safe', Budget, [Next]_vars PROVE Budget'
    OBVIOUS
  <1> USE DEF Safe
  <1>types. /\ rows \in Tables /\ posts \in [Ids -> Nat] /\ faults \in Nat /\ faults' \in Nat
            /\ faults <= faults /\ faults <= faults + 1
            /\ \A id \in Ids : rows[id].retries \in Nat
    BY DEF Typed, TypeOK, StoreTypeOK, Row, Tables
  <1>1. CASE Fire \/ SeeStop \/ EndOfBatch
    <2>1. \A id \in Ids : Open(id)' => Open(id) /\ Allowance(id) <= Allowance(id)'
      BY <1>1, <1>types, AllowanceKept
      DEF Fire, SeeStop, EndOfBatch, tableVars, Open, UnderWay, Answered, Stored
    <2> QED
      BY <1>1, <2>1, <1>types, BudgetKept
      DEF Fire, SeeStop, EndOfBatch, tableVars, historyVars, Stored
  <1>2. CASE Poll
    <2>1. faults <= faults'
      BY <1>2, <1>types DEF Poll, DbOk, DbFails, Disturb
    <2>2. \A id \in Ids : Open(id)' => Open(id) /\ Allowance(id) <= Allowance(id)'
      BY <1>2, <2>1, <1>types, AllowanceKept, ListQueuedFacts
      DEF Poll, tableVars, Open, UnderWay, Answered, Stored
    <2> QED
      BY <1>2, <2>1, <2>2, BudgetKept DEF Poll, tableVars, historyVars, Stored
  <1>3. ASSUME NEW id \in Ids, Skip(id) PROVE Budget'
    <2>1. \A j \in Ids : Open(j)' => Open(j) /\ Allowance(j) <= Allowance(j)'
      BY <1>3, <1>types, AllowanceKept, DropFacts
      DEF Skip, tableVars, Open, UnderWay, Answered, Stored, Typed, TypeOK, Tables
    <2> QED
      BY <1>3, <2>1, <1>types, BudgetKept DEF Skip, tableVars, historyVars, Stored
  <1>4. ASSUME NEW id \in Ids, Post(id) PROVE Budget'
    <2>1. /\ Stored(batch, id) /\ Stored(rows, id) /\ pc = "next"
          /\ rows' = rows /\ faults' = faults /\ batch' = batch
          /\ node = "up" /\ node' = "up" /\ cur' = id /\ pc' = "post"
          /\ posts'[id] = posts[id] + 1
          /\ \A j \in Ids : j # id => posts'[j] = posts[j]
      BY <1>4, <1>types DEF Post, Due, Oldest, DbOk, tableVars, Copied
    <2>2. Open(id) /\ ~UnderWay(id) /\ UnderWay(id)'
      BY <2>1 DEF Open, UnderWay, Answered
    <2>3. \A j \in Ids : Counted(j)' = Counted(j)
      BY <2>1 DEF Counted
    <2>4. Allowance(id)' = Allowance(id) + 1
      BY <2>1, <2>2, <2>3, AllowanceFacts DEF Allowance, WithinBounds
    <2>5. \A j \in Ids : j # id => Allowance(j)' = Allowance(j) /\ (Open(j)' => Open(j))
      BY <2>1, <2>3 DEF Allowance, UnderWay, Open, Typed, Position, Delivering, Answered
    <2>6. WithinBounds /\ WithinBounds'
      BY AllowanceFacts, PTL
    <2>7. ASSUME NEW j \in Ids, Open(j)' PROVE posts'[j] <= Allowance(j)'
      BY <2>1, <2>2, <2>4, <2>5, <2>6, <2>7 DEF Budget, WithinBounds
    <2>8. ASSUME NEW j \in Ids, ~Stored(rows', j) PROVE posts'[j] = 0
      BY <2>1, <2>8 DEF Budget
    <2>9. ASSUME NEW j \in Ids PROVE posts'[j] <= MaxRetries + faults'
      <3>1. CASE j = id
        <4>1. Open(id)'
          BY <2>1, NoIdAssumption DEF Open
        <4> QED
          BY <3>1, <4>1, <2>6, <2>7 DEF WithinBounds
      <3>2. CASE j # id
        BY <3>2, <2>1 DEF Budget, AttemptsBounded
      <3> QED
        BY <3>1, <3>2
    <2> QED
      BY <2>7, <2>8, <2>9 DEF Budget, AttemptsBounded, Stored
  <1>5. ASSUME NEW id \in Ids, Reject(id) PROVE Budget'
    <2>1. faults <= faults' /\ rows' = rows /\ batch' = batch /\ node' = node /\ pc = "next" /\ pc' = "fatal"
      BY <1>5, <1>types DEF Reject, Due, DbOk, DbFails, Disturb, tableVars
    <2>2. \A j \in Ids : Open(j)' => Open(j) /\ Allowance(j) <= Allowance(j)'
      BY <2>1, <1>types, AllowanceKept DEF Open, UnderWay, Answered, Stored
    <2> QED
      BY <1>5, <2>1, <2>2, BudgetKept DEF Reject, Stored
  <1>6. ASSUME NEW answer \in {"2xx", "other"}, Reply(answer) PROVE Budget'
    <2>1. \A j \in Ids : Open(j)' => Open(j) /\ Allowance(j) <= Allowance(j)'
      BY <1>6, <1>types, AllowanceKept DEF Reply, tableVars, Open, UnderWay, Answered, Stored
    <2> QED
      BY <1>6, <2>1, <1>types, BudgetKept DEF Reply, tableVars, Stored
  <1>7. CASE MarkDelivered
    <2>1. cur \in Ids /\ Stored(batch, cur) /\ Stored(rows, cur) /\ "DELIVERED" \in Statuses
      BY <1>7 DEF MarkDelivered, Typed, Position, Delivering, Statuses, Copied
    <2>2. /\ \A j \in Ids : Stored(batch', j) => j # cur /\ batch'[j] = batch[j] /\ Stored(batch, j)
          /\ \A j \in Ids : ~UnderWay(j)'
      BY <1>7, <2>1, AdvanceFacts
      DEF MarkDelivered, Typed, TypeOK, Tables, Advance, UnderWay, Answered
    <2>3. \/ rows' = UpdateStatus(rows, cur, "DELIVERED") /\ node = "up" /\ faults' = faults
          \/ rows' = rows /\ node = "up" /\ faults' = faults + 1
          \/ rows' = rows /\ node = "stopping" /\ faults' = faults
      BY <1>7 DEF MarkDelivered, Write, DbOk, DbFails, Disturb
    <2>4. \A j \in Ids : /\ rows'[j].retries = rows[j].retries
                         /\ Stored(rows, j) => Stored(rows', j)
                         /\ j # cur => rows'[j].status = rows[j].status
      BY <2>1, <2>3, <1>types, UpdateStatusFacts
    <2>5. rows' = UpdateStatus(rows, cur, "DELIVERED") => rows'[cur].status = "DELIVERED"
      BY <2>1, <1>types, UpdateStatusFacts
    <2>6. faults <= faults'
      BY <2>3, <1>types
    <2>7. ASSUME NEW j \in Ids, Open(j)' PROVE Open(j) /\ Allowance(j) <= Allowance(j)'
      <3>1. Open(j)
        BY <1>7, <2>2, <2>4, <2>7, <2>1 DEF Open, MarkDelivered
      <3>2. UnderWay(j) => faults' = faults + 1
        BY <2>2, <2>3, <2>5, <2>7 DEF UnderWay, Open
      <3> QED
        BY <3>1, <3>2, <2>4, <2>6, AllowanceKept
    <2> QED
      BY <1>7, <2>4, <2>6, <2>7, BudgetKept DEF MarkDelivered, historyVars
  <1>8. CASE ScheduleRetry
    <2>1. /\ cur \in Ids /\ Stored(batch, cur) /\ Attempts = rows[cur].retries + 1
          /\ Attempts \in Nat /\ Attempts < MaxRetries /\ pc # "note"
      BY <1>8, <1>types
      DEF ScheduleRetry, ShouldRetry, IsRetryable, Attempts, Typed, Position, Delivering, Copied, SameColumns
    <2>2. /\ \A j \in Ids : Stored(batch', j) => j # cur /\ batch'[j] = batch[j] /\ Stored(batch, j)
          /\ \A j \in Ids : ~UnderWay(j)'
      BY <1>8, <2>1, AdvanceFacts
      DEF ScheduleRetry, Typed, TypeOK, Tables, Advance, UnderWay, Answered
    <2>3. PICK w : \/ rows' = UpdateRetryInfo(rows, cur, Attempts, w) /\ node = "up" /\ faults' = faults
                   \/ rows' = rows /\ node = "up" /\ faults' = faults + 1
                   \/ rows' = rows /\ node = "stopping" /\ faults' = faults
      BY <1>8 DEF ScheduleRetry, Write, DbOk, DbFails, Disturb
    <2>4. \A j \in Ids : /\ j # cur => rows'[j].retries = rows[j].retries
                         /\ Stored(rows, j) => Stored(rows', j)
                         /\ rows'[j].status = rows[j].status
      BY <2>1, <2>3, <1>types DEF UpdateRetryInfo, Stored, Tables, Row
    <2>5. Stored(rows, cur)
      BY <2>1 DEF Copied
    <2>6. \/ rows'[cur].retries = rows[cur].retries + 1 /\ faults' = faults
          \/ rows'[cur].retries = rows[cur].retries /\ faults' = faults + 1
          \/ rows'[cur].retries = rows[cur].retries /\ faults' = faults /\ node = "stopping"
      BY <2>1, <2>3, <2>5, <1>types DEF UpdateRetryInfo, Tables, Row
    <2>7. ASSUME NEW j \in Ids, Open(j)' PROVE Open(j) /\ Allowance(j) <= Allowance(j)'
      <3>1. Open(j)
        BY <2>1, <2>2, <2>4, <2>7 DEF Open
      <3>2. CASE j = cur
        BY <3>1, <3>2, <2>1, <2>6, <1>types, AllowanceKept DEF UnderWay
      <3>3. CASE j # cur
        BY <3>1, <3>3, <2>4, <2>6, <1>types, AllowanceKept DEF UnderWay
      <3> QED
        BY <3>2, <3>3
    <2>8. faults <= faults'
      BY <2>6, <1>types
    <2> QED
      BY <1>8, <2>4, <2>7, <2>8, BudgetKept DEF ScheduleRetry, historyVars
  <1>9. CASE GiveUp
    <2>1. cur \in Ids /\ Stored(batch, cur) /\ Stored(rows, cur) /\ "FAILED" \in Statuses
      BY <1>9 DEF GiveUp, Typed, Position, Delivering, Statuses, Copied
    <2>2. \/ rows' = UpdateStatus(rows, cur, "FAILED") /\ node = "up" /\ faults' = faults
          \/ rows' = rows /\ node = "up" /\ faults' = faults + 1
          \/ rows' = rows /\ node = "stopping" /\ faults' = faults
      BY <1>9 DEF GiveUp, Write, DbOk, DbFails, Disturb
    <2>3. \A j \in Ids : /\ rows'[j].retries = rows[j].retries
                         /\ Stored(rows, j) => Stored(rows', j)
                         /\ j # cur => rows'[j].status = rows[j].status
      BY <2>1, <2>2, <1>types, UpdateStatusFacts
    <2>4. rows' = UpdateStatus(rows, cur, "FAILED") => rows'[cur].status = "FAILED"
      BY <2>1, <1>types, UpdateStatusFacts
    <2>5. faults <= faults'
      BY <2>2, <1>types
    <2>6. ASSUME NEW j \in Ids, Open(j)' PROVE Open(j) /\ Allowance(j) <= Allowance(j)'
      <3>1. pc \in {"retryable", "fatal"} /\ pc' = "note" /\ cur' = cur /\ batch' = batch
        BY <1>9 DEF GiveUp
      <3>2. Open(j)
        BY <3>1, <2>1, <2>3, <2>6 DEF Open, Stored
      <3>3. UnderWay(j) => faults' = faults + 1
        BY <3>1, <2>2, <2>4, <2>6 DEF UnderWay, Open
      <3> QED
        BY <3>2, <3>3, <2>3, <2>5, AllowanceKept
    <2> QED
      BY <1>9, <2>3, <2>5, <2>6, BudgetKept DEF GiveUp, historyVars
  <1>10. CASE NoteFailure
    <2>1. cur \in Ids /\ Stored(rows, cur) /\ Attempts = rows[cur].retries + 1 /\ pc = "note"
      BY <1>10, <1>types
      DEF NoteFailure, Attempts, Typed, Position, Delivering, Copied, SameColumns
    <2>2. /\ \A j \in Ids : Stored(batch', j) => j # cur /\ batch'[j] = batch[j] /\ Stored(batch, j)
          /\ \A j \in Ids : ~UnderWay(j) /\ ~UnderWay(j)'
      BY <1>10, <2>1, AdvanceFacts
      DEF NoteFailure, Typed, TypeOK, Tables, Advance, UnderWay, Answered
    <2>3. /\ \A j \in Ids : /\ rows'[j].retries \in {rows[j].retries, rows[j].retries + 1}
                            /\ Stored(rows, j) => Stored(rows', j)
                            /\ rows'[j].status = rows[j].status
          /\ faults <= faults'
      BY <1>10, <2>1, <1>types
      DEF NoteFailure, Write, DbOk, DbFails, Disturb, UpdateRetryInfo, Stored, Tables, Row
    <2>4. ASSUME NEW j \in Ids, Open(j)' PROVE Open(j) /\ Allowance(j) <= Allowance(j)'
      <3>1. Open(j)
        BY <2>1, <2>2, <2>3, <2>4 DEF Open
      <3>2. Counted(j) <= Counted(j)'
        BY <2>3, <1>types DEF Counted
      <3>3. WithinBounds /\ WithinBounds'
        BY AllowanceFacts, PTL
      <3> QED
        BY <3>1, <3>2, <3>3, <2>2, <2>3 DEF Allowance, WithinBounds
    <2> QED
      BY <1>10, <2>3, <2>4, BudgetKept DEF NoteFailure, historyVars
  <1>11. ASSUME NEW id \in Ids, NEW request \in Requests, Enqueue(id, request) PROVE Budget'
    <2>1. faults <= faults' /\ node' = node /\ batch' = batch /\ pc' = pc /\ cur' = cur /\ posts' = posts
      BY <1>11, <1>types
      DEF Enqueue, DbOk, DbFails, Disturb, queueVars, workerVars, historyVars
    <2>2. \/ rows' = rows
          \/ /\ ~Stored(rows, id)
             /\ \A j \in Ids : j # id => rows'[j] = rows[j]
      BY <1>11, <1>types DEF Enqueue, InsertNew, Insert, CanInsert, Tables, tableVars
    <2>3. \A j \in Ids : Stored(rows, j) => rows'[j] = rows[j]
      BY <2>2
    <2>4. \A j \in Ids : Open(j)' => posts[j] = 0 \/ (Open(j) /\ Allowance(j) <= Allowance(j)')
      BY <2>1, <2>3, <1>types, AllowanceKept DEF Open, UnderWay, Stored, Budget
    <2> QED
      BY <2>1, <2>3, <2>4, BudgetKept DEF Stored
  <1>12. ASSUME NEW p \in Partners, NEW profile \in Profiles, EditPartner(p, profile) PROVE Budget'
    <2>1. \A j \in Ids : Open(j)' => Open(j) /\ Allowance(j) <= Allowance(j)'
      BY <1>12, <1>types, AllowanceKept
      DEF EditPartner, ChangePartner, queueVars, workerVars, Open, UnderWay, Stored
    <2> QED
      BY <1>12, <2>1, <1>types, BudgetKept
      DEF EditPartner, ChangePartner, queueVars, historyVars, Stored
  <1>13. ASSUME NEW r \in Receipt, PartnerAcknowledges(r) PROVE Budget'
    <2>1. faults <= faults' /\ rows' = rows /\ node' = node /\ batch' = batch /\ pc' = pc /\ cur' = cur
                           /\ posts' = posts
      BY <1>13, <1>types
      DEF PartnerAcknowledges, StoreReceipt, DbOk, DbFails, Disturb, tableVars, workerVars, historyVars
    <2>2. \A j \in Ids : Open(j)' => Open(j) /\ Allowance(j) <= Allowance(j)'
      BY <2>1, <1>types, AllowanceKept DEF Open, UnderWay, Stored
    <2> QED
      BY <2>1, <2>2, BudgetKept DEF Stored
  <1>14. ASSUME NEW h \in handling, Reconcile(h) PROVE Budget'
    <2>1. h.about \in Ids /\ h.outcome \in Outcomes
      BY DEF Receipt, Typed, TypeOK
    <2>2. /\ faults <= faults' /\ node' = node /\ batch' = batch /\ pc' = pc /\ cur' = cur /\ posts' = posts
          /\ \A j \in Ids : /\ rows'[j].retries = rows[j].retries
                            /\ Stored(rows, j) => Stored(rows', j)
                            /\ rows'[j].status = "QUEUED" => rows[j].status = "QUEUED"
      BY <1>14, <2>1, <1>types
      DEF Reconcile, Write, DbOk, DbFails, Disturb, UpdateStatus, Stored, Tables, Row, Outcomes,
          workerVars, historyVars
    <2>3. \A j \in Ids : Open(j)' => Open(j) /\ Allowance(j) <= Allowance(j)'
      BY <2>2, <1>types, AllowanceKept DEF Open, UnderWay, Stored
    <2> QED
      BY <2>2, <2>3, BudgetKept
  <1>15. CASE Tick
    <2>1. /\ \A j \in Ids : /\ rows'[j].retries = rows[j].retries
                            /\ rows'[j].status = rows[j].status
                            /\ Stored(rows', j) <=> Stored(rows, j)
                            /\ Stored(batch', j) <=> Stored(batch, j)
          /\ node' = node /\ pc' = pc /\ cur' = cur /\ posts' = posts /\ faults' = faults
      BY <1>15, <1>types, AgeFacts DEF Tick, historyVars, Typed, TypeOK, Tables
    <2>2. \A j \in Ids : Open(j)' => Open(j) /\ Allowance(j) <= Allowance(j)'
      BY <2>1, <1>types, AllowanceKept DEF Open, UnderWay
    <2> QED
      BY <2>1, <2>2, <1>types, BudgetKept
  <1>16. CASE Shutdown
    <2>1. rows' = rows /\ faults' = faults + 1 /\ batch' = batch /\ pc' = pc /\ cur' = cur /\ posts' = posts
      BY <1>16
      DEF Shutdown, BeginShutdown, Disturb, queueVars, workerVars, historyVars
    <2>2. \A j \in Ids : Open(j)' => Open(j) /\ Allowance(j) <= Allowance(j)'
      BY <2>1, <1>types, AllowanceKept DEF Open, Stored
    <2> QED
      BY <2>1, <2>2, <1>types, BudgetKept DEF Stored
  <1>17. CASE Halt
    <2>1. rows' = rows /\ posts' = posts /\ cur' = NoId /\ \A j \in Ids : ~Stored(batch', j)
      BY <1>17, AbsentFacts DEF Halt, Exit, historyVars
    <2>2. faults' = faults + 1 \/ (faults' = faults /\ node = "stopping")
      BY <1>17 DEF Halt, Exit, Disturb
    <2>3. faults <= faults'
      BY <2>2, <1>types
    <2>4. \A j \in Ids : Open(j)' => Open(j) /\ Allowance(j) <= Allowance(j)'
      BY <2>1, <2>2, <2>3, <1>types, AllowanceKept DEF Open, UnderWay, Stored
    <2> QED
      BY <2>1, <2>3, <2>4, BudgetKept DEF Stored
  <1>18. CASE Restart
    <2>1. /\ rows' = rows /\ posts' = posts /\ batch' = batch /\ cur' = cur /\ faults' = faults
          /\ pc = "down" /\ pc' = "poll"
      BY <1>18 DEF Restart, Boot, historyVars, Typed, Position
    <2>2. \A j \in Ids : Open(j)' => Open(j) /\ Allowance(j) <= Allowance(j)'
      BY <2>1, <1>types, AllowanceKept DEF Open, UnderWay, Stored, Answered
    <2> QED
      BY <2>1, <2>2, <1>types, BudgetKept DEF Stored
  <1>19. CASE UNCHANGED vars
    <2>1. \A j \in Ids : Open(j)' => Open(j) /\ Allowance(j) <= Allowance(j)'
      BY <1>19, <1>types, AllowanceKept
      DEF vars, storeVars, queueVars, workerVars, Open, UnderWay, Stored
    <2> QED
      BY <1>19, <2>1, <1>types, BudgetKept
      DEF vars, storeVars, queueVars, historyVars, Stored
  <1> QED
    BY <1>1, <1>2, <1>3, <1>4, <1>5, <1>6, <1>7, <1>8, <1>9, <1>10, <1>11, <1>12, <1>13,
       <1>14, <1>15, <1>16, <1>17, <1>18, <1>19
    DEF Next, Worker, Handlers, Process
-----------------------------------------------------------------------------
Sound == Safe /\ Confirmed /\ Spent /\ Budget

LEMMA SoundAlways == Spec => []Sound
  <1>1. Init => Sound
    BY TypedInit, CopiedInit, ConfirmedInit, SpentInit, BudgetInit DEF Sound, Safe
  <1>2. Sound /\ [Next]_vars => Sound'
    BY TypedNext, CopiedNext, ConfirmedNext, SpentNext, BudgetNext DEF Sound, Safe
  <1> QED
    BY <1>1, <1>2, PTL DEF Spec

\* A row is sent at most MaxRetries times plus once per disturbance.
THEOREM AttemptsStayBounded == Spec => []AttemptsBounded
  BY SoundAlways, PTL DEF Sound, Budget

\* FAILED means refused, reported, or MaxRetries requests sent.
THEOREM FailuresAreExhausted == Spec => []GivenUpOnlyWhenExhausted
  BY SoundAlways, PTL DEF Sound, Spent

\* DELIVERED means a 2xx answer or a receipt that says so.
THEOREM DeliveriesAreConfirmed == Spec => []DeliveredIsConfirmed
  BY SoundAlways, PTL DEF Sound, Confirmed
-----------------------------------------------------------------------------
(***************************************************************************)
(* For the modules that compose a queue with something else.  Moves is     *)
(* what a step of the queue does to the columns that others read; Beside   *)
(* is a step of the rest of the system: somebody else inserts a row, or a  *)
(* disturbance happens elsewhere.                                          *)
(***************************************************************************)
SameFacts(id) ==
    rows'[id].payload = rows[id].payload /\ rows'[id].job = rows[id].job

Quiet == \A id \in Ids : SameFacts(id) /\ rows'[id].status = rows[id].status

Moved(id, status) ==
    /\ id \in Ids /\ Stored(rows, id) /\ rows'[id].status = status
    /\ \A j \in Ids : SameFacts(j) /\ (j # id => rows'[j].status = rows[j].status)

Moves ==
    \/ Quiet
    \/ pc = "ok" /\ Moved(cur, "DELIVERED")
    \/ pc \in {"retryable", "fatal"} /\ Moved(cur, "FAILED")
    \/ \E r \in handling : Moved(r.about, r.outcome)
    \/ \E id \in Ids, request \in Requests : InsertNew(id, "OUTBOUND", "QUEUED", request)

Beside ==
    /\ faults' \in faults .. MaxFaults
    /\ UNCHANGED <<node, partners, queueVars>>
    /\ \/ UNCHANGED tableVars
       \/ \E id \in Ids, dir \in {"INBOUND", "OUTBOUND"}, s \in Statuses, p \in Payload :
             InsertNew(id, dir, s, p)

\* An UPDATE of the status column moves the row it names, if there is one.
LEMMA WriteMoves ==
    ASSUME rows \in Tables, NEW id \in Ids, NEW s \in Statuses,
           Write(UpdateStatus(rows, id, s))
    PROVE  Quiet \/ Moved(id, s)
  <1>1. CASE rows' = rows
    BY <1>1 DEF Quiet, SameFacts
  <1>2. CASE rows' = UpdateStatus(rows, id, s) /\ Stored(rows, id)
    BY <1>2, UpdateStatusFacts DEF Moved, SameFacts
  <1>3. CASE rows' = UpdateStatus(rows, id, s) /\ ~Stored(rows, id)
    BY <1>1, <1>3 DEF UpdateStatus
  <1> QED
    BY <1>1, <1>2, <1>3 DEF Write

\* Statuses change one row at a time, in the four ways of Moves and no other.
LEMMA MovesNext == Safe /\ [Next]_vars => Moves
  <1> SUFFICES ASSUME Safe, [Next]_vars PROVE Moves
    OBVIOUS
  <1>types. rows \in Tables /\ Typed
    BY DEF Safe, Typed, TypeOK, StoreTypeOK, Tables
  <1>1. CASE UNCHANGED rows
    BY <1>1 DEF Moves, Quiet, SameFacts
  <1>2. CASE MarkDelivered
    <2>1. cur \in Ids /\ "DELIVERED" \in Statuses
      BY <1>2, <1>types DEF MarkDelivered, Typed, Position, Delivering, Statuses
    <2> QED
      BY <1>2, <1>types, <2>1, WriteMoves DEF MarkDelivered, Moves
  <1>3. CASE GiveUp
    <2>1. cur \in Ids /\ "FAILED" \in Statuses
      BY <1>3, <1>types DEF GiveUp, Typed, Position, Delivering, Statuses
    <2> QED
      BY <1>3, <1>types, <2>1, WriteMoves DEF GiveUp, Moves
  <1>4. CASE ScheduleRetry \/ NoteFailure
    <2>1. \E n, w : rows' = UpdateRetryInfo(rows, cur, n, w) \/ rows' = rows
      BY <1>4 DEF ScheduleRetry, NoteFailure, Write
    <2>2. Quiet
      BY <1>types, <2>1 DEF UpdateRetryInfo, Quiet, SameFacts, Tables, Row
    <2> QED
      BY <2>2 DEF Moves
  <1>5. ASSUME NEW h \in handling, Reconcile(h) PROVE Moves
    <2>1. h.about \in Ids /\ h.outcome \in Statuses
      BY <1>types DEF Typed, TypeOK, Receipt, Outcomes, Statuses
    <2> QED
      BY <1>5, <1>types, <2>1, WriteMoves DEF Reconcile, Moves
  <1>6. CASE Tick
    <2>1. Quiet
      BY <1>6, <1>types, AgeFacts DEF Tick, Quiet, SameFacts
    <2> QED
      BY <2>1 DEF Moves
  <1>7. ASSUME NEW id \in Ids, NEW request \in Requests, Enqueue(id, request) PROVE Moves
    BY <1>1, <1>7 DEF Enqueue, Moves, tableVars
  <1> QED
    BY <1>1, <1>2, <1>3, <1>4, <1>5, <1>6, <1>7
    DEF Next, Worker, Handlers, Process, Fire, SeeStop, Poll, EndOfBatch, Skip, Post, Reject,
        Reply, EditPartner, ChangePartner, PartnerAcknowledges, StoreReceipt, Shutdown,
        BeginShutdown, Halt, Exit, Restart, Boot, vars, storeVars, tableVars

\* The worker's copy gains nothing but rows that are QUEUED.
LEMMA BatchNext ==
    Typed /\ [Next]_vars =>
        \A id \in Ids : Stored(batch', id) => Stored(batch, id) \/ rows[id].status = "QUEUED"
  <1> SUFFICES ASSUME Typed, [Next]_vars, NEW id \in Ids, Stored(batch', id)
               PROVE  Stored(batch, id) \/ rows[id].status = "QUEUED"
    OBVIOUS
  <1>types. rows \in Tables /\ batch \in Tables
    BY DEF Typed, TypeOK, StoreTypeOK, Tables
  <1>1. CASE UNCHANGED batch
    BY <1>1
  <1>2. CASE Poll
    BY <1>1, <1>2, <1>types, ListQueuedFacts DEF Poll
  <1>3. ASSUME NEW j \in Ids, Skip(j) PROVE Stored(batch, id)
    BY <1>3, <1>types, DropFacts DEF Skip, Stored
  <1>4. CASE MarkDelivered \/ ScheduleRetry \/ NoteFailure
    <2>1. cur \in Ids
      BY <1>4 DEF MarkDelivered, ScheduleRetry, ShouldRetry, IsRetryable, NoteFailure,
                  Typed, Position, Delivering
    <2> QED
      BY <1>4, <1>types, <2>1, AdvanceFacts DEF MarkDelivered, ScheduleRetry, NoteFailure
  <1>5. CASE Tick
    BY <1>5, <1>types, AgeFacts DEF Tick
  <1>6. CASE Halt
    BY <1>6, AbsentFacts DEF Halt
  <1> QED
    BY <1>1, <1>2, <1>3, <1>4, <1>5, <1>6
    DEF Next, Worker, Handlers, Process, Fire, SeeStop, EndOfBatch, Post, Reject, Reply, GiveUp,
        Enqueue, EditPartner, PartnerAcknowledges, StoreReceipt, Reconcile, Shutdown, Restart,
        vars, queueVars, workerVars

\* Disturbances are counted, requests and receipts remembered; nothing goes back.
LEMMA HistoryGrows ==
    Typed /\ [Next]_vars =>
        /\ faults <= faults' /\ receipts \subseteq receipts'
        /\ \A id \in Ids : posts[id] <= posts'[id]
  <1> SUFFICES ASSUME Typed, [Next]_vars
               PROVE  /\ faults <= faults' /\ receipts \subseteq receipts'
                      /\ \A id \in Ids : posts[id] <= posts'[id]
    OBVIOUS
  <1>types. /\ faults \in Nat /\ faults <= faults /\ faults <= faults + 1
            /\ posts \in [Ids -> Nat] /\ \A id \in Ids : posts[id] <= posts[id]
    BY DEF Typed, TypeOK, StoreTypeOK
  <1>1. faults' = faults \/ faults' = faults + 1
    BY DEF Next, Worker, Handlers, Process, Fire, SeeStop, Poll, EndOfBatch, Skip, Post, Reject,
        Reply, MarkDelivered, ScheduleRetry, GiveUp, NoteFailure, Enqueue, EditPartner,
        ChangePartner, PartnerAcknowledges, StoreReceipt, Reconcile, Tick, Shutdown,
        BeginShutdown, Halt, Exit, Restart, Boot, Write, DbOk, DbFails, Disturb, vars, storeVars
  <1>2. CASE UNCHANGED <<receipts, posts>>
    BY <1>1, <1>2, <1>types
  <1>3. ASSUME NEW j \in Ids, Post(j) PROVE \A id \in Ids : posts[id] <= posts'[id]
    BY <1>3, <1>types DEF Post
  <1>4. ASSUME NEW j \in Ids, Post(j) PROVE UNCHANGED receipts
    BY <1>4 DEF Post, receiptVars
  <1>5. ASSUME NEW r \in Receipt, PartnerAcknowledges(r)
        PROVE  receipts \subseteq receipts' /\ UNCHANGED posts
    BY <1>5 DEF PartnerAcknowledges, StoreReceipt, receiptVars, historyVars
  <1> QED
    BY <1>1, <1>2, <1>3, <1>4, <1>5, <1>types
    DEF Next, Worker, Handlers, Process, Fire, SeeStop, Poll, EndOfBatch, Skip, Reject,
        Reply, MarkDelivered, ScheduleRetry, GiveUp, NoteFailure, Enqueue, EditPartner,
        Reconcile, Tick, Shutdown, Halt, Restart, vars, queueVars, receiptVars, historyVars

\* A row that somebody else inserts was never in the copy and never sent.
LEMMA InsertBeside ==
    ASSUME Safe, NEW id \in Ids, NEW dir \in {"INBOUND", "OUTBOUND"}, NEW s \in Statuses,
           NEW p \in Payload, InsertNew(id, dir, s, p)
    PROVE  /\ rows' \in Tables /\ stamp' \in Nat
           /\ ~Stored(rows, id) /\ ~Stored(batch, id) /\ Stored(rows', id)
           /\ \A j \in Ids : j # id => rows'[j] = rows[j]
  <1>1. rows \in Tables /\ stamp \in Nat
    BY DEF Safe, Typed, TypeOK, StoreTypeOK, Tables
  <1>2. ~Stored(rows, id) /\ rows' = Insert(rows, id, NewRow(dir, s, p, stamp)) /\ stamp' = stamp + 1
    BY DEF InsertNew, CanInsert
  <1>3. rows' \in Tables /\ Stored(rows', id) /\ \A j \in Ids : j # id => rows'[j] = rows[j]
    BY <1>1, <1>2, InsertFacts
  <1> QED
    BY <1>1, <1>2, <1>3 DEF Safe, Copied

\* What the queue relies on survives the steps of the rest of the system.
LEMMA SafeBeside == Safe /\ Beside => Safe'
  <1> SUFFICES ASSUME Safe, Beside PROVE Safe'
    OBVIOUS
  <1>1. /\ rows' \in Tables /\ stamp' \in Nat
        /\ \A id \in Ids : Stored(batch, id) => rows'[id] = rows[id]
    <2>1. CASE UNCHANGED tableVars
      BY <2>1 DEF tableVars, Safe, Typed, TypeOK, StoreTypeOK, Tables
    <2> QED
      BY <2>1, InsertBeside DEF Beside
  <1>2. UNCHANGED <<node, partners, pc, batch, cur, receipts, handling, posts, acked, refused>>
    BY DEF Beside, queueVars, workerVars, receiptVars, historyVars
  <1>3. faults' \in 0 .. MaxFaults
    BY DEF Beside, Safe, Typed, TypeOK, StoreTypeOK
  <1>4. Typed'
    BY <1>1, <1>2, <1>3 DEF Safe, Typed, TypeOK, StoreTypeOK, Position, Delivering, Tables, Stored
  <1>5. Copied'
    BY <1>1, <1>2 DEF Safe, Copied, SameColumns, Settled, Reported, Stored
  <1> QED
    BY <1>4, <1>5 DEF Safe

\* So does the bound on attempts.
LEMMA BudgetBeside == Safe /\ Budget /\ Beside => Budget'
  <1> SUFFICES ASSUME Safe, Budget, Beside PROVE Budget'
    OBVIOUS
  <1>1. Safe'
    BY SafeBeside
  <1>2. /\ UNCHANGED <<node, pc, batch, cur, posts>> /\ faults <= faults'
        /\ faults \in Nat /\ faults' \in Nat
    BY DEF Beside, queueVars, workerVars, historyVars, Safe, Typed, TypeOK, StoreTypeOK
  <1>3. ASSUME NEW id \in Ids, rows'[id] = rows[id], Open(id)'
        PROVE  Open(id) /\ Allowance(id) <= Allowance(id)'
    <2>1. Open(id)
      BY <1>2, <1>3 DEF Open, Stored
    <2>2. Allowance(id) <= Allowance(id)'
      BY <1>1, <1>2, <1>3, AllowanceKept DEF Safe, UnderWay
    <2> QED
      BY <2>1, <2>2
  <1>4. CASE UNCHANGED tableVars
    BY <1>1, <1>2, <1>3, <1>4, BudgetKept DEF Safe, tableVars, Stored
  <1>5. ASSUME NEW id \in Ids, NEW dir \in {"INBOUND", "OUTBOUND"}, NEW s \in Statuses,
               NEW p \in Payload, InsertNew(id, dir, s, p)
        PROVE  Budget'
    <2>1. posts[id] = 0 /\ \A j \in Ids : j # id => rows'[j] = rows[j]
      BY <1>5, InsertBeside DEF Budget
    <2>2. \A j \in Ids : Stored(rows, j) => Stored(rows', j)
      BY <1>5, InsertBeside DEF Stored
    <2> QED
      BY <1>1, <1>2, <1>3, <2>1, <2>2, BudgetKept DEF Safe
  <1> QED
    BY <1>4, <1>5 DEF Beside
=============================================================================
