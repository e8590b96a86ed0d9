---------------------------- MODULE MessageTable ----------------------------
(***************************************************************************)
(* The `messages` table (internal/repository/schema.go) and the statements *)
(* of SQLiteMessageRepository that read and write it.  One table per node  *)
(* holds outbound jobs, inbound documents and received receipts alike.     *)
(*                                                                         *)
(* A table is a function from every id that can occur to a row; an id that *)
(* was never inserted maps to Absent.  Each operator is one SQL statement, *)
(* hence atomic.  The payload column is kept as the few facts the code     *)
(* reads back out of it (embedded job type, completeness, destination,     *)
(* acknowledged message); last_error is left out.                          *)
(***************************************************************************)
EXTENDS Naturals

CONSTANTS
    Ids,        \* every message_id that can be stored in the table
    Partners    \* partner_ids a payload can name

JobTypes == {"process_outbound", "send_jmdn", "unknown"}

\* Status values of domain/repositories.go, and "ABSENT" for a missing row.
Statuses == {"QUEUED", "SENT", "DELIVERED", "FAILED", "QUARANTINED"}

NoId == "no id"

(***************************************************************************)
(* What a payload carries: the job type spelled inside it ("" when it      *)
(* names none), whether every field its delivery path requires is there,   *)
(* the partner it is addressed to, and for a J-MDN job the message it      *)
(* acknowledges.                                                           *)
(***************************************************************************)
Payload == [job : JobTypes \cup {""}, complete : BOOLEAN,
            to : Partners, about : Ids \cup {NoId}]

Row == [dir     : {"INBOUND", "OUTBOUND"},
        status  : Statuses \cup {"ABSENT"},
        job     : JobTypes,
        payload : Payload,
        retries : Nat,      \* retry_count
        wait    : Nat,      \* minutes until next_retry_at; 0 when NULL or past
        at      : Nat]      \* created_at, as the rank of the insertion

AnyPartner == CHOOSE p \in Partners : TRUE

Absent == [dir     |-> "OUTBOUND",
           status  |-> "ABSENT",
           job     |-> "process_outbound",
           payload |-> [job |-> "", complete |-> FALSE,
                        to |-> AnyPartner, about |-> NoId],
           retries |-> 0, wait |-> 0, at |-> 0]

EmptyTable == [id \in Ids |-> Absent]

Stored(t, id) == t[id].status # "ABSENT"

\* Mutant of ResolveJobType: no default.
ResolveWithoutDefault(explicit, embedded) ==
    IF explicit # "" THEN explicit ELSE embedded

\* resolveJobType: the caller's value, else the payload's, else the default.
ResolveJobType(explicit, embedded) ==
    IF explicit # "" THEN explicit
    ELSE IF embedded # "" THEN embedded
    ELSE "process_outbound"

(***************************************************************************)
(* Create.  No insert site of the program sets msg.JobType, retry_count or *)
(* next_retry_at.  The UNIQUE constraint on message_id is CanInsert.       *)
(***************************************************************************)
NewRow(dir, status, payload, at) ==
    [dir |-> dir, status |-> status,
     job |-> ResolveJobType("", payload.job), payload |-> payload,
     retries |-> 0, wait |-> 0, at |-> at]

\* Mutant of CanInsert: the column lost its UNIQUE constraint.
CanInsertAnyway(t, id) == TRUE

CanInsert(t, id) == ~Stored(t, id)

Insert(t, id, row) == [t EXCEPT ![id] = row]

\* Mutant of UpdateStatus: it resets the retry columns as well.
UpdateStatusAfresh(t, id, status) ==
    IF Stored(t, id)
    THEN [t EXCEPT ![id].status = status, ![id].retries = 0, ![id].wait = 0]
    ELSE t

\* UpdateStatus: whatever the row's direction and current status.
UpdateStatus(t, id, status) ==
    IF Stored(t, id) THEN [t EXCEPT ![id].status = status] ELSE t

\* UpdateRetryInfo: the status column is not touched.
UpdateRetryInfo(t, id, count, wait) ==
    IF Stored(t, id)
    THEN [t EXCEPT ![id].retries = count, ![id].wait = wait]
    ELSE t

Queued(t) == {id \in Ids : t[id].status = "QUEUED"}

\* ListByStatus(QUEUED): a copy of the queued rows, nothing of the others.
ListQueued(t) ==
    [id \in Ids |-> IF id \in Queued(t) THEN t[id] ELSE Absent]

\* ORDER BY created_at ASC.
Oldest(t, id) ==
    /\ Stored(t, id)
    /\ \A other \in Ids : Stored(t, other) => t[id].at <= t[other].at

\* A minute passes: every next_retry_at is one minute nearer.
Age(t) ==
    [id \in Ids |->
        [t[id] EXCEPT !.wait = IF t[id].wait = 0 THEN 0 ELSE t[id].wait - 1]]
=============================================================================
