--------------------------- MODULE SchemaMigration ---------------------------
(***************************************************************************)
(* InitSchema and migrateMessagesJobType: the messages table of a release  *)
(* without the job_type column is brought up to date by four statements,   *)
(* each committed by itself, at every start of the node.  In between the   *)
(* process may die, and while it is down the earlier release may be        *)
(* started again and insert rows the way it always did.                    *)
(***************************************************************************)
EXTENDS NodeBoot

CONSTANTS
    Entries,     \* message_ids
    Payloads,    \* what payloads say of their job_type, see below
    Explicit,    \* job types a caller of Create names itself
    NoEntry

\* What a payload says: nothing, the name of a job type, or something that one of
\* the two parsers alone takes for one.
PayloadKinds == {"malformed", "silent", "process_outbound", "send_jmdn",
                 "a number", "JOB_TYPE"}
JobNames == {"process_outbound", "send_jmdn"}

ASSUME PayloadsAssumption == Payloads \subseteq PayloadKinds
ASSUME ExplicitAssumption == Explicit \subseteq JobNames
Jobs == JobNames \cup {"", "7"}
Row  == [payload : Payloads, job : Jobs, want : JobNames]

ASSUME NoEntryAssumption == NoEntry \notin Row

\* json_extract, behind json_valid: NULL (here "") unless the key is there.
JsonExtract(payload) ==
    CASE payload \in JobNames   -> payload
      [] payload = "a number"   -> "7"
      [] OTHER                  -> ""

\* json.Unmarshal into a struct with a string field: field names match in any case,
\* and a number is an error.
Probe(payload) ==
    CASE payload \in JobNames   -> payload
      [] payload = "JOB_TYPE"   -> "send_jmdn"
      [] OTHER                  -> ""

ReadAlike(payload) == JsonExtract(payload) = Probe(payload)

ResolveJobType(explicit, payload) ==
    IF explicit # "" THEN explicit
    ELSE IF Probe(payload) # "" THEN Probe(payload) ELSE "process_outbound"

VARIABLES
    columns,     \* the messages table: "none", "old" (without job_type) or "full"
    entries,     \* its rows; job is "" where there is no column or no value
    indexed      \* the index on status, job_type and created_at

schemaVars == <<columns, entries, indexed>>

\* want is history: the job type the row was inserted for.
Entry(payload, job, want) == [payload |-> payload, job |-> job, want |-> want]

SchemaInit == columns = "none" /\ entries = [e \in Entries |-> NoEntry] /\ indexed = FALSE

SchemaTypeOK ==
    /\ columns \in {"none", "old", "full"}
    /\ entries \in [Entries -> Row \cup {NoEntry}]
    /\ indexed \in BOOLEAN

Filled == {e \in Entries : entries[e] # NoEntry}

-----------------------------------------------------------------------------
\* The earlier release runs and queues a message; its INSERT names no job_type.
EarlierRelease(e, payload) ==
    /\ phase = "down" /\ entries[e] = NoEntry
    /\ columns' = IF columns = "none" THEN "old" ELSE columns
    /\ entries' = [entries EXCEPT ![e] = Entry(payload, "", ResolveJobType("", payload))]
    /\ UNCHANGED <<indexed, bootVars>>

\* Create of the message repository.
Create(e, explicit, payload) ==
    /\ DbOk /\ entries[e] = NoEntry
    /\ LET job == ResolveJobType(explicit, payload)
       IN  entries' = [entries EXCEPT ![e] = Entry(payload, job, job)]
    /\ UNCHANGED <<columns, indexed>>
-----------------------------------------------------------------------------
\* CREATE TABLE IF NOT EXISTS and its companions, none of which touches a table
\* that is there already.
InitSchema ==
    /\ Passes("create", "probe")
    /\ columns' = IF columns = "none" THEN "full" ELSE columns
    /\ UNCHANGED <<entries, indexed>>

\* Mutant of ColumnExists: whoever starts is taken for an old database.
NeverExists == FALSE

\* PRAGMA table_info.
ColumnExists == columns = "full"

ProbeColumn ==
    /\ Passes("probe", IF ColumnExists THEN "fromPayload" ELSE "alter")
    /\ UNCHANGED schemaVars

\* ADD COLUMN gives the rows that are there ''; of a column that is there it fails.
AlterTable ==
    \/ /\ columns = "old" /\ Passes("alter", "fromPayload")
       /\ columns' = "full" /\ UNCHANGED <<entries, indexed>>
    \/ /\ columns = "full" /\ Aborts("alter")
       /\ UNCHANGED schemaVars

\* Mutant of Unstamped: the UPDATEs have no WHERE job_type = ''.
AllFilled == Filled

Unstamped == {e \in Filled : entries[e].job = ""}

\* UPDATE messages SET job_type = ..., which may depend on the payload.
Stamp(S, job) ==
    entries' = [e \in Entries |->
        IF e \in S THEN [entries[e] EXCEPT !.job = job[entries[e].payload]] ELSE entries[e]]

BackfillFromPayload ==
    /\ Passes("fromPayload", "fallback")
    /\ Stamp({e \in Unstamped : JsonExtract(entries[e].payload) # ""},
             [payload \in Payloads |-> JsonExtract(payload)])
    /\ UNCHANGED <<columns, indexed>>

BackfillDefault ==
    /\ Passes("fallback", "index")
    /\ Stamp(Unstamped, [payload \in Payloads |-> "process_outbound"])
    /\ UNCHANGED <<columns, indexed>>

CreateIndex ==
    /\ Passes("index", "count")
    /\ indexed' = TRUE
    /\ UNCHANGED <<columns, entries>>

MigrateMessagesJobType ==
    \/ ProbeColumn \/ AlterTable \/ BackfillFromPayload \/ BackfillDefault \/ CreateIndex
-----------------------------------------------------------------------------
\* From the moment the worker runs, every row is dispatched as the job it was
\* inserted for, by whichever release and however often a start was cut off in
\* between: what Create stamped is not changed, and what the earlier release left
\* unstamped is what Create would have stamped, for every payload the two parsers
\* read alike.
JobsAreAsInserted ==
    Dispatching => \A e \in Filled :
        ReadAlike(entries[e].payload) => entries[e].job = entries[e].want
=============================================================================
