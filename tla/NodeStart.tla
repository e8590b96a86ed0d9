------------------------------ MODULE NodeStart ------------------------------
(***************************************************************************)
(* A node's starts and what they find in its database: main's steps up to  *)
(* serving, with the migration of the messages table and the default user  *)
(* among them, then requests for accounts and new messages until the       *)
(* process ends, and the next start, of this release or the earlier one.   *)
(***************************************************************************)
EXTENDS SchemaMigration, Accounts

vars == <<bootVars, schemaVars, accountVars>>

Init == BootInit /\ SchemaInit /\ AccountsInit

\* Somebody, or something, starts the node.
Start ==
    /\ phase = "down" /\ phase' = "create" /\ UNCHANGED faults
    /\ UNCHANGED <<schemaVars, accountVars>>

Migrate ==
    /\ InitSchema \/ MigrateMessagesJobType
    /\ UNCHANGED accountVars

InitializeDefaultUser ==
    /\ CountUsers \/ DefaultUser
    /\ UNCHANGED schemaVars

BootStep == Start \/ Migrate \/ InitializeDefaultUser

\* The process is killed, or a statement of the start fails, which is fatal.
Die ==
    /\ phase # "down" /\ Disturb
    /\ phase' = "down"
    /\ RequestsEnd
    /\ UNCHANGED schemaVars

Messages ==
    /\ \E e \in Entries, payload \in Payloads :
          \/ EarlierRelease(e, payload)
          \/ \E explicit \in Explicit \cup {""} : Create(e, explicit, payload)
    /\ UNCHANGED accountVars

Next ==
    \/ BootStep \/ Die \/ Messages
    \/ AccountHandler /\ UNCHANGED schemaVars

Spec == Init /\ [][Next]_vars

\* A supervisor starts the node again, and main goes on from step to step.
Fairness == WF_vars(BootStep)

FairSpec == Spec /\ Fairness
-----------------------------------------------------------------------------
TypeOK == BootTypeOK /\ SchemaTypeOK /\ AccountsTypeOK

\* "Safe to re-run on every boot" (schema.go:44): wherever the last start or the
\* last run was cut off, a node that is started again comes to serve.
BootsRecover == phase = "down" ~> phase = "serving"
=============================================================================
