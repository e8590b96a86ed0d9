------------------------------ MODULE NodeStore ------------------------------
(***************************************************************************)
(* What the goroutines of one FideX node share: the process, its database  *)
(* with the messages and trading_partners tables, and the outcome of a SQL *)
(* statement.  The components of a node extend this module.                *)
(***************************************************************************)
EXTENDS MessageTable

CONSTANTS
    Profiles,    \* what the partner registry can hold about a partner
    MaxFaults    \* bound on crashes, shutdowns and failed SQL statements

(***************************************************************************)
(* A registry profile: the empty set is an unregistered partner, otherwise *)
(* the columns of its row that a delivery needs and that are filled in.    *)
(***************************************************************************)
Facets == {"listed", "message", "receipt", "keys"}

ASSUME FaultsAssumption   == MaxFaults \in Nat
ASSUME ProfilesAssumption == Profiles \subseteq SUBSET Facets
ASSUME PartnersAssumption == Partners # {}
ASSUME NoIdAssumption     == NoId \notin Ids

VARIABLES
    node,      \* the process: "up", "stopping" (database closed) or "down"
    rows,      \* the messages table
    stamp,     \* rank of the next insertion
    partners,  \* the trading_partners table
    faults     \* disturbances so far

tableVars == <<rows, stamp>>
storeVars == <<node, rows, stamp, partners, faults>>

StoreInit ==
    /\ node = "up"
    /\ rows = EmptyTable
    /\ stamp = 0
    /\ partners \in [Partners -> Profiles]
    /\ faults = 0

StoreTypeOK ==
    /\ node \in {"up", "stopping", "down"}
    /\ rows \in [Ids -> Row]
    /\ stamp \in Nat
    /\ partners \in [Partners -> Profiles]
    /\ faults \in 0 .. MaxFaults

Alive == node \in {"up", "stopping"}

Disturb == faults < MaxFaults /\ faults' = faults + 1

(***************************************************************************)
(* Statements.  While the node is up a statement succeeds or fails; once   *)
(* Container.Close has closed the database every one of them fails.        *)
(***************************************************************************)
DbOk    == node = "up" /\ UNCHANGED faults
DbFails == \/ node = "up" /\ Disturb
           \/ node = "stopping" /\ UNCHANGED faults

\* An UPDATE whose error is logged and otherwise ignored.
Write(t) == \/ DbOk /\ rows' = t
            \/ DbFails /\ UNCHANGED rows

\* Create, when it succeeds.
InsertNew(id, dir, status, payload) ==
    /\ CanInsert(rows, id)
    /\ rows' = Insert(rows, id, NewRow(dir, status, payload, stamp))
    /\ stamp' = stamp + 1

\* An operator adds, edits or removes a trading partner.
ChangePartner(p, profile) ==
    /\ node = "up"
    /\ partners[p] # profile
    /\ partners' = [partners EXCEPT ![p] = profile]
    /\ UNCHANGED <<node, rows, stamp, faults>>

(***************************************************************************)
(* The process.  runWithGracefulShutdown closes stopChan and the database  *)
(* without waiting for the worker, then waits for the HTTP servers;        *)
(* everything runs on against a closed database until main returns.        *)
(***************************************************************************)
BeginShutdown ==
    /\ node = "up" /\ Disturb
    /\ node' = "stopping"
    /\ UNCHANGED <<rows, stamp, partners>>

\* The process ends, killed while up or at the end of main while stopping.
Exit ==
    /\ \/ node = "up" /\ Disturb
       \/ node = "stopping" /\ UNCHANGED faults
    /\ node' = "down"
    /\ UNCHANGED <<rows, stamp, partners>>

Boot ==
    /\ node = "down"
    /\ node' = "up"
    /\ UNCHANGED <<rows, stamp, partners, faults>>
=============================================================================
