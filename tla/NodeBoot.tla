------------------------------- MODULE NodeBoot -------------------------------
(***************************************************************************)
(* How far main has come.  Configuration, schema and default user are seen *)
(* to one after the other, in steps of their own; an error in any of them  *)
(* is fatal, and the process may die between any two.  The components that *)
(* take part in the start of a node extend this module.                    *)
(***************************************************************************)
EXTENDS Naturals

CONSTANTS
    MaxFaults    \* bound on crashes and failed statements

ASSUME FaultsAssumption == MaxFaults \in Nat

VARIABLES
    phase,       \* the next step of main, "serving" after the last, or "down"
    faults       \* disturbances so far

bootVars == <<phase, faults>>

Phases == {"down", "configured", "create", "probe", "alter", "fromPayload",
           "fallback", "index", "count", "admin", "serving"}

BootInit == phase = "down" /\ faults = 0

BootTypeOK == phase \in Phases /\ faults \in 0 .. MaxFaults

Disturb == faults < MaxFaults /\ faults' = faults + 1

\* The step named by at succeeds, and main goes on to the next one.
Passes(at, next) == phase = at /\ phase' = next /\ UNCHANGED faults

\* log.Fatalf, for a reason that is there again at the next start.
Aborts(at) == phase = at /\ phase' = "down" /\ UNCHANGED faults

\* A statement succeeds or fails under a node that is running.
DbOk    == phase = "serving" /\ UNCHANGED bootVars
DbFails == phase = "serving" /\ Disturb /\ UNCHANGED phase

\* The newest release is at work on the database: NewContainer starts the queue
\* worker as soon as InitSchema has returned.
Dispatching == phase \in {"count", "admin", "serving"}
=============================================================================
