----------------------------- MODULE PartnerTable -----------------------------
(***************************************************************************)
(* The trading_partners table and the statements SQLitePartnerRepository   *)
(* runs on it, each of them atomic.  Of a row's columns the model keeps    *)
(* the numeric id the settings pages use and the version of the partner's  *)
(* configuration that the endpoint columns and the JWKS column were taken  *)
(* from; names and timestamps play no part in what the node does.          *)
(***************************************************************************)
EXTENDS Naturals

CONSTANTS
    Peers,       \* partner_ids
    NoRow

Row == [id : Nat \ {0}, ends : Nat, keys : Nat]

ASSUME NoRowAssumption == NoRow \notin Row

\* What discovery and registration know of a partner when they save it.
NewPartner(id, ends, keys) ==
    [id |-> id, ends |-> ends, keys |-> keys]

EmptyRegistry == [p \in Peers |-> NoRow]

\* GetByID, for the question HandleWebhookRegistration asks.
Exists(t, p) == t[p] # NoRow

Ids(t) == {t[p].id : p \in {q \in Peers : Exists(t, q)}}

\* Mutant of NextId: INTEGER PRIMARY KEY without AUTOINCREMENT, max(rowid) + 1.
HighestPlusOne(t, last) ==
    1 + CHOOSE n \in Ids(t) \cup {0} : \A m \in Ids(t) : m <= n

\* Mutant of NextId: the sequence's value is used and then advanced.
LastId(t, last) == last

\* AUTOINCREMENT: an id that was ever in use is not used again.  (Ids that a refused
\* INSERT may skip make no difference to anybody.)
NextId(t, last) == last + 1

\* Create, once the UNIQUE constraint has let it pass.
Created(t, last, p, ends, keys) ==
    [t EXCEPT ![p] = NewPartner(NextId(t, last), ends, keys)]

\* Mutant of Updated: the SET list lacks public_key_jwks.
UpdatedEndpoints(t, p, ends, keys) ==
    [t EXCEPT ![p] = NewPartner(t[p].id, ends, t[p].keys)]

\* Update and the ON CONFLICT branch of Upsert write the same columns.
Updated(t, p, ends, keys) == [t EXCEPT ![p] = NewPartner(t[p].id, ends, keys)]

\* The rows a statement WHERE id = ? matches.
WithId(t, id) == {p \in Peers : Exists(t, p) /\ t[p].id = id}

DeleteByDBID(t, id) == [p \in Peers |-> IF p \in WithId(t, id) THEN NoRow ELSE t[p]]

\* List, as much of it as the settings page keeps: which partner has which id.
List(t) == {<<p, t[p].id>> : p \in {q \in Peers : Exists(t, q)}}
=============================================================================
