------------------------------ MODULE Onboarding ------------------------------
(***************************************************************************)
(* How partners get into a node's registry: the operator discovers them,   *)
(* they register through the webhook with a single-use token, or the node  *)
(* starts a handshake with them, which is where tokens come from.  Calls   *)
(* overlap, each fetches what the partner publishes and saves it steps     *)
(* later; meanwhile partners publish new endpoints and keys, operators     *)
(* rename and remove rows from a page that may be old, tokens expire and   *)
(* are swept away, and the process may die with its token store.           *)
(***************************************************************************)
EXTENDS PartnerTable

CONSTANTS
    Calls,         \* discovery and registration calls in progress at a time
    Tokens,        \* what GenerateToken will come up with
    NoToken,
    MaxVersion,    \* bound on the configurations a partner publishes
    MaxIds,        \* bound: rows are removed until this many ids are given out
    MaxFaults      \* bound on crashes and failed statements

ASSUME NoTokenAssumption == NoToken \notin Tokens
ASSUME BoundsAssumption  == MaxVersion \in Nat /\ MaxIds \in Nat /\ MaxFaults \in Nat

Kinds == {"discover", "initiate", "register"}
Steps == {"idle", "config", "keys", "save", "token", "posted",
          "validate", "look", "update", "create"}

VARIABLES
    up,          \* the process runs
    registry,    \* the trading_partners table
    lastId,      \* its sequence
    published,   \* the version of each partner's configuration and JWKS
    call,        \* where each call stands
    stored,      \* the tokens in the map of TokenStore
    used,        \* ... whose used flag is set
    expired,     \* tokens whose 30 minutes are over
    issued,      \* tokens generated so far
    holds,       \* the tokens each partner has been sent
    shown,       \* the rows of the settings page an operator has under the cursor
    faults,
    admitted,    \* history: registrations each token has admitted
    accepted     \* history: partners that accepted a handshake which was then saved,
                 \* and whose row no operator has removed since

tableVars == <<registry, lastId>>
tokenVars == <<stored, used, expired, issued, holds>>
historyVars == <<admitted, accepted>>
vars == <<up, tableVars, published, call, tokenVars, shown, faults, historyVars>>

IdleCall == [kind |-> "discover", peer |-> NoRow, step |-> "idle",
             ends |-> 0, keys |-> 0, token |-> NoToken]

Init ==
    /\ up = TRUE
    /\ registry = EmptyRegistry /\ lastId = 0
    /\ published = [p \in Peers |-> 1]
    /\ call = [c \in Calls |-> IdleCall]
    /\ stored = {} /\ used = {} /\ expired = {} /\ issued = {}
    /\ holds = [p \in Peers |-> {}]
    /\ shown = {} /\ faults = 0
    /\ admitted = [t \in Tokens |-> 0]
    /\ accepted = {}

-----------------------------------------------------------------------------
(***************************************************************************)
(* Beginnings and ends of calls.                                           *)
(***************************************************************************)
Begin(c, new) ==
    /\ up /\ call[c] = IdleCall
    /\ call' = [call EXCEPT ![c] = new]
    /\ UNCHANGED <<up, tableVars, published, tokenVars, shown, faults, historyVars>>

\* discoverPartnerHandler and InitiatePartnerHandshake.
Start(c, kind, p) ==
    Begin(c, [IdleCall EXCEPT !.kind = kind, !.peer = p, !.step = "config"])

\* A partner posts its configuration with a token it was sent, or with none that exists.
Register(c, p, t) ==
    Begin(c, [IdleCall EXCEPT !.kind = "register", !.peer = p, !.step = "validate",
                              !.ends = published[p], !.token = t])

Goto(c, step) == call' = [call EXCEPT ![c].step = step]
End(c)        == call' = [call EXCEPT ![c] = IdleCall]

DbOk    == UNCHANGED faults
DbFails == faults < MaxFaults /\ faults' = faults + 1
-----------------------------------------------------------------------------
(***************************************************************************)
(* The partner's configuration and its keys, two requests.                 *)
(***************************************************************************)
FetchAS5Config(c) ==
    /\ call[c].step = "config"
    /\ call' = [call EXCEPT ![c].ends = published[call[c].peer], ![c].step = "keys"]
    /\ UNCHANGED <<up, tableVars, published, tokenVars, shown, faults, historyVars>>

AfterKeys == [discover |-> "save", initiate |-> "token", register |-> "look"]

FetchAndCachePartnerKeys(c) ==
    /\ call[c].step = "keys"
    /\ call' = [call EXCEPT ![c].keys = published[call[c].peer],
                            ![c].step = AfterKeys[call[c].kind]]
    /\ UNCHANGED <<up, tableVars, published, tokenVars, shown, faults, historyVars>>

\* A request fails or is answered with something else, or there is no randomness
\* for a token; the call ends with an error.
FetchFails(c) ==
    /\ call[c].step \in {"config", "keys", "token"}
    /\ End(c)
    /\ UNCHANGED <<up, tableVars, published, tokenVars, shown, faults, historyVars>>
-----------------------------------------------------------------------------
(***************************************************************************)
(* The token store.  Each operation holds its mutex.                       *)
(***************************************************************************)
\* GenerateToken, and the request that carries the token to the partner.
GenerateToken(c) ==
    /\ call[c].step = "token"
    /\ \E t \in Tokens \ issued :
          /\ stored' = stored \cup {t} /\ issued' = issued \cup {t}
          /\ holds' = [holds EXCEPT ![call[c].peer] = @ \cup {t}]
    /\ Goto(c, "posted")
    /\ UNCHANGED <<up, tableVars, published, used, expired, shown, faults, historyVars>>

\* Mutant of PartnerAnswers: the partner's row is updated, as in a registration.
UpdateAfterAnswer(c) ==
    /\ call[c].step = "posted"
    /\ Goto(c, "update") \/ End(c)
    /\ UNCHANGED <<up, tableVars, published, tokenVars, shown, faults, historyVars>>

\* sendRegistrationRequest: the partner accepts, refuses or does not answer.
PartnerAnswers(c) ==
    /\ call[c].step = "posted"
    /\ Goto(c, "create") \/ End(c)
    /\ UNCHANGED <<up, tableVars, published, tokenVars, shown, faults, historyVars>>

\* Mutant of Valid: the used flag is set and never looked at.
Unexpired(t) == t \in stored /\ t \notin expired

Valid(t) == t \in stored /\ t \notin expired /\ t \notin used

\* ValidateAndConsume, then the required fields, which may be missing.
Admit(c) ==
    /\ call[c].step = "validate" /\ Valid(call[c].token)
    /\ used' = used \cup {call[c].token}
    /\ admitted' = [admitted EXCEPT ![call[c].token] = @ + 1]
    /\ \/ call' = [call EXCEPT ![c].step = "keys", ![c].token = NoToken]
       \/ End(c)
    /\ UNCHANGED <<up, tableVars, published, stored, expired, issued, holds, shown,
                   faults, accepted>>

Refuse(c) ==
    /\ call[c].step = "validate" /\ ~Valid(call[c].token)
    /\ stored' = stored \ ({call[c].token} \cap expired)
    /\ used' = used \cap stored'
    /\ End(c)
    /\ UNCHANGED <<up, tableVars, published, expired, issued, holds, shown, faults,
                   historyVars>>

\* Thirty minutes pass.
Expire(t) ==
    /\ t \in stored \ expired
    /\ expired' = expired \cup {t}
    /\ UNCHANGED <<up, tableVars, published, call, stored, used, issued, holds, shown,
                   faults, historyVars>>

Swept == used \cup (expired \cap stored)

\* A tick of cleanupExpiredTokens.
CleanupExpiredTokens ==
    /\ Swept # {}
    /\ stored' = stored \ Swept /\ used' = used \ Swept
    /\ UNCHANGED <<up, tableVars, published, call, expired, issued, holds, shown,
                   faults, historyVars>>
-----------------------------------------------------------------------------
(***************************************************************************)
(* The registry.                                                           *)
(***************************************************************************)
\* Create, which the UNIQUE constraint refuses for a partner that is there.
Create(p, ends, keys) ==
    \/ /\ ~Exists(registry, p)
       /\ registry' = Created(registry, lastId, p, ends, keys)
       /\ lastId' = lastId + 1
    \/ Exists(registry, p) /\ UNCHANGED tableVars

\* Update, which reports a partner that is not there.
Update(p, ends, keys) ==
    \/ /\ Exists(registry, p)
       /\ registry' = Updated(registry, p, ends, keys)
       /\ UNCHANGED lastId
    \/ ~Exists(registry, p) /\ UNCHANGED tableVars

Upsert(p, ends, keys) ==
    IF Exists(registry, p) THEN Update(p, ends, keys) ELSE Create(p, ends, keys)

\* GetByID; an error of any kind counts as not found.
LookUp(c) ==
    /\ call[c].step = "look"
    /\ \/ DbOk /\ Goto(c, IF Exists(registry, call[c].peer) THEN "update" ELSE "create")
       \/ DbFails /\ Goto(c, "create")
    /\ UNCHANGED <<up, tableVars, published, tokenVars, shown, historyVars>>

\* The last statement of a call: Upsert for a discovery, Update or Create for a
\* registration, Create for a handshake.  Whatever comes of it, the call ends.
Save(c) ==
    LET k == call[c]
    IN  /\ \/ k.step = "save" /\ DbOk /\ Upsert(k.peer, k.ends, k.keys)
           \/ k.step = "update" /\ DbOk /\ Update(k.peer, k.ends, k.keys)
           \/ k.step = "create" /\ DbOk /\ Create(k.peer, k.ends, k.keys)
           \/ k.step \in {"save", "update", "create"} /\ DbFails /\ UNCHANGED tableVars
        /\ accepted' = IF k.kind = "initiate" /\ faults' = faults
                       THEN accepted \cup {k.peer} ELSE accepted
        /\ End(c)
        /\ UNCHANGED <<up, published, tokenVars, shown, admitted>>
-----------------------------------------------------------------------------
(***************************************************************************)
(* The operator's settings page and what it does with the ids it shows.    *)
(***************************************************************************)
\* The page is loaded, and the operator turns to one of its rows.
ListPartners ==
    /\ up /\ \E entry \in List(registry) : shown' = {entry}
    /\ UNCHANGED <<up, tableVars, published, call, tokenVars, faults, historyVars>>

DeletePartner(id) ==
    /\ up /\ lastId < MaxIds
    /\ registry' = DeleteByDBID(registry, id)
    /\ accepted' = accepted \ WithId(registry, id)
    /\ UNCHANGED <<up, lastId, published, call, tokenVars, shown, faults, admitted>>
-----------------------------------------------------------------------------
(***************************************************************************)
(* Partners and the process.                                               *)
(***************************************************************************)
\* A partner's next release: new endpoints, new keys.
Republish(p) ==
    /\ published[p] < MaxVersion
    /\ published' = [published EXCEPT ![p] = @ + 1]
    /\ UNCHANGED <<up, tableVars, call, tokenVars, shown, faults, historyVars>>

\* The process dies, with its calls and its tokens.
Crash ==
    /\ up /\ DbFails
    /\ up' = FALSE
    /\ call' = [c \in Calls |-> IdleCall]
    /\ stored' = {} /\ used' = {}
    /\ UNCHANGED <<tableVars, published, expired, issued, holds, shown, historyVars>>

Boot ==
    /\ ~up /\ up' = TRUE
    /\ UNCHANGED <<tableVars, published, call, tokenVars, shown, faults, historyVars>>
-----------------------------------------------------------------------------
Beginnings ==
    \E c \in Calls, p \in Peers :
        \/ Start(c, "discover", p) \/ Start(c, "initiate", p)
        \/ \E t \in holds[p] \cup {NoToken} : Register(c, p, t)

Handler(c) ==
    \/ FetchAS5Config(c) \/ FetchAndCachePartnerKeys(c) \/ FetchFails(c)
    \/ GenerateToken(c) \/ PartnerAnswers(c) \/ Admit(c) \/ Refuse(c)
    \/ LookUp(c) \/ Save(c)

Operator ==
    \/ ListPartners
    \/ \E entry \in shown : DeletePartner(entry[2])

Next ==
    \/ Beginnings \/ Operator \/ CleanupExpiredTokens \/ Crash \/ Boot
    \/ \E c \in Calls : Handler(c)
    \/ \E t \in Tokens : Expire(t)
    \/ \E p \in Peers : Republish(p)

Spec == Init /\ [][Next]_vars
-----------------------------------------------------------------------------
Call == [kind : Kinds, peer : Peers \cup {NoRow}, step : Steps,
         ends : Nat, keys : Nat, token : Tokens \cup {NoToken}]

TypeOK ==
    /\ up \in BOOLEAN
    /\ registry \in [Peers -> Row \cup {NoRow}] /\ lastId \in Nat
    /\ published \in [Peers -> Nat]
    /\ call \in [Calls -> Call]
    /\ \A c \in Calls : call[c] = IdleCall \/ call[c].peer \in Peers
    /\ issued \subseteq Tokens /\ stored \subseteq issued
    /\ used \subseteq stored /\ expired \subseteq issued
    /\ holds \in [Peers -> SUBSET issued]
    /\ shown \subseteq (Peers \X Nat)
    /\ faults \in 0 .. MaxFaults
    /\ admitted \in [Tokens -> Nat] /\ accepted \subseteq Peers

\* "Single-use" (tokens.go:11): a token admits one registration in all, however many
\* partners present it at once or again, whether it expires, is swept away or
\* forgotten in a crash, and although the registration it admitted may have failed.
TokensAdmitOnce == \A t \in Tokens : admitted[t] <= 1

\* No row pairs the endpoints of a configuration with keys that are older than it,
\* whichever of the four ways of saving wrote it and whatever they overlapped with:
\* every one of them writes both columns, from fetches in that order.
KeysNotOlderThanEndpoints ==
    \A p \in Peers : Exists(registry, p) => registry[p].ends <= registry[p].keys

\* However old the settings page is, an id it shows is that of the partner it shows
\* or of nobody: its rename and delete buttons never reach another partner's row.
ShownIdsStayTrue ==
    \A entry \in shown : WithId(registry, entry[2]) \subseteq {entry[1]}

\* A partner that accepted our handshake is in our registry too, once the handshake
\* has ended without a failed statement, until an operator removes it: although the
\* INSERT of the last step fails when the partner was discovered or has registered
\* in the meantime, and the handshake then ends with an error.
AcceptedHandshakesAreKept == \A p \in accepted : Exists(registry, p)
=============================================================================
