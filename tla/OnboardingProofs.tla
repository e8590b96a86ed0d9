--------------------------- MODULE OnboardingProofs ---------------------------
(***************************************************************************)
(* Theorems about Onboarding for every set of partners, calls and tokens,  *)
(* any number of versions and any number of crashes and failed statements. *)
(* Each property is strengthened by what the calls under way carry with    *)
(* them, or by what has become of the tokens and ids handed out so far.    *)
(***************************************************************************)
EXTENDS Onboarding, TLAPS

USE NoRowAssumption, NoTokenAssumption, BoundsAssumption

LEMMA IdleIsCall == IdleCall \in Call /\ IdleCall.step = "idle"
  BY DEF IdleCall, Call, Kinds, Steps

\* An INSERT, an UPDATE and a DELETE of a registry make a registry, and which rows
\* they touch.
Registries == [Peers -> Row \cup {NoRow}]

LEMMA CreateFacts ==
    ASSUME registry \in Registries, lastId \in Nat, NEW p, NEW ends, NEW keys,
           p \in Peers, ends \in Nat, keys \in Nat, Create(p, ends, keys)
    PROVE  /\ registry' \in Registries /\ lastId' \in Nat /\ lastId <= lastId'
           /\ Exists(registry', p)
           /\ \A q \in Peers :
                 \/ registry'[q] = registry[q]
                 \/ /\ registry'[q] = [id |-> lastId', ends |-> ends, keys |-> keys]
                    /\ q = p /\ lastId' = lastId + 1
  <1> DEFINE r == [id |-> lastId + 1, ends |-> ends, keys |-> keys]
  <1>1. r \in Row
    BY DEF Row
  <1>2. CASE Exists(registry, p) /\ UNCHANGED tableVars
    BY <1>2 DEF tableVars
  <1>3. CASE registry' = Created(registry, lastId, p, ends, keys) /\ lastId' = lastId + 1
    <2>1. registry' = [registry EXCEPT ![p] = r]
      BY <1>3 DEF Created, NewPartner, NextId
    <2> QED
      BY <1>1, <1>3, <2>1 DEF Registries, Exists
  <1> QED
    BY <1>2, <1>3 DEF Create

LEMMA UpdateFacts ==
    ASSUME registry \in Registries, lastId \in Nat, NEW p, NEW ends, NEW keys,
           p \in Peers, ends \in Nat, keys \in Nat, Update(p, ends, keys)
    PROVE  /\ registry' \in Registries /\ lastId' = lastId
           /\ \A q \in Peers : Exists(registry, q) => Exists(registry', q)
           /\ \A q \in Peers :
                 \/ registry'[q] = registry[q]
                 \/ /\ registry'[q] = [id |-> registry[p].id, ends |-> ends, keys |-> keys]
                    /\ q = p /\ Exists(registry, p)
  <1> DEFINE r == [id |-> registry[p].id, ends |-> ends, keys |-> keys]
  <1>1. CASE UNCHANGED tableVars
    BY <1>1 DEF tableVars
  <1>2. CASE Exists(registry, p) /\ registry' = Updated(registry, p, ends, keys)
             /\ UNCHANGED lastId
    <2>1. registry[p] \in Row
      BY <1>2 DEF Registries, Exists
    <2>2. r \in Row
      BY <2>1 DEF Row
    <2>3. registry' = [registry EXCEPT ![p] = r]
      BY <1>2 DEF Updated, NewPartner
    <2> QED
      BY <1>2, <2>2, <2>3 DEF Registries, Exists
  <1> QED
    BY <1>1, <1>2 DEF Update

\* Whatever Save does to the registry: a row stays as it is, or is written by this call.
LEMMA SaveFacts ==
    ASSUME registry \in Registries, lastId \in Nat, NEW c \in Calls, Save(c),
           call[c].peer \in Peers, call[c].ends \in Nat, call[c].keys \in Nat
    PROVE  /\ registry' \in Registries /\ lastId' \in Nat /\ lastId <= lastId'
           /\ \A q \in Peers : Exists(registry, q) => Exists(registry', q)
           /\ \A q \in Peers :
                 \/ registry'[q] = registry[q]
                 \/ /\ q = call[c].peer /\ registry'[q].ends = call[c].ends
                    /\ registry'[q].keys = call[c].keys
                    /\ \/ registry'[q].id = lastId' /\ lastId' = lastId + 1
                       \/ Exists(registry, q) /\ registry'[q].id = registry[q].id
  <1> DEFINE k == call[c]
  <1>0. k.peer \in Peers /\ k.ends \in Nat /\ k.keys \in Nat
    OBVIOUS
  <1> HIDE DEF k
  <1>1. CASE Create(k.peer, k.ends, k.keys)
    <2>1. /\ registry' \in Registries /\ lastId' \in Nat /\ lastId <= lastId'
          /\ Exists(registry', k.peer)
          /\ \A q \in Peers :
                \/ registry'[q] = registry[q]
                \/ /\ registry'[q] = [id |-> lastId', ends |-> k.ends, keys |-> k.keys]
                   /\ q = k.peer /\ lastId' = lastId + 1
      BY <1>0, <1>1, CreateFacts
    <2> QED
      BY <2>1 DEF k, Exists
  <1>2. CASE Update(k.peer, k.ends, k.keys)
    <2>1. /\ registry' \in Registries /\ lastId' = lastId
          /\ \A q \in Peers : Exists(registry, q) => Exists(registry', q)
          /\ \A q \in Peers :
                \/ registry'[q] = registry[q]
                \/ /\ registry'[q] = [id |-> registry[k.peer].id, ends |-> k.ends,
                                     keys |-> k.keys]
                   /\ q = k.peer /\ Exists(registry, k.peer)
      BY <1>0, <1>2, UpdateFacts
    <2> QED
      BY <2>1 DEF k
  <1>3. CASE UNCHANGED tableVars
    BY <1>3 DEF tableVars
  <1> QED
    BY <1>1, <1>2, <1>3 DEF Save, Upsert, k

LEMMA DeletedFacts ==
    ASSUME NEW t \in Registries, NEW id
    PROVE  LET u == DeleteByDBID(t, id) IN
           /\ u \in Registries
           /\ \A q \in Peers : u[q] = t[q] \/ u[q] = NoRow
           /\ \A q \in Peers : q \notin WithId(t, id) => u[q] = t[q]
  BY DEF DeleteByDBID, Registries

-----------------------------------------------------------------------------
(***************************************************************************)
(* Types.                                                                  *)
(***************************************************************************)
\* A call changes its record, within its type, or ends.
CallsTyped == call \in [Calls -> Call] /\ \A c \in Calls : call[c] = IdleCall \/ call[c].peer \in Peers

LEMMA Ends ==
    ASSUME CallsTyped, NEW c \in Calls, End(c)
    PROVE  CallsTyped'
  BY IdleIsCall DEF CallsTyped, End

LEMMA Moves ==
    ASSUME CallsTyped, NEW c \in Calls, call[c] # IdleCall,
           NEW k \in Call, k.peer \in Peers, call' = [call EXCEPT ![c] = k]
    PROVE  CallsTyped'
  BY DEF CallsTyped

\* Where a call stands tells whether it is one.
LEMMA Busy ==
    ASSUME CallsTyped, NEW c \in Calls, call[c].step # "idle"
    PROVE  /\ call[c] # IdleCall /\ call[c] \in Call
           /\ call[c].peer \in Peers /\ call[c].kind \in Kinds
           /\ call[c].ends \in Nat /\ call[c].keys \in Nat
           /\ call[c].token \in Tokens \cup {NoToken}
  BY IdleIsCall DEF CallsTyped, Call

LEMMA Goes ==
    ASSUME CallsTyped, NEW c \in Calls, call[c].step # "idle", NEW s \in Steps, Goto(c, s)
    PROVE  CallsTyped'
  <1> DEFINE k == [call[c] EXCEPT !.step = s]
  <1>1. k \in Call /\ k.peer \in Peers /\ call[c] # IdleCall
    BY Busy DEF Call
  <1>2. call' = [call EXCEPT ![c] = k]
    BY DEF Goto, CallsTyped
  <1> QED
    BY <1>1, <1>2, Moves

LEMMA TypedInit == Init => TypeOK
  <1> SUFFICES ASSUME Init PROVE TypeOK
    OBVIOUS
  <1>1. EmptyRegistry \in [Peers -> Row \cup {NoRow}]
    BY DEF EmptyRegistry
  <1> QED
    BY <1>1, IdleIsCall DEF Init, TypeOK

\* A step of a call that touches nothing outside its record.
LEMMA RecordStep ==
    ASSUME TypeOK, CallsTyped',
           UNCHANGED <<up, tableVars, published, tokenVars, shown, faults, historyVars>>
    PROVE  TypeOK'
  BY DEF TypeOK, CallsTyped, tableVars, tokenVars, historyVars

LEMMA TypedNext == TypeOK /\ [Next]_vars => TypeOK'
  <1> SUFFICES ASSUME TypeOK, [Next]_vars PROVE TypeOK'
    OBVIOUS
  <1>0. CallsTyped /\ registry \in Registries /\ lastId \in Nat
    BY DEF TypeOK, CallsTyped, Registries
  <1>1. ASSUME NEW c \in Calls, NEW p \in Peers, NEW kind \in Kinds, Start(c, kind, p)
        PROVE  TypeOK'
    <2> DEFINE k == [IdleCall EXCEPT !.kind = kind, !.peer = p, !.step = "config"]
    <2>1. k \in Call /\ k.peer \in Peers
      BY DEF IdleCall, Call, Steps
    <2>2. CallsTyped'
      BY <1>0, <1>1, <2>1 DEF CallsTyped, Start, Begin
    <2> QED
      BY <1>1, <2>2, RecordStep DEF Start, Begin
  <1>2. ASSUME NEW c \in Calls, NEW p \in Peers, NEW t \in Tokens \cup {NoToken},
               Register(c, p, t)
        PROVE  TypeOK'
    <2> DEFINE k == [IdleCall EXCEPT !.kind = "register", !.peer = p, !.step = "validate",
                                     !.ends = published[p], !.token = t]
    <2>1. k \in Call /\ k.peer \in Peers
      BY DEF IdleCall, Call, Steps, Kinds, TypeOK
    <2>2. CallsTyped'
      BY <1>0, <1>2, <2>1 DEF CallsTyped, Register, Begin
    <2> QED
      BY <1>2, <2>2, RecordStep DEF Register, Begin
  <1>3. ASSUME NEW c \in Calls, FetchAS5Config(c)
        PROVE  TypeOK'
    <2> DEFINE k == [call[c] EXCEPT !.ends = published[call[c].peer], !.step = "keys"]
    <2>1. k \in Call /\ k.peer \in Peers /\ call[c] # IdleCall
      BY <1>0, <1>3, Busy DEF FetchAS5Config, Call, Steps, TypeOK
    <2>2. call' = [call EXCEPT ![c] = k]
      BY <1>0, <1>3 DEF FetchAS5Config, CallsTyped
    <2> QED
      BY <1>0, <1>3, <2>1, <2>2, Moves, RecordStep DEF FetchAS5Config
  <1>4. ASSUME NEW c \in Calls, FetchAndCachePartnerKeys(c)
        PROVE  TypeOK'
    <2> DEFINE k == [call[c] EXCEPT !.keys = published[call[c].peer],
                                    !.step = AfterKeys[call[c].kind]]
    <2>1. AfterKeys[call[c].kind] \in Steps /\ call[c] \in Call /\ call[c].peer \in Peers
      BY <1>0, <1>4, Busy DEF FetchAndCachePartnerKeys, AfterKeys, Kinds, Steps
    <2>2. k \in Call /\ k.peer \in Peers /\ call[c] # IdleCall
      BY <1>0, <1>4, <2>1, Busy DEF FetchAndCachePartnerKeys, Call, TypeOK
    <2>3. call' = [call EXCEPT ![c] = k]
      BY <1>0, <1>4 DEF FetchAndCachePartnerKeys, CallsTyped
    <2> QED
      BY <1>0, <1>4, <2>2, <2>3, Moves, RecordStep DEF FetchAndCachePartnerKeys
  <1>5. ASSUME NEW c \in Calls, FetchFails(c)
        PROVE  TypeOK'
    BY <1>0, <1>5, Ends, RecordStep DEF FetchFails
  <1>6. ASSUME NEW c \in Calls, GenerateToken(c)
        PROVE  TypeOK'
    <2>1. CallsTyped' /\ call[c].peer \in Peers
      BY <1>0, <1>6, Goes, Busy DEF GenerateToken, Steps
    <2> QED
      BY <1>6, <2>1 DEF GenerateToken, TypeOK, CallsTyped, tableVars, historyVars
  <1>7. ASSUME NEW c \in Calls, PartnerAnswers(c)
        PROVE  TypeOK'
    <2>1. CallsTyped'
      BY <1>0, <1>7, Goes, Ends DEF PartnerAnswers, Steps
    <2> QED
      BY <1>7, <2>1, RecordStep DEF PartnerAnswers
  <1>8. ASSUME NEW c \in Calls, Admit(c)
        PROVE  TypeOK'
    <2> DEFINE k == [call[c] EXCEPT !.step = "keys", !.token = NoToken]
    <2>1. k \in Call /\ k.peer \in Peers /\ call[c] # IdleCall
      BY <1>0, <1>8, Busy DEF Admit, Call, Steps
    <2>2. ASSUME call' = [call EXCEPT ![c].step = "keys", ![c].token = NoToken]
          PROVE  CallsTyped'
      <3>1. call' = [call EXCEPT ![c] = k]
        BY <1>0, <2>2 DEF CallsTyped
      <3> QED
        BY <1>0, <2>1, <3>1, Moves
    <2>3. CallsTyped'
      BY <1>0, <1>8, <2>2, Ends DEF Admit
    <2>4. admitted' \in [Tokens -> Nat] /\ used' \subseteq stored
      BY <1>8 DEF Admit, Valid, TypeOK
    <2> QED
      BY <1>8, <2>3, <2>4 DEF Admit, TypeOK, CallsTyped, tableVars
  <1>9. ASSUME NEW c \in Calls, Refuse(c)
        PROVE  TypeOK'
    <2>1. CallsTyped'
      BY <1>0, <1>9, Ends DEF Refuse
    <2> QED
      BY <1>9, <2>1 DEF Refuse, TypeOK, CallsTyped, tableVars, historyVars
  <1>10. ASSUME NEW c \in Calls, LookUp(c)
         PROVE  TypeOK'
    <2>1. CallsTyped'
      BY <1>0, <1>10, Goes DEF LookUp, Steps
    <2>2. faults' \in 0 .. MaxFaults
      BY <1>10 DEF LookUp, DbOk, DbFails, TypeOK
    <2> QED
      BY <1>10, <2>1, <2>2
      DEF LookUp, TypeOK, CallsTyped, tableVars, tokenVars, historyVars
  <1>11. ASSUME NEW c \in Calls, Save(c)
         PROVE  TypeOK'
    <2>1. CallsTyped' /\ call[c].peer \in Peers /\ call[c].ends \in Nat /\ call[c].keys \in Nat
      BY <1>0, <1>11, Ends, Busy DEF Save
    <2>2. registry' \in Registries /\ lastId' \in Nat
      BY <1>0, <1>11, <2>1, SaveFacts
    <2>3. faults' \in 0 .. MaxFaults /\ accepted' \subseteq Peers
      BY <1>11, <2>1 DEF Save, DbOk, DbFails, TypeOK
    <2> QED
      BY <1>11, <2>1, <2>2, <2>3
      DEF Save, TypeOK, CallsTyped, Registries, tokenVars
  <1>12. ASSUME ListPartners
         PROVE  TypeOK'
    <2>1. List(registry) \subseteq Peers \X Nat
      BY <1>0 DEF List, Registries, Row, Exists
    <2> QED
      BY <1>12, <2>1 DEF ListPartners, TypeOK, tableVars, tokenVars, historyVars
  <1>13. ASSUME NEW id, DeletePartner(id)
         PROVE  TypeOK'
    <2>1. registry' \in Registries
      BY <1>0, <1>13, DeletedFacts DEF DeletePartner
    <2> QED
      BY <1>13, <2>1 DEF DeletePartner, TypeOK, tokenVars, Registries
  <1>14. ASSUME CleanupExpiredTokens
         PROVE  TypeOK'
    BY <1>14 DEF CleanupExpiredTokens, TypeOK, tableVars, historyVars
  <1>15. ASSUME Crash
         PROVE  TypeOK'
    <2>1. CallsTyped'
      BY <1>15, IdleIsCall DEF Crash, CallsTyped
    <2>2. faults' \in 0 .. MaxFaults
      BY <1>15 DEF Crash, DbFails, TypeOK
    <2>3. up' \in BOOLEAN
      BY <1>15 DEF Crash
    <2> QED
      BY <1>15, <2>1, <2>2, <2>3 DEF Crash, TypeOK, CallsTyped, tableVars, historyVars
  <1>16. ASSUME Boot
         PROVE  TypeOK'
    BY <1>16 DEF Boot, TypeOK, tableVars, tokenVars, historyVars
  <1>17. ASSUME NEW t \in Tokens, Expire(t)
         PROVE  TypeOK'
    BY <1>17 DEF Expire, TypeOK, tableVars, historyVars
  <1>18. ASSUME NEW p \in Peers, Republish(p)
         PROVE  TypeOK'
    BY <1>18 DEF Republish, TypeOK, tableVars, tokenVars, historyVars
  <1>19. CASE UNCHANGED vars
    BY <1>19 DEF vars, TypeOK, tableVars, tokenVars, historyVars
  <1>20. \A p \in Peers : holds[p] \subseteq Tokens
    BY DEF TypeOK
  <1> QED
    BY <1>1, <1>2, <1>3, <1>4, <1>5, <1>6, <1>7, <1>8, <1>9, <1>10, <1>11, <1>12, <1>13,
       <1>14, <1>15, <1>16, <1>17, <1>18, <1>19, <1>20
    DEF Next, Beginnings, Handler, Operator, Kinds

\* Calls, tokens, rows and history keep their types.
THEOREM Typed == Spec => []TypeOK
  <1> QED
    BY TypedInit, TypedNext, PTL DEF Spec

-----------------------------------------------------------------------------
(***************************************************************************)
(* Tokens.  One that has admitted somebody is marked as used for as long   *)
(* as it is in the store, and it does not come back once it has left.      *)
(***************************************************************************)
Spent ==
    \A t \in Tokens :
        /\ admitted[t] <= 1
        /\ admitted[t] = 1 => t \in issued /\ (t \in stored => t \in used)

LEMMA SpentNext == TypeOK /\ Spent /\ [Next]_vars => Spent'
  <1> SUFFICES ASSUME TypeOK, Spent, [Next]_vars PROVE Spent'
    OBVIOUS
  <1>1. CASE UNCHANGED <<stored, used, issued, admitted>>
    BY <1>1 DEF Spent
  <1>2. ASSUME NEW c \in Calls, GenerateToken(c)
        PROVE  Spent'
    <2>1. /\ UNCHANGED <<used, admitted>>
          /\ \E t \in Tokens \ issued : stored' = stored \cup {t} /\ issued' = issued \cup {t}
      BY <1>2 DEF GenerateToken, historyVars
    <2> QED
      BY <2>1 DEF Spent
  <1>3. ASSUME NEW c \in Calls, Admit(c)
        PROVE  Spent'
    <2> DEFINE t == call[c].token
    <2>1. t \in Tokens /\ t \in stored /\ t \notin used /\ t \in issued
      BY <1>3 DEF Admit, Valid, TypeOK
    <2>2. admitted[t] = 0
      BY <2>1 DEF Spent, TypeOK
    <2>3. admitted' = [admitted EXCEPT ![t] = 1]
      BY <1>3, <2>2 DEF Admit
    <2>4. used' = used \cup {t} /\ UNCHANGED <<stored, issued>>
      BY <1>3 DEF Admit
    <2> QED
      BY <2>1, <2>3, <2>4 DEF Spent, TypeOK
  <1>4. ASSUME NEW c \in Calls, Refuse(c)
        PROVE  Spent'
    BY <1>4 DEF Refuse, Spent, historyVars
  <1>5. CASE CleanupExpiredTokens
    BY <1>5 DEF CleanupExpiredTokens, Spent, historyVars
  <1>6. CASE Crash
    BY <1>6 DEF Crash, Spent, historyVars
  <1> QED
    BY <1>1, <1>2, <1>3, <1>4, <1>5, <1>6
    DEF Next, Beginnings, Handler, Operator, Start, Register, Begin, FetchAS5Config,
        FetchAndCachePartnerKeys, FetchFails, PartnerAnswers, LookUp, Save, ListPartners,
        DeletePartner, Boot, Expire, Republish, vars, tokenVars, historyVars

\* Single-use tokens: no schedule of any number of registrations makes a token admit
\* two of them.
THEOREM TokensAreSingleUse == Spec => []TokensAdmitOnce
  <1>1. Init => Spent
    BY DEF Init, Spent
  <1>2. Spent => TokensAdmitOnce
    BY DEF Spent, TokensAdmitOnce
  <1> QED
    BY <1>1, <1>2, SpentNext, Typed, PTL DEF Spec

-----------------------------------------------------------------------------
(***************************************************************************)
(* Endpoints and keys.  A call on its way to the keys has endpoints that   *)
(* were published already; one that has the keys has nothing newer than    *)
(* them to save.                                                           *)
(***************************************************************************)
Saving == {"save", "token", "posted", "look", "update", "create"}

CallFresh(c) ==
    /\ call[c].step \in {"keys", "validate"} => call[c].ends <= published[call[c].peer]
    /\ call[c].step \in Saving => call[c].ends <= call[c].keys

Fresh == KeysNotOlderThanEndpoints /\ \A c \in Calls : CallFresh(c)

\* A step that writes no row and publishes nothing leaves every call as fresh as it
\* was, but for the one that takes it.
LEMMA FreshStep ==
    ASSUME TypeOK, Fresh, NEW c \in Calls, UNCHANGED <<registry, published>>,
           \A d \in Calls : d # c => call'[d] = call[d], CallFresh(c)'
    PROVE  Fresh'
  BY DEF Fresh, CallFresh, KeysNotOlderThanEndpoints

LEMMA FreshEnd ==
    ASSUME TypeOK, NEW c \in Calls, End(c)
    PROVE  /\ CallFresh(c)'
           /\ \A d \in Calls : d # c => call'[d] = call[d]
  BY DEF TypeOK, End, CallFresh, Saving, IdleCall

LEMMA FreshNext == TypeOK /\ TypeOK' /\ Fresh /\ [Next]_vars => Fresh'
  <1> SUFFICES ASSUME TypeOK, TypeOK', Fresh, [Next]_vars PROVE Fresh'
    OBVIOUS
  <1>0. CallsTyped /\ registry \in Registries /\ lastId \in Nat
    BY DEF TypeOK, CallsTyped, Registries
  <1>1. CASE UNCHANGED <<registry, published, call>>
    BY <1>1 DEF Fresh, CallFresh, KeysNotOlderThanEndpoints
  <1>2. ASSUME NEW c \in Calls, NEW p \in Peers, NEW kind \in Kinds, Start(c, kind, p)
        PROVE  Fresh'
    <2>1. /\ call'[c].step = "config" /\ UNCHANGED <<registry, published>>
          /\ \A d \in Calls : d # c => call'[d] = call[d]
      BY <1>2 DEF Start, Begin, TypeOK, IdleCall, tableVars
    <2> QED
      BY <2>1, FreshStep DEF CallFresh, Saving
  <1>3. ASSUME NEW c \in Calls, NEW p \in Peers, NEW t, Register(c, p, t)
        PROVE  Fresh'
    <2>1. /\ call'[c].step = "validate" /\ call'[c].ends = published[p]
          /\ call'[c].peer = p /\ UNCHANGED <<registry, published>>
          /\ \A d \in Calls : d # c => call'[d] = call[d]
      BY <1>3 DEF Register, Begin, TypeOK, IdleCall, tableVars
    <2>2. published[p] \in Nat
      BY DEF TypeOK
    <2> QED
      BY <2>1, <2>2, FreshStep DEF CallFresh, Saving
  <1>4. ASSUME NEW c \in Calls, FetchAS5Config(c)
        PROVE  Fresh'
    <2>1. call[c] \in Call /\ call[c].peer \in Peers
      BY <1>0, <1>4, Busy DEF FetchAS5Config
    <2>2. /\ call'[c].step = "keys" /\ call'[c].ends = published[call[c].peer]
          /\ call'[c].peer = call[c].peer /\ UNCHANGED <<registry, published>>
          /\ \A d \in Calls : d # c => call'[d] = call[d]
      BY <1>4, <2>1 DEF FetchAS5Config, TypeOK, Call, tableVars
    <2>3. published[call[c].peer] \in Nat
      BY <2>1 DEF TypeOK
    <2> QED
      BY <2>2, <2>3, FreshStep DEF CallFresh, Saving
  <1>5. ASSUME NEW c \in Calls, FetchAndCachePartnerKeys(c)
        PROVE  Fresh'
    <2>1. /\ call[c] \in Call /\ call[c].peer \in Peers /\ call[c].kind \in Kinds
          /\ call[c].ends <= published[call[c].peer]
      BY <1>0, <1>5, Busy DEF FetchAndCachePartnerKeys, Fresh, CallFresh
    <2>2. /\ call'[c].step = AfterKeys[call[c].kind]
          /\ call'[c].ends = call[c].ends /\ call'[c].keys = published[call[c].peer]
          /\ UNCHANGED <<registry, published>>
          /\ \A d \in Calls : d # c => call'[d] = call[d]
      BY <1>5, <2>1 DEF FetchAndCachePartnerKeys, TypeOK, Call, tableVars
    <2>3. AfterKeys[call[c].kind] \in Saving
      BY <2>1 DEF AfterKeys, Kinds, Saving
    <2> QED
      BY <2>1, <2>2, <2>3, FreshStep DEF CallFresh, Saving
  <1>6. ASSUME NEW c \in Calls,
               FetchFails(c) \/ Refuse(c) \/ (End(c) /\ (PartnerAnswers(c) \/ Admit(c)))
        PROVE  Fresh'
    <2>1. End(c) /\ UNCHANGED <<registry, published>>
      BY <1>6 DEF FetchFails, Refuse, PartnerAnswers, Admit, tableVars
    <2> QED
      BY <2>1, FreshEnd, FreshStep
  <1>7. ASSUME NEW c \in Calls, NEW s \in Saving, Goto(c, s), call[c].step \in Saving,
               UNCHANGED <<registry, published>>
        PROVE  Fresh'
    <2>1. /\ call'[c].step = s /\ call'[c].ends = call[c].ends
          /\ call'[c].keys = call[c].keys
          /\ \A d \in Calls : d # c => call'[d] = call[d]
      BY <1>7 DEF Goto, TypeOK, Call
    <2> QED
      BY <1>7, <2>1, FreshStep DEF Fresh, CallFresh, Saving
  <1>8. ASSUME NEW c \in Calls, Admit(c), ~End(c)
        PROVE  Fresh'
    <2>1. /\ call[c] \in Call /\ call[c].ends <= published[call[c].peer]
      BY <1>8, Busy, <1>0 DEF Admit, Fresh, CallFresh
    <2>2. /\ call'[c].step = "keys" /\ call'[c].ends = call[c].ends
          /\ call'[c].peer = call[c].peer /\ UNCHANGED <<registry, published>>
          /\ \A d \in Calls : d # c => call'[d] = call[d]
      BY <1>8, <2>1 DEF Admit, TypeOK, Call, tableVars
    <2> QED
      BY <2>1, <2>2, FreshStep DEF CallFresh, Saving
  <1>9. ASSUME NEW c \in Calls, Save(c)
        PROVE  Fresh'
    <2>1. /\ call[c].step \in Saving /\ End(c) /\ UNCHANGED published
      BY <1>9 DEF Save, Saving
    <2>2. /\ call[c].peer \in Peers /\ call[c].ends \in Nat /\ call[c].keys \in Nat
          /\ call[c].ends <= call[c].keys
      BY <1>0, <2>1, Busy DEF Saving, Fresh, CallFresh
    <2>3. KeysNotOlderThanEndpoints'
      BY <1>0, <1>9, <2>2, SaveFacts DEF KeysNotOlderThanEndpoints, Fresh, Exists
    <2>4. \A d \in Calls : CallFresh(d)'
      BY <2>1, FreshEnd DEF Fresh, CallFresh
    <2> QED
      BY <2>3, <2>4 DEF Fresh
  <1>10. ASSUME NEW id, DeletePartner(id)
         PROVE  Fresh'
    <2>1. UNCHANGED <<published, call>> /\ registry' = DeleteByDBID(registry, id)
      BY <1>10 DEF DeletePartner
    <2> QED
      BY <1>0, <2>1, DeletedFacts DEF Fresh, CallFresh, KeysNotOlderThanEndpoints, Exists
  <1>11. ASSUME NEW p \in Peers, Republish(p)
         PROVE  Fresh'
    <2>1. /\ UNCHANGED <<registry, call>>
          /\ \A q \in Peers : published'[q] \in Nat /\ published[q] <= published'[q]
      BY <1>11 DEF Republish, TypeOK, tableVars
    <2>2. ASSUME NEW c \in Calls
          PROVE  CallFresh(c)'
      <3>1. CASE call[c].step \in {"keys", "validate"}
        <4>1. call[c].ends \in Nat /\ call[c].peer \in Peers
          BY <1>0, <3>1, Busy
        <4>2. published[call[c].peer] \in Nat
          BY <4>1 DEF TypeOK
        <4> QED
          BY <2>1, <3>1, <4>1, <4>2 DEF Fresh, CallFresh, Saving
      <3> QED
        BY <2>1, <3>1 DEF Fresh, CallFresh
    <2> QED
      BY <2>1, <2>2 DEF Fresh, KeysNotOlderThanEndpoints
  <1>12. CASE Crash
    <2>1. UNCHANGED <<registry, published>> /\ \A c \in Calls : call'[c] = IdleCall
      BY <1>12 DEF Crash, tableVars
    <2> QED
      BY <2>1 DEF Fresh, CallFresh, KeysNotOlderThanEndpoints, Saving, IdleCall
  <1>13. ASSUME NEW c \in Calls, GenerateToken(c) \/ LookUp(c) \/ PartnerAnswers(c)
         PROVE  Fresh'
    <2>1. CASE GenerateToken(c)
      BY <2>1, <1>7 DEF GenerateToken, Saving, tableVars
    <2>2. CASE LookUp(c)
      BY <2>2, <1>7 DEF LookUp, Saving, tableVars
    <2>3. CASE PartnerAnswers(c)
      BY <2>3, <1>6, <1>7 DEF PartnerAnswers, Saving, tableVars
    <2> QED
      BY <1>13, <2>1, <2>2, <2>3
  <1>14. CASE \E c \in Calls : Handler(c)
    BY <1>14, <1>4, <1>5, <1>6, <1>8, <1>9, <1>13 DEF Handler
  <1>15. CASE Beginnings
    BY <1>15, <1>2, <1>3 DEF Beginnings, Kinds
  <1>16. CASE ListPartners \/ CleanupExpiredTokens \/ Boot \/ \E t \in Tokens : Expire(t)
    BY <1>16, <1>1 DEF ListPartners, CleanupExpiredTokens, Boot, Expire, tableVars
  <1>17. CASE UNCHANGED vars
    BY <1>17, <1>1 DEF vars, tableVars
  <1> QED
    BY <1>10, <1>11, <1>12, <1>14, <1>15, <1>16, <1>17 DEF Next, Operator

\* However discoveries, registrations and handshakes of one partner overlap, and
\* whichever of them is the last to write, no row has keys older than its endpoints.
THEOREM RowsAreFresh == Spec => []KeysNotOlderThanEndpoints
  <1>1. Init => Fresh
    BY DEF Init, Fresh, CallFresh, KeysNotOlderThanEndpoints, EmptyRegistry, Exists,
           IdleCall, Saving
  <1>2. Fresh => KeysNotOlderThanEndpoints
    BY DEF Fresh
  <1> QED
    BY <1>1, <1>2, FreshNext, Typed, PTL DEF Spec

-----------------------------------------------------------------------------
(***************************************************************************)
(* Row ids.  They are handed out in order, one to a row, so one that a     *)
(* page shows was handed out before and is never handed out again.         *)
(***************************************************************************)
IdsInOrder ==
    /\ \A p \in Peers : Exists(registry, p) => registry[p].id <= lastId
    /\ \A p, q \in Peers :
          Exists(registry, p) /\ Exists(registry, q) /\ registry[p].id = registry[q].id => p = q
    /\ \A entry \in shown :
          /\ entry[2] <= lastId
          /\ \A p \in Peers :
                Exists(registry, p) /\ registry[p].id = entry[2] => p = entry[1]

\* Writing a row under the next id, or under the one it has, keeps them in order.
LEMMA IdsOfSave ==
    ASSUME TypeOK, IdsInOrder, NEW c \in Calls, Save(c)
    PROVE  IdsInOrder'
  <1>1. /\ registry \in Registries /\ lastId \in Nat
        /\ call[c].peer \in Peers /\ call[c].ends \in Nat /\ call[c].keys \in Nat
    BY Busy DEF Save, TypeOK, CallsTyped, Registries
  <1>2. /\ registry' \in Registries /\ lastId' \in Nat /\ lastId <= lastId'
        /\ \A p \in Peers :
              \/ registry'[p] = registry[p]
              \/ /\ p = call[c].peer
                 /\ \/ registry'[p].id = lastId' /\ lastId' = lastId + 1
                    \/ Exists(registry, p) /\ registry'[p].id = registry[p].id
    BY <1>1, SaveFacts
  <1>3. \A p \in Peers :
            /\ Exists(registry, p) => registry[p].id \in Nat
            /\ Exists(registry', p) => registry'[p].id \in Nat
    BY <1>1, <1>2 DEF Registries, Exists, Row
  <1>4. ASSUME NEW p \in Peers, Exists(registry', p)
        PROVE  \/ Exists(registry, p) /\ registry'[p].id = registry[p].id
               \/ p = call[c].peer /\ registry'[p].id = lastId' /\ lastId' = lastId + 1
    BY <1>2, <1>4 DEF Exists
  <1>5. UNCHANGED shown /\ \A entry \in shown : entry[2] \in Nat
    BY DEF Save, TypeOK
  <1>6. \A p \in Peers : Exists(registry', p) => registry'[p].id <= lastId'
    BY <1>1, <1>2, <1>3, <1>4 DEF IdsInOrder
  <1>7. ASSUME NEW p \in Peers, NEW q \in Peers, Exists(registry', p), Exists(registry', q),
               registry'[p].id = registry'[q].id
        PROVE  p = q
    BY <1>1, <1>3, <1>4, <1>7 DEF IdsInOrder
  <1>8. ASSUME NEW entry \in shown
        PROVE  /\ entry[2] <= lastId'
               /\ \A p \in Peers :
                     Exists(registry', p) /\ registry'[p].id = entry[2] => p = entry[1]
    BY <1>1, <1>2, <1>3, <1>4, <1>5 DEF IdsInOrder
  <1> QED
    BY <1>5, <1>6, <1>7, <1>8 DEF IdsInOrder

LEMMA IdsNext == TypeOK /\ IdsInOrder /\ [Next]_vars => IdsInOrder'
  <1> SUFFICES ASSUME TypeOK, IdsInOrder, [Next]_vars PROVE IdsInOrder'
    OBVIOUS
  <1>1. CASE UNCHANGED <<registry, lastId, shown>>
    BY <1>1 DEF IdsInOrder
  <1>2. CASE ListPartners
    <2>1. PICK entry \in List(registry) : shown' = {entry}
      BY <1>2 DEF ListPartners
    <2>2. PICK p \in Peers : Exists(registry, p) /\ entry = <<p, registry[p].id>>
      BY <2>1 DEF List
    <2>3. UNCHANGED <<registry, lastId>>
      BY <1>2 DEF ListPartners, tableVars
    <2> QED
      BY <2>1, <2>2, <2>3 DEF IdsInOrder
  <1>3. ASSUME NEW id, DeletePartner(id)
        PROVE  IdsInOrder'
    <2>1. UNCHANGED <<lastId, shown>> /\ registry' = DeleteByDBID(registry, id)
      BY <1>3 DEF DeletePartner
    <2>2. \A q \in Peers : registry'[q] = registry[q] \/ registry'[q] = NoRow
      BY <2>1, DeletedFacts DEF TypeOK, Registries
    <2> QED
      BY <2>1, <2>2 DEF IdsInOrder, Exists
  <1> QED
    BY <1>1, <1>2, <1>3, IdsOfSave
    DEF Next, Beginnings, Handler, Operator, Start, Register, Begin, FetchAS5Config,
        FetchAndCachePartnerKeys, FetchFails, GenerateToken, PartnerAnswers, Admit, Refuse,
        CleanupExpiredTokens, LookUp, Crash, Boot, Expire, Republish, vars, tableVars

\* A settings page of any age names the right partner or none.
THEOREM OldPagesAreHarmless == Spec => []ShownIdsStayTrue
  <1>1. Init => IdsInOrder
    BY DEF Init, IdsInOrder, EmptyRegistry, Exists
  <1>2. IdsInOrder => ShownIdsStayTrue
    BY DEF IdsInOrder, ShownIdsStayTrue, WithId
  <1> QED
    BY <1>1, <1>2, IdsNext, Typed, PTL DEF Spec

-----------------------------------------------------------------------------
(***************************************************************************)
(* Handshakes.  The only statement one comes to is the INSERT, and it is   *)
(* refused for no other reason than that the row is there.                 *)
(***************************************************************************)
HandshakeSteps == {"config", "keys", "token", "posted", "create"}

Kept ==
    /\ AcceptedHandshakesAreKept
    /\ \A c \in Calls : call[c].kind = "initiate" => call[c].step \in HandshakeSteps

LEMMA HandshakesNext ==
    TypeOK /\ Kept /\ [Next]_vars
        => \A c \in Calls : call'[c].kind = "initiate" => call'[c].step \in HandshakeSteps
  <1> SUFFICES ASSUME TypeOK, Kept, [Next]_vars
      PROVE  \A c \in Calls : call'[c].kind = "initiate" => call'[c].step \in HandshakeSteps
    OBVIOUS
  <1> DEFINE Good == \A c \in Calls : call'[c].kind = "initiate" => call'[c].step \in HandshakeSteps
  <1>1. CASE UNCHANGED call
    BY <1>1 DEF Kept
  <1>2. ASSUME NEW c \in Calls, End(c)
        PROVE  Good
    BY <1>2 DEF End, Kept, IdleCall, TypeOK
  <1>3. ASSUME NEW c \in Calls, NEW k, call' = [call EXCEPT ![c] = k],
               k.kind = "initiate" => k.step \in HandshakeSteps
        PROVE  Good
    BY <1>3 DEF Kept, TypeOK
  <1>4. ASSUME NEW c \in Calls, NEW p \in Peers, NEW kind, Start(c, kind, p)
        PROVE  Good
    BY <1>4, <1>3 DEF Start, Begin, IdleCall, HandshakeSteps
  <1>5. ASSUME NEW c \in Calls, NEW p \in Peers, NEW t, Register(c, p, t)
        PROVE  Good
    BY <1>5, <1>3 DEF Register, Begin, IdleCall
  <1>6. ASSUME NEW c \in Calls, FetchAS5Config(c) \/ (Admit(c) /\ ~End(c))
        PROVE  Good
    <2>1. \A d \in Calls : /\ call'[d].step = call[d].step \/ call'[d].step = "keys"
                          /\ call'[d].kind = call[d].kind
      BY <1>6 DEF FetchAS5Config, Admit, TypeOK, Call
    <2> QED
      BY <2>1 DEF Kept, HandshakeSteps
  <1>7. ASSUME NEW c \in Calls, FetchAndCachePartnerKeys(c)
        PROVE  Good
    <2>1. call[c] \in Call
      BY DEF TypeOK
    <2>2. /\ call'[c].step = AfterKeys[call[c].kind] /\ call'[c].kind = call[c].kind
          /\ \A d \in Calls : d # c => call'[d] = call[d]
      BY <1>7, <2>1 DEF FetchAndCachePartnerKeys, TypeOK, Call
    <2> QED
      BY <2>2 DEF Kept, HandshakeSteps, AfterKeys
  <1>8. ASSUME NEW c \in Calls, GenerateToken(c) \/ PartnerAnswers(c) \/ LookUp(c)
        PROVE  Good
    <2>1. CASE End(c)
      BY <2>1, <1>2
    <2>2. CASE ~End(c)
      <3>1. /\ \A d \in Calls : d # c => call'[d] = call[d]
            /\ call'[c].kind = call[c].kind
            /\ \/ call[c].step = "look"
               \/ call'[c].step \in HandshakeSteps
        BY <1>8, <2>2 DEF GenerateToken, PartnerAnswers, LookUp, Goto, TypeOK, Call,
                          HandshakeSteps
      <3> QED
        BY <3>1 DEF Kept, HandshakeSteps
    <2> QED
      BY <2>1, <2>2
  <1>9. CASE Crash
    BY <1>9 DEF Crash, IdleCall
  <1> QED
    BY <1>1, <1>2, <1>4, <1>5, <1>6, <1>7, <1>8, <1>9
    DEF Next, Beginnings, Handler, Operator, FetchFails, Refuse, CleanupExpiredTokens,
        Save, ListPartners, DeletePartner, Boot, Expire, Republish, vars

LEMMA KeptNext == TypeOK /\ Kept /\ [Next]_vars => Kept'
  <1> SUFFICES ASSUME TypeOK, Kept, [Next]_vars PROVE AcceptedHandshakesAreKept'
    BY HandshakesNext DEF Kept
  <1>1. CASE UNCHANGED <<registry, accepted>>
    BY <1>1 DEF Kept, AcceptedHandshakesAreKept
  <1>2. ASSUME NEW c \in Calls, Save(c)
        PROVE  AcceptedHandshakesAreKept'
    <2> DEFINE p == call[c].peer
    <2>1. /\ registry \in Registries /\ lastId \in Nat
          /\ call[c].peer \in Peers /\ call[c].ends \in Nat /\ call[c].keys \in Nat
      BY <1>2, Busy DEF Save, TypeOK, CallsTyped, Registries
    <2>2. \A q \in Peers : Exists(registry, q) => Exists(registry', q)
      BY <1>2, <2>1, SaveFacts
    <2>3. CASE accepted' = accepted
      BY <2>2, <2>3 DEF Kept, AcceptedHandshakesAreKept, TypeOK
    <2>4. CASE call[c].kind = "initiate" /\ faults' = faults /\ accepted' = accepted \cup {p}
      <3>1. faults \in Nat
        BY DEF TypeOK
      <3>2. Create(p, call[c].ends, call[c].keys)
        BY <1>2, <2>4, <3>1 DEF Save, Kept, HandshakeSteps, DbFails
      <3>3. Exists(registry', p)
        BY <2>1, <3>2, CreateFacts
      <3> QED
        BY <2>2, <2>4, <3>3 DEF Kept, AcceptedHandshakesAreKept, TypeOK
    <2> QED
      BY <1>2, <2>3, <2>4 DEF Save
  <1>3. ASSUME NEW id, DeletePartner(id)
        PROVE  AcceptedHandshakesAreKept'
    <2>1. \A q \in Peers : q \notin WithId(registry, id) => registry'[q] = registry[q]
      BY <1>3, DeletedFacts DEF DeletePartner, TypeOK, Registries
    <2> QED
      BY <1>3, <2>1 DEF DeletePartner, Kept, AcceptedHandshakesAreKept, TypeOK, Exists
  <1> QED
    BY <1>1, <1>2, <1>3
    DEF Next, Beginnings, Handler, Operator, Start, Register, Begin, FetchAS5Config,
        FetchAndCachePartnerKeys, FetchFails, GenerateToken, PartnerAnswers, Admit, Refuse,
        CleanupExpiredTokens, LookUp, ListPartners, Crash, Boot, Expire, Republish, vars,
        tableVars, historyVars

\* Whatever a handshake met on its way, once it has ended without a failed statement
\* the partner that accepted it is in the registry until an operator removes it.
THEOREM HandshakesAreKept == Spec => []AcceptedHandshakesAreKept
  <1>1. Init => Kept
    BY DEF Init, Kept, AcceptedHandshakesAreKept, IdleCall
  <1>2. Kept => AcceptedHandshakesAreKept
    BY DEF Kept
  <1> QED
    BY <1>1, <1>2, KeptNext, Typed, PTL DEF Spec
=============================================================================
