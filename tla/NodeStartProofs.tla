---------------------------- MODULE NodeStartProofs ----------------------------
(***************************************************************************)
(* Theorems about NodeStart for every set of messages, names, sessions and *)
(* logins, and any number of crashes, failed statements and starts.  The   *)
(* two components write different tables and meet only in the phase.       *)
(***************************************************************************)
EXTENDS NodeStart, TLAPS

USE FaultsAssumption, PayloadsAssumption, ExplicitAssumption, NoEntryAssumption,
    AdminAssumption, NoUserAssumption, NoSessionAssumption, MaxUsersAssumption

-----------------------------------------------------------------------------
(***************************************************************************)
(* How far main has come.                                                  *)
(***************************************************************************)
LEMMA PhaseNext == BootTypeOK /\ [Next]_vars => BootTypeOK'
  <1> SUFFICES ASSUME BootTypeOK, [Next]_vars PROVE BootTypeOK'
    OBVIOUS
  <1>1. ASSUME NEW at, NEW next \in Phases, Passes(at, next)
        PROVE  BootTypeOK'
    BY <1>1 DEF Passes, BootTypeOK
  <1>2. CASE UNCHANGED bootVars
    BY <1>2 DEF bootVars, BootTypeOK
  <1>3. CASE DbOk \/ DbFails
    BY <1>3 DEF DbOk, DbFails, Disturb, BootTypeOK, bootVars
  <1>4. CASE Migrate
    <2>1. CASE AlterTable /\ columns = "full"
      BY <2>1 DEF AlterTable, Aborts, BootTypeOK, Phases, Passes
    <2>2. \A next : next \in {"probe", "alter", "fromPayload", "fallback", "index", "count"} =>
              next \in Phases
      BY DEF Phases
    <2> QED
      BY <1>1, <1>4, <2>1, <2>2
      DEF Migrate, InitSchema, MigrateMessagesJobType, ProbeColumn, AlterTable,
          BackfillFromPayload, BackfillDefault, CreateIndex
  <1>5. CASE InitializeDefaultUser
    <2>1. "admin" \in Phases /\ "serving" \in Phases
      BY DEF Phases
    <2> QED
      BY <1>1, <1>5, <2>1 DEF InitializeDefaultUser, CountUsers, DefaultUser
  <1>6. CASE Start \/ Die
    BY <1>6 DEF Start, Die, Disturb, BootTypeOK, Phases
  <1>7. CASE Messages
    BY <1>2, <1>3, <1>7 DEF Messages, EarlierRelease, Create
  <1>8. CASE AccountHandler
    BY <1>2, <1>3, <1>8
    DEF AccountHandler, CreateUserHandler, VerifyLogin, CreateSession, LogoutHandler,
        SessionExpires, DeleteUser, DeleteByUserID, CleanupExpiredSessions
  <1>9. CASE UNCHANGED vars
    BY <1>2, <1>9 DEF vars
  <1> QED
    BY <1>4, <1>5, <1>6, <1>7, <1>8, <1>9 DEF Next, BootStep

-----------------------------------------------------------------------------
(***************************************************************************)
(* The messages table.                                                     *)
(***************************************************************************)
LEMMA ParserFacts ==
    ASSUME NEW p \in Payloads
    PROVE  /\ JsonExtract(p) \in Jobs
           /\ Probe(p) \in JobNames \cup {""}
           /\ "process_outbound" \in JobNames /\ "" \notin JobNames /\ JobNames \subseteq Jobs
  BY DEF JsonExtract, Probe, Jobs, JobNames

LEMMA ResolveFacts ==
    ASSUME NEW p \in Payloads, NEW explicit \in Explicit \cup {""}
    PROVE  /\ ResolveJobType(explicit, p) \in JobNames
           /\ ResolveJobType("", p) = IF Probe(p) # "" THEN Probe(p) ELSE "process_outbound"
  BY ParserFacts DEF ResolveJobType

LEMMA SchemaNext == SchemaTypeOK /\ [Next]_vars => SchemaTypeOK'
  <1> SUFFICES ASSUME SchemaTypeOK, [Next]_vars PROVE SchemaTypeOK'
    OBVIOUS
  <1>1. CASE UNCHANGED schemaVars
    BY <1>1 DEF schemaVars, SchemaTypeOK
  <1>2. ASSUME NEW e \in Entries, NEW p \in Payloads, NEW job \in Jobs, NEW want \in JobNames,
               entries' = [entries EXCEPT ![e] = Entry(p, job, want)],
               columns' \in {"none", "old", "full"}, UNCHANGED indexed
        PROVE  SchemaTypeOK'
    <2>1. Entry(p, job, want) \in Row
      BY DEF Entry, Row
    <2> QED
      BY <1>2, <2>1 DEF SchemaTypeOK
  <1>3. CASE Messages
    <2>1. PICK e \in Entries, p \in Payloads :
              EarlierRelease(e, p) \/ \E explicit \in Explicit \cup {""} : Create(e, explicit, p)
      BY <1>3 DEF Messages
    <2>2. CASE EarlierRelease(e, p)
      <3>1. ResolveJobType("", p) \in JobNames /\ "" \in Jobs
        BY ResolveFacts DEF Jobs
      <3>2. columns' \in {"none", "old", "full"}
        BY <2>2 DEF EarlierRelease, SchemaTypeOK
      <3> QED
        BY <1>2, <2>2, <3>1, <3>2 DEF EarlierRelease
    <2>3. ASSUME NEW explicit \in Explicit \cup {""}, Create(e, explicit, p)
          PROVE  SchemaTypeOK'
      <3>1. ResolveJobType(explicit, p) \in JobNames /\ ResolveJobType(explicit, p) \in Jobs
        BY ResolveFacts, ParserFacts
      <3>2. columns' \in {"none", "old", "full"}
        BY <2>3 DEF Create, SchemaTypeOK
      <3> QED
        BY <1>2, <2>3, <3>1, <3>2 DEF Create
    <2> QED
      BY <2>1, <2>2, <2>3
  <1>4. ASSUME NEW S \in SUBSET Filled, NEW job \in [Payloads -> Jobs], Stamp(S, job),
               UNCHANGED <<columns, indexed>>
        PROVE  SchemaTypeOK'
    <2>1. ASSUME NEW e \in S
          PROVE  [entries[e] EXCEPT !.job = job[entries[e].payload]] \in Row
      <3>1. entries[e] \in Row
        BY DEF Filled, SchemaTypeOK
      <3> QED
        BY <3>1 DEF Row
    <2> QED
      BY <1>4, <2>1 DEF Stamp, SchemaTypeOK
  <1>5. CASE BackfillFromPayload
    <2>1. [payload \in Payloads |-> JsonExtract(payload)] \in [Payloads -> Jobs]
      BY ParserFacts
    <2> QED
      BY <1>4, <1>5, <2>1 DEF BackfillFromPayload, Unstamped
  <1>6. CASE BackfillDefault
    <2>1. [payload \in Payloads |-> "process_outbound"] \in [Payloads -> Jobs]
      BY DEF Jobs, JobNames
    <2>2. Unstamped \in SUBSET Filled
      BY DEF Unstamped
    <2> QED
      BY <1>4, <1>6, <2>1, <2>2 DEF BackfillDefault
  <1>7. CASE InitSchema \/ AlterTable \/ CreateIndex
    BY <1>7 DEF InitSchema, AlterTable, CreateIndex, SchemaTypeOK, schemaVars
  <1> QED
    BY <1>1, <1>3, <1>5, <1>6, <1>7
    DEF Next, BootStep, Start, Migrate, MigrateMessagesJobType, ProbeColumn,
        InitializeDefaultUser, Die, vars

\* A row carries the job it was inserted for, or the earlier release left it without
\* one; each UPDATE of the migration narrows down which rows those are.
RowStamped(e) ==
    /\ entries[e].job # ""
    /\ ReadAlike(entries[e].payload) => entries[e].job = entries[e].want

RowBlank(e) ==
    /\ entries[e].job = ""
    /\ entries[e].want = ResolveJobType("", entries[e].payload)

Stamps ==
    \A e \in Filled :
        /\ RowStamped(e) \/ RowBlank(e)
        /\ phase = "fallback" => RowStamped(e) \/ JsonExtract(entries[e].payload) = ""
        /\ phase \in {"index", "count", "admin", "serving"} => RowStamped(e)

LEMMA StampsNext ==
    SchemaTypeOK /\ BootTypeOK /\ Stamps /\ [Next]_vars => Stamps'
  <1> SUFFICES ASSUME SchemaTypeOK, BootTypeOK, Stamps, [Next]_vars PROVE Stamps'
    OBVIOUS
  <1> DEFINE Done  == {"index", "count", "admin", "serving"}
             Early == Phases \ (Done \cup {"fallback"})
  <1>1. ASSUME UNCHANGED entries,
               phase' = phase \/ phase' \in Early \/ (phase \in Done /\ phase' \in Done)
        PROVE  Stamps'
    BY <1>1 DEF Stamps, RowStamped, RowBlank, Filled
  <1>2. ASSUME NEW e \in Entries, NEW p \in Payloads, NEW job \in Jobs, NEW want \in JobNames,
               entries' = [entries EXCEPT ![e] = Entry(p, job, want)], phase' = phase,
               \/ phase \in Early /\ job = "" /\ want = ResolveJobType("", p)
               \/ job # "" /\ job = want
        PROVE  Stamps'
    <2>1. entries'[e] = Entry(p, job, want) /\ \A f \in Entries : f # e => entries'[f] = entries[f]
      BY <1>2 DEF SchemaTypeOK
    <2>2. /\ entries'[e].job = job /\ entries'[e].want = want /\ entries'[e].payload = p
      BY <2>1 DEF Entry
    <2>3. RowStamped(e)' \/ (phase \in Early /\ RowBlank(e)')
      BY <1>2, <2>2 DEF RowStamped, RowBlank
    <2>4. ASSUME NEW f \in Filled', f # e
          PROVE  f \in Filled /\ (RowStamped(f) <=> RowStamped(f)') /\ (RowBlank(f) <=> RowBlank(f)')
                 /\ entries'[f] = entries[f]
      BY <2>1, <2>4 DEF Filled, RowStamped, RowBlank
    <2> QED
      BY <1>2, <2>3, <2>4 DEF Stamps
  <1>3. CASE Messages
    <2>1. PICK e \in Entries, p \in Payloads :
              EarlierRelease(e, p) \/ \E explicit \in Explicit \cup {""} : Create(e, explicit, p)
      BY <1>3 DEF Messages
    <2>2. CASE EarlierRelease(e, p)
      <3>1. ResolveJobType("", p) \in JobNames /\ "" \in Jobs
        BY ResolveFacts DEF Jobs
      <3>2. /\ entries' = [entries EXCEPT ![e] = Entry(p, "", ResolveJobType("", p))]
            /\ phase' = phase /\ phase \in Early
        BY <2>2 DEF EarlierRelease, bootVars, Phases
      <3> QED
        BY <1>2, <3>1, <3>2
    <2>3. ASSUME NEW explicit \in Explicit \cup {""}, Create(e, explicit, p)
          PROVE  Stamps'
      <3> DEFINE job == ResolveJobType(explicit, p)
      <3>1. job \in JobNames /\ job \in Jobs /\ job # ""
        BY ResolveFacts, ParserFacts
      <3>2. entries' = [entries EXCEPT ![e] = Entry(p, job, job)] /\ phase' = phase
        BY <2>3 DEF Create, DbOk, bootVars
      <3> HIDE DEF job
      <3> QED
        BY <1>2, <3>1, <3>2
    <2> QED
      BY <2>1, <2>2, <2>3
  <1>4. CASE BackfillFromPayload
    <2> DEFINE S == {e \in Unstamped : JsonExtract(entries[e].payload) # ""}
    <2>1. /\ phase = "fromPayload" /\ phase' = "fallback"
          /\ entries' = [e \in Entries |->
                IF e \in S
                THEN [entries[e] EXCEPT !.job =
                        [payload \in Payloads |-> JsonExtract(payload)][entries[e].payload]]
                ELSE entries[e]]
      BY <1>4 DEF BackfillFromPayload, Passes, Stamp
    <2>2. ASSUME NEW e \in Filled'
          PROVE  (RowStamped(e) \/ RowBlank(e))' /\ (RowStamped(e)' \/ JsonExtract(entries'[e].payload) = "")
      <3>1. e \in Entries
        BY <2>2 DEF Filled
      <3>2. CASE e \in Unstamped /\ JsonExtract(entries[e].payload) # ""
        <4>1. /\ e \in Filled /\ entries[e].job = "" /\ entries[e] \in Row
              /\ entries[e].payload \in Payloads
          BY <3>2 DEF Unstamped, Filled, SchemaTypeOK, Row
        <4>2. entries[e].want = ResolveJobType("", entries[e].payload)
          BY <4>1 DEF Stamps, RowStamped, RowBlank
        <4>3. /\ entries'[e].job = JsonExtract(entries[e].payload)
              /\ entries'[e].payload = entries[e].payload /\ entries'[e].want = entries[e].want
          BY <2>1, <3>1, <3>2, <4>1 DEF Row
        <4> QED
          BY <3>2, <4>1, <4>2, <4>3, ResolveFacts DEF RowStamped, ReadAlike
      <3>3. CASE ~(e \in Unstamped /\ JsonExtract(entries[e].payload) # "")
        <4>1. entries'[e] = entries[e] /\ e \in Filled
          BY <2>1, <2>2, <3>1, <3>3 DEF Filled
        <4> QED
          BY <3>3, <4>1 DEF Stamps, RowStamped, RowBlank, Unstamped
      <3> QED
        BY <3>2, <3>3
    <2> QED
      BY <2>1, <2>2 DEF Stamps
  <1>5. CASE BackfillDefault
    <2>1. /\ phase = "fallback" /\ phase' = "index"
          /\ entries' = [e \in Entries |->
                IF e \in Unstamped
                THEN [entries[e] EXCEPT !.job =
                        [payload \in Payloads |-> "process_outbound"][entries[e].payload]]
                ELSE entries[e]]
      BY <1>5 DEF BackfillDefault, Passes, Stamp
    <2>2. ASSUME NEW e \in Filled'
          PROVE  RowStamped(e)'
      <3>1. e \in Entries
        BY <2>2 DEF Filled
      <3>2. CASE e \in Unstamped
        <4>1. /\ e \in Filled /\ entries[e].job = "" /\ entries[e] \in Row
              /\ entries[e].payload \in Payloads
          BY <3>2 DEF Unstamped, Filled, SchemaTypeOK, Row
        <4>2. /\ entries[e].want = ResolveJobType("", entries[e].payload)
              /\ JsonExtract(entries[e].payload) = ""
          BY <2>1, <4>1 DEF Stamps, RowStamped, RowBlank
        <4>3. /\ entries'[e].job = "process_outbound"
              /\ entries'[e].payload = entries[e].payload /\ entries'[e].want = entries[e].want
          BY <2>1, <3>1, <3>2, <4>1 DEF Row
        <4> QED
          BY <4>1, <4>2, <4>3, ResolveFacts DEF RowStamped, ReadAlike
      <3>3. CASE e \notin Unstamped
        <4>1. entries'[e] = entries[e] /\ e \in Filled
          BY <2>1, <2>2, <3>1, <3>3 DEF Filled
        <4> QED
          BY <3>3, <4>1 DEF Stamps, RowStamped, RowBlank, Unstamped
      <3> QED
        BY <3>2, <3>3
    <2> QED
      BY <2>1, <2>2 DEF Stamps, RowStamped
  <1>6. CASE InitSchema \/ ProbeColumn \/ AlterTable \/ CreateIndex
    <2>1. UNCHANGED entries /\ (phase' \in Early \/ (phase \in Done /\ phase' \in Done))
      BY <1>6
      DEF InitSchema, ProbeColumn, AlterTable, CreateIndex, Passes, Aborts, Phases, schemaVars
    <2> QED
      BY <1>1, <2>1
  <1>7. CASE InitializeDefaultUser
    <2>1. UNCHANGED entries /\ phase \in Done /\ phase' \in Done
      BY <1>7 DEF InitializeDefaultUser, CountUsers, DefaultUser, Passes, schemaVars
    <2> QED
      BY <1>1, <2>1
  <1>8. CASE Start \/ Die
    <2>1. UNCHANGED entries /\ phase' \in Early
      BY <1>8 DEF Start, Die, schemaVars, Phases
    <2> QED
      BY <1>1, <2>1
  <1>9. CASE AccountHandler /\ UNCHANGED schemaVars
    <2>1. UNCHANGED entries /\ phase' = phase
      BY <1>9
      DEF AccountHandler, CreateUserHandler, VerifyLogin, CreateSession, LogoutHandler,
          SessionExpires, DeleteUser, DeleteByUserID, CleanupExpiredSessions, DbOk, DbFails,
          bootVars, schemaVars
    <2> QED
      BY <1>1, <2>1
  <1>10. CASE UNCHANGED vars
    BY <1>1, <1>10 DEF vars, bootVars, schemaVars
  <1> QED
    BY <1>3, <1>4, <1>5, <1>6, <1>7, <1>8, <1>9, <1>10
    DEF Next, BootStep, Migrate, MigrateMessagesJobType

\* Whichever starts were cut off where, and whatever the earlier release inserted in
\* between, the worker never sees a row of another job than it was inserted for.
THEOREM RowsKeepTheirJobs == Spec => []JobsAreAsInserted
  <1>1. Init => SchemaTypeOK /\ BootTypeOK /\ Stamps
    <2> SUFFICES ASSUME Init PROVE SchemaTypeOK /\ BootTypeOK /\ Stamps
      OBVIOUS
    <2>1. BootTypeOK
      BY DEF Init, BootInit, BootTypeOK, Phases
    <2>2. SchemaTypeOK /\ Filled = {}
      BY DEF Init, SchemaInit, SchemaTypeOK, Filled
    <2> QED
      BY <2>1, <2>2 DEF Stamps
  <1>2. Stamps => JobsAreAsInserted
    BY DEF Stamps, JobsAreAsInserted, RowStamped, Dispatching
  <1> QED
    BY <1>1, <1>2, PhaseNext, SchemaNext, StampsNext, PTL DEF Spec

-----------------------------------------------------------------------------
(***************************************************************************)
(* Users and sessions.                                                     *)
(***************************************************************************)
\* Steps that leave the accounts alone.
LEMMA AccountsQuiet ==
    ASSUME [Next]_vars
    PROVE  \/ UNCHANGED accountVars
           \/ Die \/ DefaultUser \/ AccountHandler
  BY DEF Next, BootStep, Start, Migrate, InitializeDefaultUser, CountUsers, Messages, vars

LEMMA AccountsTyped == AccountsTypeOK /\ [Next]_vars => AccountsTypeOK'
  <1> SUFFICES ASSUME AccountsTypeOK, [Next]_vars PROVE AccountsTypeOK'
    OBVIOUS
  <1>0. /\ users \in [Names -> User \cup {NoUser}] /\ lastUser \in Nat
        /\ session \in [SessionIds -> Session \cup {NoSession}]
        /\ login \in [Logins -> User \cup {NoUser}]
        /\ deleting \subseteq 1 .. lastUser /\ loose \subseteq 1 .. lastUser
        /\ PendingIds \subseteq 1 .. lastUser /\ UserIds \subseteq 1 .. lastUser
    BY DEF AccountsTypeOK
  <1>1. CASE UNCHANGED accountVars
    BY <1>1 DEF accountVars, AccountsTypeOK, PendingIds, UserIds, Present
  <1>2. ASSUME NEW n \in Names, CreateUser(n)
        PROVE  AccountsTypeOK'
    <2> DEFINE u == [id |-> NextUserId, born |-> lastUser']
    <2>1. lastUser' = lastUser + 1 /\ u \in User /\ u.id = lastUser'
      BY <1>0, <1>2 DEF CreateUser, NextUserId, User
    <2>2. users' = [users EXCEPT ![n] = u]
      BY <1>2 DEF CreateUser
    <2> HIDE DEF u
    <2>3. users' \in [Names -> User \cup {NoUser}]
      BY <1>0, <2>1, <2>2
    <2>4. UserIds' \subseteq UserIds \cup {lastUser'}
      BY <1>0, <2>1, <2>2 DEF UserIds, Present
    <2>5. UNCHANGED <<session, login, deleting, loose>> /\ PendingIds' = PendingIds
      BY <1>2 DEF CreateUser, requestVars, PendingIds
    <2>6. 1 .. lastUser \subseteq 1 .. lastUser' /\ lastUser' \in 1 .. lastUser'
      BY <1>0, <2>1
    <2> QED
      BY <1>0, <2>1, <2>3, <2>4, <2>5, <2>6 DEF AccountsTypeOK
  <1>3. ASSUME UNCHANGED <<users, lastUser>>,
               session' \in [SessionIds -> Session \cup {NoSession}],
               login' \in [Logins -> User \cup {NoUser}],
               PendingIds' \subseteq PendingIds \cup UserIds,
               deleting' \subseteq 1 .. lastUser, loose' \subseteq 1 .. lastUser
        PROVE  AccountsTypeOK'
    BY <1>0, <1>3 DEF AccountsTypeOK, UserIds, Present
  <1>4. ASSUME NEW S, session' = Without(S)
        PROVE  session' \in [SessionIds -> Session \cup {NoSession}]
    BY <1>0, <1>4 DEF Without
  <1>5. login' = login => PendingIds' = PendingIds
    BY DEF PendingIds
  <1>6. ASSUME NEW l \in Logins, NEW n \in Names, VerifyLogin(l, n)
        PROVE  AccountsTypeOK'
    <2>1. users[n] \in User /\ users[n].id \in UserIds
      BY <1>0, <1>6 DEF VerifyLogin, Present, UserIds
    <2>2. login' = [login EXCEPT ![l] = users[n]]
      BY <1>6 DEF VerifyLogin
    <2>3. PendingIds' \subseteq PendingIds \cup UserIds
      BY <1>0, <2>1, <2>2 DEF PendingIds
    <2> QED
      BY <1>0, <1>3, <1>6, <2>1, <2>2, <2>3 DEF VerifyLogin
  <1>7. ASSUME NEW l \in Logins, CreateSession(l)
        PROVE  AccountsTypeOK'
    <2>1. login[l] \in User
      BY <1>0, <1>7 DEF CreateSession
    <2>2. NewSession(login[l]) \in Session
      BY <2>1 DEF NewSession, Session, User
    <2>3. session' \in [SessionIds -> Session \cup {NoSession}]
      BY <1>0, <1>7, <2>2 DEF CreateSession
    <2>4. login' = [login EXCEPT ![l] = NoUser]
      BY <1>7 DEF CreateSession
    <2>5. PendingIds' \subseteq PendingIds
      BY <1>0, <2>4 DEF PendingIds
    <2> QED
      BY <1>0, <1>3, <1>7, <2>3, <2>4, <2>5 DEF CreateSession
  <1>8. ASSUME NEW s \in SessionIds, LogoutHandler(s) \/ SessionExpires(s)
        PROVE  AccountsTypeOK'
    <2>1. CASE LogoutHandler(s)
      BY <1>0, <1>3, <1>4, <1>5, <2>1 DEF LogoutHandler, requestVars
    <2>2. CASE SessionExpires(s)
      <3>1. [session[s] EXCEPT !.expired = TRUE] \in Session
        BY <1>0, <2>2 DEF SessionExpires, Open, Session
      <3>2. session' \in [SessionIds -> Session \cup {NoSession}]
        BY <1>0, <2>2, <3>1 DEF SessionExpires
      <3> QED
        BY <1>0, <1>3, <1>5, <2>2, <3>2 DEF SessionExpires, requestVars
    <2> QED
      BY <1>8, <2>1, <2>2
  <1>9. CASE CleanupExpiredSessions
    BY <1>0, <1>3, <1>4, <1>5, <1>9 DEF CleanupExpiredSessions, requestVars
  <1>10. ASSUME NEW id \in 1 .. lastUser, DeleteUser(id)
         PROVE  AccountsTypeOK'
    <2>1. users' = WithoutUser(id)
      BY <1>10 DEF DeleteUser
    <2>2. users' \in [Names -> User \cup {NoUser}] /\ UserIds' \subseteq UserIds
      BY <1>0, <2>1 DEF WithoutUser, UserIds, Present
    <2>3. session' \in [SessionIds -> Session \cup {NoSession}]
      BY <1>0, <1>4, <1>10 DEF DeleteUser
    <2>4. /\ deleting' = deleting \cup {id} /\ UNCHANGED <<lastUser, login, loose>>
          /\ PendingIds' = PendingIds
      BY <1>5, <1>10 DEF DeleteUser
    <2> QED
      BY <1>0, <2>2, <2>3, <2>4 DEF AccountsTypeOK
  <1>11. ASSUME NEW id \in 1 .. lastUser, DeleteByUserID(id)
         PROVE  AccountsTypeOK'
    <2>1. session' \in [SessionIds -> Session \cup {NoSession}]
      BY <1>0, <1>4, <1>11 DEF DeleteByUserID
    <2>2. deleting' \subseteq 1 .. lastUser /\ loose' \subseteq 1 .. lastUser
      BY <1>0, <1>11 DEF DeleteByUserID
    <2>3. UNCHANGED <<users, lastUser, login>>
      BY <1>11 DEF DeleteByUserID
    <2> QED
      BY <1>0, <1>3, <1>5, <2>1, <2>2, <2>3
  <1>12. CASE Die
    <2>1. /\ login' = [l \in Logins |-> NoUser] /\ deleting' = {} /\ loose' = loose \cup deleting
          /\ UNCHANGED <<users, lastUser, session>>
      BY <1>12 DEF Die, RequestsEnd
    <2>2. PendingIds' = {}
      BY <2>1 DEF PendingIds
    <2> QED
      BY <1>0, <1>3, <2>1, <2>2
  <1>13. CASE DefaultUser
    BY <1>2, <1>13 DEF DefaultUser
  <1>14. CASE AccountHandler
    BY <1>2, <1>6, <1>7, <1>8, <1>9, <1>10, <1>11, <1>14
    DEF AccountHandler, CreateUserHandler
  <1> QED
    BY <1>1, <1>12, <1>13, <1>14, AccountsQuiet

\* Phases, tables, requests and history keep their types.
THEOREM TypeCorrect == Spec => []TypeOK
  <1>1. Init => TypeOK
    <2> SUFFICES ASSUME Init PROVE TypeOK
      OBVIOUS
    <2>1. BootTypeOK
      BY DEF Init, BootInit, BootTypeOK, Phases
    <2>2. SchemaTypeOK
      BY DEF Init, SchemaInit, SchemaTypeOK
    <2>3. PendingIds = {} /\ UserIds = {}
      BY DEF Init, AccountsInit, PendingIds, UserIds, Present
    <2>4. AccountsTypeOK
      BY <2>3 DEF Init, AccountsInit, AccountsTypeOK
    <2> QED
      BY <2>1, <2>2, <2>4 DEF TypeOK
  <1>2. TypeOK /\ [Next]_vars => TypeOK'
    BY PhaseNext, SchemaNext, AccountsTyped DEF TypeOK
  <1> QED
    BY <1>1, <1>2, PTL DEF Spec

-----------------------------------------------------------------------------
(***************************************************************************)
(* Whose a session is.  An id is given to one user ever, its number in the *)
(* order of births, and logins and sessions copy both.                     *)
(***************************************************************************)
Numbered ==
    /\ \A n \in Present : users[n].id = users[n].born
    /\ \A l \in Logins : login[l] # NoUser => login[l].id = login[l].born
    /\ \A s \in Open : session[s].user = session[s].born

LEMMA NumberedNext == AccountsTypeOK /\ Numbered /\ [Next]_vars => Numbered'
  <1> SUFFICES ASSUME AccountsTypeOK, Numbered, [Next]_vars PROVE Numbered'
    OBVIOUS
  <1>0. /\ users \in [Names -> User \cup {NoUser}] /\ lastUser \in Nat
        /\ session \in [SessionIds -> Session \cup {NoSession}]
        /\ login \in [Logins -> User \cup {NoUser}]
    BY DEF AccountsTypeOK
  <1>1. CASE UNCHANGED <<users, login, session>>
    BY <1>1 DEF Numbered, Present, Open
  <1>2. ASSUME NEW n \in Names, CreateUser(n)
        PROVE  Numbered'
    <2> DEFINE u == [id |-> NextUserId, born |-> lastUser']
    <2>1. u.id = u.born /\ users' = [users EXCEPT ![n] = u] /\ UNCHANGED <<login, session>>
      BY <1>2 DEF CreateUser, NextUserId, requestVars
    <2> HIDE DEF u
    <2> QED
      BY <1>0, <2>1 DEF Numbered, Present, Open
  <1>3. ASSUME UNCHANGED <<users, login>>, NEW S,
               session' = session \/ session' = Without(S)
        PROVE  Numbered'
    BY <1>0, <1>3 DEF Numbered, Present, Open, Without
  <1>4. ASSUME NEW l \in Logins, NEW n \in Names, VerifyLogin(l, n)
        PROVE  Numbered'
    BY <1>0, <1>4 DEF VerifyLogin, Numbered, Present, Open
  <1>5. ASSUME NEW l \in Logins, CreateSession(l)
        PROVE  Numbered'
    <2>1. NewSession(login[l]).user = NewSession(login[l]).born
      BY <1>5 DEF CreateSession, NewSession, Numbered
    <2>2. \A s \in SessionIds : session'[s] = session[s] \/ session'[s] = NewSession(login[l])
      BY <1>0, <1>5 DEF CreateSession
    <2>3. \A s \in Open' : session'[s].user = session'[s].born
      BY <2>1, <2>2 DEF Numbered, Open
    <2>4. UNCHANGED users /\ login' = [login EXCEPT ![l] = NoUser]
      BY <1>5 DEF CreateSession
    <2> QED
      BY <1>0, <2>3, <2>4 DEF Numbered, Present
  <1>6. ASSUME NEW s \in SessionIds, SessionExpires(s)
        PROVE  Numbered'
    <2>1. UNCHANGED <<users, login>>
      BY <1>6 DEF SessionExpires, requestVars
    <2>2. \A t \in Open' : /\ t \in Open /\ session'[t].user = session[t].user
                          /\ session'[t].born = session[t].born
      BY <1>0, <1>6 DEF SessionExpires, Open, Session
    <2> QED
      BY <2>1, <2>2 DEF Numbered, Present
  <1>7. ASSUME NEW id, DeleteUser(id)
        PROVE  Numbered'
    <2>1. UNCHANGED login /\ \A n \in Names : users'[n] = users[n] \/ users'[n] = NoUser
      BY <1>0, <1>7 DEF DeleteUser, WithoutUser
    <2>2. \A s \in SessionIds : session'[s] = session[s] \/ session'[s] = NoSession
      BY <1>0, <1>7 DEF DeleteUser, Without
    <2> QED
      BY <2>1, <2>2 DEF Numbered, Present, Open
  <1>8. CASE Die
    BY <1>8 DEF Die, RequestsEnd, Numbered, Present, Open
  <1>9. CASE AccountHandler
    BY <1>2, <1>3, <1>4, <1>5, <1>6, <1>7, <1>9
    DEF AccountHandler, CreateUserHandler, LogoutHandler, DeleteByUserID,
        CleanupExpiredSessions, requestVars
  <1>10. CASE DefaultUser
    BY <1>2, <1>10 DEF DefaultUser
  <1> QED
    BY <1>1, <1>8, <1>9, <1>10, AccountsQuiet DEF accountVars

\* No sequence of creations, deletions, logins and restarts hands a session to another
\* user than the one who logged in.
THEOREM SessionsKeepTheirUser == Spec => []SessionsStayWithTheirUser
  <1>1. Init => Numbered
    BY DEF Init, AccountsInit, Numbered, Present, Open
  <1>2. Numbered => SessionsStayWithTheirUser
    BY DEF Numbered, SessionsStayWithTheirUser
  <1>3. TypeOK => AccountsTypeOK
    BY DEF TypeOK
  <1> QED
    BY <1>1, <1>2, <1>3, NumberedNext, TypeCorrect, PTL DEF Spec

-----------------------------------------------------------------------------
(***************************************************************************)
(* What a deletion leaves behind.  A login that is under way may still     *)
(* make a session, so its user has to be accounted for as well.            *)
(***************************************************************************)
Accounted == UserIds \cup deleting \cup loose

NoOrphans ==
    /\ \A s \in Open : session[s].user \in Accounted
    /\ \A l \in Logins : login[l] # NoUser => login[l].id \in Accounted

LEMMA NoOrphansNext == AccountsTypeOK /\ NoOrphans /\ [Next]_vars => NoOrphans'
  <1> SUFFICES ASSUME AccountsTypeOK, NoOrphans, [Next]_vars PROVE NoOrphans'
    OBVIOUS
  <1>0. /\ users \in [Names -> User \cup {NoUser}]
        /\ session \in [SessionIds -> Session \cup {NoSession}]
        /\ login \in [Logins -> User \cup {NoUser}]
    BY DEF AccountsTypeOK
  <1>1. ASSUME UNCHANGED <<login, session>>, Accounted \subseteq Accounted'
        PROVE  NoOrphans'
    BY <1>1 DEF NoOrphans, Open
  <1>2. ASSUME UNCHANGED <<users, deleting, loose>>
        PROVE  Accounted' = Accounted
    BY <1>2 DEF Accounted, UserIds, Present
  <1>3. ASSUME NEW n \in Names, CreateUser(n)
        PROVE  NoOrphans'
    <2>1. UserIds \subseteq UserIds'
      BY <1>0, <1>3 DEF CreateUser, UserIds, Present
    <2> QED
      BY <1>1, <1>3, <2>1 DEF CreateUser, requestVars, Accounted
  <1>4. ASSUME UNCHANGED <<users, login, deleting, loose>>, NEW S, session' = Without(S)
        PROVE  NoOrphans'
    BY <1>0, <1>2, <1>4 DEF NoOrphans, Open, Without
  <1>5. ASSUME NEW l \in Logins, NEW n \in Names, VerifyLogin(l, n)
        PROVE  NoOrphans'
    <2>1. users[n].id \in Accounted
      BY <1>5 DEF VerifyLogin, Accounted, UserIds
    <2>2. \A k \in Logins : login'[k] = login[k] \/ login'[k] = users[n]
      BY <1>0, <1>5 DEF VerifyLogin
    <2> QED
      BY <1>2, <1>5, <2>1, <2>2 DEF VerifyLogin, NoOrphans, Open
  <1>6. ASSUME NEW l \in Logins, CreateSession(l)
        PROVE  NoOrphans'
    <2>1. login[l].id \in Accounted /\ NewSession(login[l]).user = login[l].id
      BY <1>6 DEF CreateSession, NewSession, NoOrphans
    <2>2. \A s \in SessionIds : session'[s] = session[s] \/ session'[s] = NewSession(login[l])
      BY <1>0, <1>6 DEF CreateSession
    <2>3. \A k \in Logins : login'[k] = login[k] \/ login'[k] = NoUser
      BY <1>0, <1>6 DEF CreateSession
    <2> QED
      BY <1>2, <1>6, <2>1, <2>2, <2>3 DEF CreateSession, NoOrphans, Open
  <1>7. ASSUME NEW s \in SessionIds, SessionExpires(s)
        PROVE  NoOrphans'
    <2>1. \A t \in Open' : t \in Open /\ session'[t].user = session[t].user
      BY <1>0, <1>7 DEF SessionExpires, Open, Session
    <2> QED
      BY <1>2, <1>7, <2>1 DEF SessionExpires, NoOrphans, requestVars
  <1>8. ASSUME NEW id, DeleteUser(id)
        PROVE  NoOrphans'
    <2>1. Accounted \subseteq Accounted'
      BY <1>0, <1>8 DEF DeleteUser, WithoutUser, Accounted, UserIds, Present
    <2>2. UNCHANGED login
      BY <1>8 DEF DeleteUser
    <2>3. \A s \in SessionIds : session'[s] = session[s] \/ session'[s] = NoSession
      BY <1>0, <1>8 DEF DeleteUser, Without
    <2> QED
      BY <2>1, <2>2, <2>3 DEF NoOrphans, Open
  <1>9. ASSUME NEW id, DeleteByUserID(id)
        PROVE  NoOrphans'
    <2>1. /\ UNCHANGED <<users, login>> /\ deleting' = deleting \ {id} /\ UserIds' = UserIds
      BY <1>9 DEF DeleteByUserID, UserIds, Present
    <2>2. CASE loose' = loose \cup {id} /\ UNCHANGED session
      BY <1>1, <2>1, <2>2 DEF Accounted
    <2>3. CASE session' = Without(SessionsOf(id)) /\ loose' = loose \cup (PendingIds \cap {id})
      <3>1. Accounted \subseteq Accounted' \cup {id}
        BY <2>1, <2>3 DEF Accounted
      <3>2. \A s \in Open' : s \in Open /\ session'[s] = session[s] /\ session[s].user # id
        BY <1>0, <2>3 DEF Without, SessionsOf, Open
      <3>3. \A l \in Logins : login[l] # NoUser /\ login[l].id = id => id \in Accounted'
        BY <2>3 DEF PendingIds, Accounted
      <3> QED
        BY <2>1, <3>1, <3>2, <3>3 DEF NoOrphans
    <2> QED
      BY <1>9, <2>2, <2>3 DEF DeleteByUserID
  <1>10. CASE Die
    <2>1. /\ Accounted \subseteq Accounted' /\ UNCHANGED session
          /\ \A l \in Logins : login'[l] = NoUser
      BY <1>10 DEF Die, RequestsEnd, Accounted, UserIds, Present
    <2> QED
      BY <2>1 DEF NoOrphans, Open
  <1>11. CASE AccountHandler
    BY <1>3, <1>4, <1>5, <1>6, <1>7, <1>8, <1>9, <1>11
    DEF AccountHandler, CreateUserHandler, LogoutHandler, CleanupExpiredSessions, requestVars
  <1>12. CASE DefaultUser
    BY <1>3, <1>12 DEF DefaultUser
  <1>13. CASE UNCHANGED accountVars
    BY <1>1, <1>2, <1>13 DEF accountVars
  <1> QED
    BY <1>10, <1>11, <1>12, <1>13, AccountsQuiet

\* The sessions of a deleted user go with the user, but for the three ways out that
\* loose records.
THEOREM DeletionsAreThorough == Spec => []OrphansOnlyByRace
  <1>1. Init => NoOrphans
    BY DEF Init, AccountsInit, NoOrphans, Open
  <1>2. NoOrphans => OrphansOnlyByRace
    BY DEF NoOrphans, OrphansOnlyByRace, Accounted
  <1>3. TypeOK => AccountsTypeOK
    BY DEF TypeOK
  <1> QED
    BY <1>1, <1>2, <1>3, NoOrphansNext, TypeCorrect, PTL DEF Spec
=============================================================================
