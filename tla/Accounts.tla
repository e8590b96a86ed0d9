------------------------------- MODULE Accounts -------------------------------
(***************************************************************************)
(* The users and sessions tables and the handlers that write them: login   *)
(* and deletion of a user are two statements each, with other requests, or *)
(* the end of the process, in between.  The sessions' foreign key is only  *)
(* looked after by connections on which PRAGMA foreign_keys was run, one   *)
(* of those in the pool: which one a statement gets is anybody's guess.    *)
(* Failed logins, and failed statements that change nothing, are left out. *)
(***************************************************************************)
EXTENDS NodeBoot, FiniteSets

CONSTANTS
    Names,       \* usernames
    Admin,       \* the one InitializeDefaultUser gives
    SessionIds,  \* session ids, drawn at random and never drawn again
    Logins,      \* logins in progress at a time
    NoUser, NoSession,
    MaxUsers     \* bound on the users ever created

User    == [id : Nat \ {0}, born : Nat \ {0}]
Session == [user : Nat \ {0}, born : Nat \ {0}, expired : BOOLEAN]

ASSUME AdminAssumption     == Admin \in Names
ASSUME NoUserAssumption    == NoUser \notin User
ASSUME NoSessionAssumption == NoSession \notin Session
ASSUME MaxUsersAssumption  == MaxUsers \in Nat

VARIABLES
    users,       \* the users table
    lastUser,    \* how many users there have been, the table's sequence
    session,     \* the sessions table
    login,       \* the user a login has verified and not yet made a session for
    deleting,    \* ids whose row is deleted and whose sessions are next
    loose        \* history: ids whose deletion ended with a login still under way,
                 \* or without having got to the sessions

accountVars == <<users, lastUser, session, login, deleting, loose>>
requestVars == <<login, deleting>>

AccountsInit ==
    /\ users = [n \in Names |-> NoUser] /\ lastUser = 0
    /\ session = [s \in SessionIds |-> NoSession]
    /\ login = [l \in Logins |-> NoUser]
    /\ deleting = {} /\ loose = {}

Present == {n \in Names : users[n] # NoUser}
UserIds == {users[n].id : n \in Present}
Open    == {s \in SessionIds : session[s] # NoSession}
PendingIds == {login[l].id : l \in {k \in Logins : login[k] # NoUser}}

AccountsTypeOK ==
    /\ users \in [Names -> User \cup {NoUser}] /\ lastUser \in Nat
    /\ session \in [SessionIds -> Session \cup {NoSession}]
    /\ login \in [Logins -> User \cup {NoUser}]
    /\ deleting \subseteq 1 .. lastUser /\ loose \subseteq 1 .. lastUser
    /\ PendingIds \cup UserIds \subseteq 1 .. lastUser
-----------------------------------------------------------------------------
\* Mutant of NextUserId: INTEGER PRIMARY KEY without AUTOINCREMENT, max(rowid) + 1.
HighestUserPlusOne ==
    1 + CHOOSE i \in UserIds \cup {0} : \A j \in UserIds : j <= i

\* Mutant of NextUserId: the sequence's value is used and then advanced.
LastUserId == lastUser

\* AUTOINCREMENT.
NextUserId == lastUser + 1

\* CreateUser of the service and INSERT INTO users: the name must be free.
CreateUser(n) ==
    /\ users[n] = NoUser
    /\ lastUser' = lastUser + 1
    /\ users' = [users EXCEPT ![n] = [id |-> NextUserId, born |-> lastUser']]
    /\ UNCHANGED <<session, requestVars, loose>>

CreateUserHandler(n) == DbOk /\ lastUser < MaxUsers /\ CreateUser(n)

\* InitializeDefaultUser.
CountUsers ==
    /\ Passes("count", IF Present = {} THEN "admin" ELSE "serving")
    /\ UNCHANGED accountVars

DefaultUser == Passes("admin", "serving") /\ CreateUser(Admin)
-----------------------------------------------------------------------------
\* loginHandler as far as VerifyPassword, which takes its time.
VerifyLogin(l, n) ==
    /\ DbOk /\ login[l] = NoUser /\ n \in Present
    /\ login' = [login EXCEPT ![l] = users[n]]
    /\ UNCHANGED <<users, lastUser, session, deleting, loose>>

NewSession(u) == [user |-> u.id, born |-> u.born, expired |-> FALSE]

\* CreateSession; the foreign key, if it is looked after, wants the user there.
CreateSession(l) ==
    /\ login[l] # NoUser
    /\ \/ /\ DbOk
          /\ \E free \in SessionIds \ Open : session' =
                [session EXCEPT ![free] = NewSession(login[l])]
       \/ DbOk /\ login[l].id \notin UserIds /\ UNCHANGED session
       \/ DbFails /\ UNCHANGED session
    /\ login' = [login EXCEPT ![l] = NoUser]
    /\ UNCHANGED <<users, lastUser, deleting, loose>>

Without(S) == [s \in SessionIds |-> IF s \in S THEN NoSession ELSE session[s]]

SessionsOf(id) == {s \in Open : session[s].user = id}

LogoutHandler(s) ==
    /\ DbOk /\ s \in Open
    /\ session' = Without({s})
    /\ UNCHANGED <<users, lastUser, requestVars, loose>>

Expired == {s \in Open : session[s].expired}

\* 24 hours pass.
SessionExpires(s) ==
    /\ s \in Open \ Expired
    /\ session' = [session EXCEPT ![s].expired = TRUE]
    /\ UNCHANGED <<users, lastUser, requestVars, loose, bootVars>>

CleanupExpiredSessions ==
    /\ DbOk /\ Expired # {}
    /\ session' = Without(Expired)
    /\ UNCHANGED <<users, lastUser, requestVars, loose>>
-----------------------------------------------------------------------------
WithoutUser(id) ==
    [n \in Names |-> IF n \in Present /\ users[n].id = id THEN NoUser ELSE users[n]]

\* Mutant of DeleteUser: the row is deleted and its sessions are left to the
\* foreign key's ON DELETE CASCADE.
DeleteUserOnly(id) ==
    /\ DbOk /\ id \in UserIds
    /\ users' = WithoutUser(id)
    /\ session' = session \/ session' = Without(SessionsOf(id))
    /\ UNCHANGED <<lastUser, requestVars, loose>>

\* deleteUserHandler's first statement, with or without ON DELETE CASCADE.
DeleteUser(id) ==
    /\ DbOk /\ id \in UserIds
    /\ users' = WithoutUser(id)
    /\ session' = session \/ session' = Without(SessionsOf(id))
    /\ deleting' = deleting \cup {id}
    /\ UNCHANGED <<lastUser, login, loose>>

\* Its second, "best-effort".
DeleteByUserID(id) ==
    /\ id \in deleting
    /\ deleting' = deleting \ {id}
    /\ \/ /\ DbOk /\ session' = Without(SessionsOf(id))
          /\ loose' = loose \cup (PendingIds \cap {id})
       \/ /\ DbFails /\ UNCHANGED session
          /\ loose' = loose \cup {id}
    /\ UNCHANGED <<users, lastUser, login>>

\* The process ends with its requests.
RequestsEnd ==
    /\ login' = [l \in Logins |-> NoUser] /\ deleting' = {}
    /\ loose' = loose \cup deleting
    /\ UNCHANGED <<users, lastUser, session>>

AccountHandler ==
    \/ \E n \in Names : CreateUserHandler(n) \/ \E l \in Logins : VerifyLogin(l, n)
    \/ \E l \in Logins : CreateSession(l)
    \/ \E s \in SessionIds : LogoutHandler(s) \/ SessionExpires(s)
    \/ \E id \in 1 .. lastUser : DeleteUser(id) \/ DeleteByUserID(id)
    \/ CleanupExpiredSessions
-----------------------------------------------------------------------------
\* A session is never another user's than the one who logged in: not after the
\* user was deleted, and not when a user of the same name, or the default user of
\* a later start, has been created since.
SessionsStayWithTheirUser ==
    \A s \in Open, n \in Present :
        users[n].id = session[s].user => users[n].born = session[s].born

\* Once a deletion is over, no session of its user is left, whether ON DELETE
\* CASCADE was at work or not: unless a login was under way all through it, or its
\* second statement failed or was cut off.
OrphansOnlyByRace ==
    \A s \in Open : session[s].user \in UserIds \cup deleting \cup loose
=============================================================================
