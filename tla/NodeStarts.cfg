\* One message of each kind, two names, three users in all, two sessions.
SPECIFICATION FairSpec
CONSTANTS
    e1 = e1
    e2 = e2
    admin = admin
    bob = bob
    s1 = s1
    s2 = s2
    l1 = l1
    l2 = l2
    NoEntry = NoEntry
    NoUser = NoUser
    NoSession = NoSession
    Entries = {e1}
    Payloads = {"malformed", "silent", "process_outbound", "send_jmdn", "a number", "JOB_TYPE"}
    Explicit = {"process_outbound", "send_jmdn"}
    Names = {admin, bob}
    Admin = admin
    SessionIds = {s1, s2}
    Logins = {l1}
    MaxUsers = 3
    MaxFaults = 2
INVARIANTS
    TypeOK
    JobsAreAsInserted
    SessionsStayWithTheirUser
    OrphansOnlyByRace

    
\* With every bound used up a node that serves has nothing more to do.
CHECK_DEADLOCK FALSE
