\* Two users, three requests at a time; handlers may stop half-way.
SPECIFICATION Spec
CONSTANTS
    Users = {u1, u2}
    Sessions = {s1, s2, s3}
    Requests = {r1, r2, r3}
    NoUser = NoUser
    NoSession = NoSession
    CrashesHappen = TRUE
SYMMETRY Symmetry
INVARIANTS
    SessionInv
    ReplacedSessionIsClosed
    AlarmClosesEarlierSessions
PROPERTIES
    SpentTokenStaysSpent
    RegistrySpec
CHECK_DEADLOCK FALSE
