\* Two requests refresh with the same token, nothing fails.
SPECIFICATION Spec
CONSTANTS
    Users = {u1}
    Sessions = {s1, s2, s3}
    Requests = {r1, r2}
    NoUser = NoUser
    NoSession = NoSession
    CrashesHappen = FALSE

INVARIANTS
    TokenExchangedOnce
CHECK_DEADLOCK FALSE
