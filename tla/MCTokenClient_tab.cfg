\* One tab; responses are lost and the API stops half-way.
SPECIFICATION ClientSpec
CONSTANTS
    Users = {u1}
    Sessions = {s1, s2, s3}
    Requests = {r1, r2}
    Tabs = {t1}
    NoUser = NoUser
    NoSession = NoSession
    NoRequest = NoRequest
    CrashesHappen = TRUE
    MaxCalls = 1
SYMMETRY ClientSymmetry
INVARIANTS
    TokenExchangedOnce
    RotatedTokenNotPresented
    StoredTokenIsFresh
CHECK_DEADLOCK FALSE
