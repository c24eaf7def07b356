\* Two resets and one session request, the API does not stop.
SPECIFICATION FairResetSpec
CONSTANTS
    Users = {u1}
    Sessions = {s1, s2}
    Requests = {r1}
    Links = {l1}
    Jobs = {j1, j2}
    NoUser = NoUser
    NoSession = NoSession
    NoLink = NoLink
    CrashesHappen = FALSE
PROPERTIES
    ChangeEndsInLogout
    ReplayEndsInRevocation
CHECK_DEADLOCK FALSE
