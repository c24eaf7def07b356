\* A reset stops half-way.
SPECIFICATION ResetSpec
CONSTANTS
    Users = {u1}
    Sessions = {s1, s2}
    Requests = {r1}
    Links = {l1, l2}
    Jobs = {j1, j2}
    NoUser = NoUser
    NoSession = NoSession
    NoLink = NoLink
    CrashesHappen = TRUE
SYMMETRY ResetSymmetry
INVARIANTS
    ResetIsAtomic
CHECK_DEADLOCK FALSE
