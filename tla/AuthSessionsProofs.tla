-------------------------- MODULE AuthSessionsProofs --------------------------
(***************************************************************************)
(* Theorems about AuthSessions, for every set of users, sessions and       *)
(* requests, with or without crashes.  All of them come from SessionInv,   *)
(* which every step of every handler preserves.                            *)
(***************************************************************************)
EXTENDS AuthSessions, TLAPS

\* The initial state satisfies the invariant: no rows, no requests.
LEMMA InitSatisfiesInv == Init => SessionInv
  BY NoSessionAssumption
  DEF Init, SessionInv, TypeOK, RowsAreOwned, RequestsKnowTheirUser, RotatedIsClosed,
      ReplacedSessionIsClosed, AlarmClosesEarlierSessions, Request, Idle, Phases

\* A request that becomes idle, or starts reading without writing a row,
\* keeps the invariant when what it now claims to know is true.
LEMMA ReadKeepsInv ==
  ASSUME SessionInv, NEW r \in Requests, NEW q \in Request,
         req' = [req EXCEPT ![r] = q],
         UNCHANGED <<status, owner, parent, held>>,
         expired' \in SUBSET Sessions,
         q.pc = "login" => q.user \in Users,
         q.pc \notin {"idle", "login"} =>
            /\ q.sess \in Sessions
            /\ status[q.sess] # "none"
            /\ owner[q.sess] = q.user,
         \A s \in q.seen : status[s] # "none",
         q.pc \notin {"rotated", "alarmed"}
  PROVE  SessionInv'
<1>1. TypeOK'
  BY DEF SessionInv, TypeOK
<1>2. RowsAreOwned'
  BY DEF SessionInv, RowsAreOwned
<1>3. RequestsKnowTheirUser'
  BY DEF SessionInv, TypeOK, RequestsKnowTheirUser
<1>4. RotatedIsClosed'
  BY DEF SessionInv, TypeOK, RotatedIsClosed
<1>5. ReplacedSessionIsClosed'
  BY DEF SessionInv, ReplacedSessionIsClosed
<1>6. AlarmClosesEarlierSessions'
  BY DEF SessionInv, TypeOK, AlarmClosesEarlierSessions
<1>7. QED
  BY <1>1, <1>2, <1>3, <1>4, <1>5, <1>6 DEF SessionInv

\* Closing rows that exist keeps the invariant, whatever the request that
\* closes them records, as long as a rotation has closed its own session and
\* an alarm all those it had seen.
LEMMA CloseKeepsInv ==
  ASSUME SessionInv, NEW r \in Requests, NEW q \in Request, NEW S \in SUBSET Rows,
         Deactivate(S),
         req' = [req EXCEPT ![r] = q],
         UNCHANGED <<owner, parent, expired, held>>,
         q.pc # "login",
         q.pc # "idle" =>
            /\ q.sess \in Sessions
            /\ status[q.sess] # "none"
            /\ owner[q.sess] = q.user,
         \A s \in q.seen : status[s] # "none",
         q.pc = "rotated" => q.sess \in S,
         q.pc = "alarmed" =>
            \A s \in q.seen : owner[s] = q.user => status'[s] = "inactive"
  PROVE  SessionInv'
<1>1. TypeOK'
  BY DEF SessionInv, TypeOK, Deactivate
<1>2. \A s \in Sessions : status'[s] = "none" <=> status[s] = "none"
  BY DEF SessionInv, TypeOK, Deactivate, Rows
<1>3. \A s \in Sessions : status[s] = "inactive" => status'[s] = "inactive"
  BY DEF SessionInv, TypeOK, Deactivate
<1>4. RowsAreOwned'
  BY <1>2 DEF SessionInv, TypeOK, RowsAreOwned
<1>5. RequestsKnowTheirUser'
  <2>1. \A x \in Requests : req'[x].seen \in SUBSET Sessions
    BY <1>1 DEF TypeOK, Request
  <2>2. QED
    BY <1>2, <2>1 DEF SessionInv, TypeOK, Request, RequestsKnowTheirUser
<1>6. RotatedIsClosed'
  <2>1. SUFFICES ASSUME NEW x \in Requests, req'[x].pc = "rotated"
                 PROVE  status'[req'[x].sess] = "inactive"
    BY DEF RotatedIsClosed
  <2>2. CASE x = r
    BY <2>1, <2>2 DEF SessionInv, TypeOK, Deactivate
  <2>3. CASE x # r
    BY <1>3, <2>1, <2>3 DEF SessionInv, TypeOK, RotatedIsClosed, RequestsKnowTheirUser
  <2>4. QED
    BY <2>2, <2>3
<1>7. ReplacedSessionIsClosed'
  BY <1>3 DEF SessionInv, TypeOK, ReplacedSessionIsClosed
<1>8. AlarmClosesEarlierSessions'
  BY <1>3 DEF SessionInv, TypeOK, Request, AlarmClosesEarlierSessions
<1>9. QED
  BY <1>1, <1>4, <1>5, <1>6, <1>7, <1>8 DEF SessionInv

\* Creating a session keeps the invariant: its id was unknown to everyone,
\* so it was in no request's view, and the session it replaces is closed.
LEMMA IssueKeepsInv ==
  ASSUME SessionInv, NEW r \in Requests, NEW from \in Sessions \cup {NoSession},
         req[r].user \in Users,
         from # NoSession => status[from] = "inactive" /\ owner[from] = req[r].user,
         IssueTokensAndCreateSession(r, from)
  PROVE  SessionInv'
<1>1. PICK n \in Fresh :
         /\ status' = [status EXCEPT ![n] = "active"]
         /\ owner' = [owner EXCEPT ![n] = req[r].user]
         /\ parent' = [parent EXCEPT ![n] = from]
         /\ held' \in {held, held \cup {n}}
  BY DEF IssueTokensAndCreateSession
<1>2. /\ n \in Sessions /\ status[n] = "none" /\ n \notin held
      /\ req' = [req EXCEPT ![r] = Idle]
      /\ expired' = expired
      /\ Idle \in Request
  BY NoUserAssumption
  DEF Fresh, SessionInv, RowsAreOwned, IssueTokensAndCreateSession, Answer, Idle, Request, Phases
<1>3. TypeOK'
  BY <1>1, <1>2 DEF SessionInv, TypeOK
<1>4. RowsAreOwned'
  BY <1>1, <1>2 DEF SessionInv, TypeOK, RowsAreOwned
<1>5. \A x \in Requests : /\ n \notin req[x].seen
                          /\ req[x].pc \notin {"idle", "login"} => req[x].sess # n
  BY <1>2 DEF SessionInv, RequestsKnowTheirUser
<1>6. RequestsKnowTheirUser'
  BY <1>1, <1>2, <1>5 DEF SessionInv, TypeOK, Request, RequestsKnowTheirUser, Idle
<1>7. RotatedIsClosed'
  BY <1>1, <1>2, <1>5 DEF SessionInv, TypeOK, RequestsKnowTheirUser, RotatedIsClosed, Idle
<1>8. ReplacedSessionIsClosed'
  BY <1>1, <1>2, NoSessionAssumption DEF SessionInv, TypeOK, ReplacedSessionIsClosed
<1>9. AlarmClosesEarlierSessions'
  BY <1>1, <1>2, <1>5 DEF SessionInv, TypeOK, Request, AlarmClosesEarlierSessions, Idle
<1>10. QED
  BY <1>3, <1>4, <1>6, <1>7, <1>8, <1>9 DEF SessionInv

\* Every step of every handler, crashes and expiry included, keeps the
\* invariant.
LEMMA StepKeepsInv == SessionInv /\ [Next]_vars => SessionInv'
<1> SUFFICES ASSUME SessionInv, [Next]_vars PROVE SessionInv'
  OBVIOUS
<1>1. Idle \in Request /\ Idle.seen = {} /\ Idle.pc = "idle"
  BY DEF Idle, Request, Phases
<1>2. ASSUME NEW r \in Requests, NEW u \in Users, Login(r, u)
      PROVE  SessionInv'
  <2> DEFINE q == [Idle EXCEPT !.pc = "login", !.user = u]
  <2>1. q \in Request /\ q.pc = "login" /\ q.user = u /\ q.seen = {}
    BY DEF Idle, Request, Phases
  <2>2. req' = [req EXCEPT ![r] = q] /\ UNCHANGED <<status, owner, parent, held>>
        /\ expired' \in SUBSET Sessions
    BY <1>2 DEF Login, SessionInv, TypeOK
  <2> HIDE DEF q
  <2>3. QED
    BY <2>1, <2>2, ReadKeepsInv
<1>3. ASSUME NEW r \in Requests, LoginIssue(r)
      PROVE  SessionInv'
  <2>1. req[r].user \in Users
    BY <1>3 DEF LoginIssue, SessionInv, RequestsKnowTheirUser
  <2>2. QED
    BY <1>3, <2>1, IssueKeepsInv DEF LoginIssue
<1>4. ASSUME NEW r \in Requests, NEW s \in Sessions, RefreshRead(r, s)
      PROVE  SessionInv'
  <2> DEFINE q == [pc   |-> IF status[s] = "active" THEN "rotate" ELSE "theft",
                   user |-> owner[s], sess |-> s, seen |-> Rows]
  <2>1. status[s] # "none" /\ owner[s] \in Users
    BY <1>4 DEF RefreshRead, SessionInv, RowsAreOwned
  <2>2. /\ q \in Request
        /\ q.pc \in {"rotate", "theft"}
        /\ q.sess = s /\ q.user = owner[s]
        /\ \A x \in q.seen : status[x] # "none"
    BY <2>1 DEF Request, Phases, Rows
  <2>3. req' = [req EXCEPT ![r] = q] /\ UNCHANGED <<status, owner, parent, held>>
        /\ expired' \in SUBSET Sessions
    BY <1>4 DEF RefreshRead, SessionInv, TypeOK
  <2> HIDE DEF q
  <2>4. QED
    BY <2>1, <2>2, <2>3, ReadKeepsInv
<1>5. ASSUME NEW r \in Requests, Rotate(r)
      PROVE  SessionInv'
  <2> DEFINE q == [req[r] EXCEPT !.pc = "rotated"]
             S == {req[r].sess}
  <2>1. /\ req[r].sess \in Sessions
        /\ status[req[r].sess] # "none"
        /\ owner[req[r].sess] = req[r].user
        /\ \A s \in req[r].seen : status[s] # "none"
        /\ req[r] \in Request
    BY <1>5 DEF Rotate, SessionInv, TypeOK, RequestsKnowTheirUser
  <2>2. /\ q \in Request /\ q.pc = "rotated" /\ q.sess \in S
        /\ q.sess = req[r].sess /\ q.user = req[r].user /\ q.seen = req[r].seen
    BY <2>1 DEF Request, Phases
  <2>3. S \in SUBSET Rows
    BY <2>1 DEF Rows
  <2>4. /\ Deactivate(S)
        /\ req' = [req EXCEPT ![r] = q]
        /\ UNCHANGED <<owner, parent, expired, held>>
    BY <1>5 DEF Rotate, SessionInv, TypeOK
  <2> HIDE DEF q, S
  <2>5. QED
    BY <2>1, <2>2, <2>3, <2>4, CloseKeepsInv
<1>6. ASSUME NEW r \in Requests, RotateIssue(r)
      PROVE  SessionInv'
  <2>1. /\ req[r].sess \in Sessions
        /\ status[req[r].sess] = "inactive"
        /\ owner[req[r].sess] = req[r].user
        /\ req[r].user \in Users
    BY <1>6 DEF RotateIssue, SessionInv, RowsAreOwned, RequestsKnowTheirUser, RotatedIsClosed
  <2>2. QED
    BY <1>6, <2>1, IssueKeepsInv DEF RotateIssue
<1>7. ASSUME NEW r \in Requests, TheftRevoke(r)
      PROVE  SessionInv'
  <2> DEFINE q == [req[r] EXCEPT !.pc = "alarmed"]
             S == {s \in Sessions : owner[s] = req[r].user /\ status[s] = "active"}
  <2>1. /\ req[r].sess \in Sessions
        /\ status[req[r].sess] # "none"
        /\ owner[req[r].sess] = req[r].user
        /\ \A s \in req[r].seen : status[s] # "none"
        /\ req[r] \in Request
    BY <1>7 DEF TheftRevoke, SessionInv, TypeOK, RequestsKnowTheirUser
  <2>2. /\ q \in Request /\ q.pc = "alarmed"
        /\ q.sess = req[r].sess /\ q.user = req[r].user /\ q.seen = req[r].seen
    BY <2>1 DEF Request, Phases
  <2>3. S \in SUBSET Rows
    BY DEF Rows
  <2>4. /\ Deactivate(S)
        /\ req' = [req EXCEPT ![r] = q]
        /\ UNCHANGED <<owner, parent, expired, held>>
    BY <1>7 DEF TheftRevoke, SessionInv, TypeOK
  <2>5. \A s \in q.seen : owner[s] = q.user => status'[s] = "inactive"
    <3>1. \A s \in Sessions : status[s] \in {"none", "active", "inactive"}
      BY DEF SessionInv, TypeOK
    <3>2. q.seen \in SUBSET Sessions
      BY <2>2 DEF Request
    <3>3. QED
      BY <2>1, <2>2, <2>4, <3>1, <3>2 DEF Deactivate
  <2> HIDE DEF q, S
  <2>6. QED
    BY <2>1, <2>2, <2>3, <2>4, <2>5, CloseKeepsInv
<1>8. ASSUME NEW r \in Requests, TheftAnswer(r) \/ Crash(r)
      PROVE  SessionInv'
  <2>1. req' = [req EXCEPT ![r] = Idle] /\ UNCHANGED <<status, owner, parent, held>>
        /\ expired' \in SUBSET Sessions
    BY <1>8 DEF TheftAnswer, Crash, Answer, SessionInv, TypeOK
  <2>2. QED
    BY <1>1, <2>1, ReadKeepsInv
<1>9. ASSUME NEW r \in Requests, NEW s \in Sessions, Logout(r, s)
      PROVE  SessionInv'
  <2> DEFINE q == [Idle EXCEPT !.pc = "logout", !.user = owner[s], !.sess = s]
  <2>1. status[s] # "none" /\ owner[s] \in Users
    BY <1>9 DEF Logout, Authenticated, SessionInv, RowsAreOwned
  <2>2. q \in Request /\ q.pc = "logout" /\ q.user = owner[s] /\ q.sess = s /\ q.seen = {}
    BY <2>1 DEF Idle, Request, Phases
  <2>3. req' = [req EXCEPT ![r] = q] /\ UNCHANGED <<status, owner, parent, held>>
        /\ expired' \in SUBSET Sessions
    BY <1>9 DEF Logout, SessionInv, TypeOK
  <2> HIDE DEF q
  <2>4. QED
    BY <2>1, <2>2, <2>3, ReadKeepsInv
<1>10. ASSUME NEW r \in Requests, LogoutWrite(r)
       PROVE  SessionInv'
  <2> DEFINE S == {req[r].sess}
  <2>1. req[r].sess \in Sessions /\ status[req[r].sess] # "none"
    BY <1>10 DEF LogoutWrite, SessionInv, RequestsKnowTheirUser
  <2>2. S \in SUBSET Rows
    BY <2>1 DEF Rows
  <2>3. /\ Deactivate(S)
        /\ req' = [req EXCEPT ![r] = Idle]
        /\ UNCHANGED <<owner, parent, expired, held>>
    BY <1>10 DEF LogoutWrite, Answer
  <2> HIDE DEF S
  <2>4. QED
    BY <1>1, <2>2, <2>3, CloseKeepsInv
<1>11. ASSUME NEW s \in Sessions, Expire(s)
       PROVE  SessionInv'
  BY <1>11
  DEF Expire, SessionInv, TypeOK, RowsAreOwned, RequestsKnowTheirUser, RotatedIsClosed,
      ReplacedSessionIsClosed, AlarmClosesEarlierSessions
<1>12. CASE UNCHANGED vars
  BY <1>12
  DEF vars, SessionInv, TypeOK, RowsAreOwned, RequestsKnowTheirUser, RotatedIsClosed,
      ReplacedSessionIsClosed, AlarmClosesEarlierSessions
<1>13. QED
  BY <1>2, <1>3, <1>4, <1>5, <1>6, <1>7, <1>8, <1>9, <1>10, <1>11, <1>12
  DEF Next, Start, Proceed

\* The invariant holds in every reachable state.
THEOREM SessionInvariant == Spec => []SessionInv
  BY InitSatisfiesInv, StepKeepsInv, PTL DEF Spec

\* The variables keep their types: rows, tokens in circulation and requests.
THEOREM TypeCorrect == Spec => []TypeOK
<1>1. SessionInv => TypeOK
  BY DEF SessionInv
<1>2. QED
  BY <1>1, SessionInvariant, PTL

\* However rotations, logouts and alarms interleave, the session that a new
\* one replaces is closed: the two ends of a refresh are never both usable.
THEOREM RotationClosesTheOldSession == Spec => []ReplacedSessionIsClosed
<1>1. SessionInv => ReplacedSessionIsClosed
  BY DEF SessionInv
<1>2. QED
  BY <1>1, SessionInvariant, PTL

\* A handled replay has closed every session of the user that existed when
\* the replayed token was looked up, for any number of requests and sessions.
THEOREM AlarmIsComplete == Spec => []AlarmClosesEarlierSessions
<1>1. SessionInv => AlarmClosesEarlierSessions
  BY DEF SessionInv
<1>2. QED
  BY <1>1, SessionInvariant, PTL

-----------------------------------------------------------------------------
(* What a step may do to the table.                                        *)

\* Every step of a handler opens one row, or closes rows of one user, or
\* leaves the table alone: the refinement of SessionRegistry, step by step.
LEMMA CreatingOpensARow ==
  ASSUME SessionInv, NEW r \in Requests, NEW from \in Sessions \cup {NoSession},
         req[r].user \in Users,
         from # NoSession => status[from] = "inactive" /\ owner[from] = req[r].user,
         IssueTokensAndCreateSession(r, from)
  PROVE  Registry!RegNext
<1>1. PICK n \in Fresh :
         /\ status' = [status EXCEPT ![n] = "active"]
         /\ owner' = [owner EXCEPT ![n] = req[r].user]
         /\ parent' = [parent EXCEPT ![n] = from]
  BY DEF IssueTokensAndCreateSession
<1>2. Registry!Open(n, req[r].user, from)
  BY <1>1 DEF Fresh, Registry!Open, Registry!MayReplace
<1>3. n \in Sessions
  BY DEF Fresh
<1>4. QED
  BY <1>2, <1>3 DEF Registry!RegNext

LEMMA DeactivatingClosesRows ==
  ASSUME NEW u \in Users, NEW S \in SUBSET Sessions, Deactivate(S),
         \A s \in S : status[s] # "none" /\ owner[s] = u,
         UNCHANGED <<owner, parent>>
  PROVE  Registry!RegNext
<1>1. Registry!Close(u, S)
  BY DEF Registry!Close, Deactivate
<1>2. QED
  BY <1>1 DEF Registry!RegNext

\* A rotating or logging-out request names an existing row of its user.
LEMMA TargetIsOwned ==
  ASSUME SessionInv, NEW r \in Requests, req[r].pc \notin {"idle", "login"}
  PROVE  /\ req[r].sess \in Sessions
         /\ status[req[r].sess] # "none"
         /\ owner[req[r].sess] = req[r].user
         /\ req[r].user \in Users
  BY DEF SessionInv, RequestsKnowTheirUser, RowsAreOwned

LEMMA StepRefinesRegistry ==
  SessionInv /\ [Next]_vars => [Registry!RegNext]_(Registry!regVars)
<1> SUFFICES ASSUME SessionInv, [Next]_vars
             PROVE  Registry!RegNext \/ UNCHANGED <<status, owner, parent>>
  BY DEF Registry!regVars
<1>1. ASSUME NEW r \in Requests, LoginIssue(r)
      PROVE  Registry!RegNext
  <2>1. req[r].user \in Users
    BY <1>1 DEF LoginIssue, SessionInv, RequestsKnowTheirUser
  <2>2. QED
    BY <1>1, <2>1, CreatingOpensARow DEF LoginIssue
<1>2. ASSUME NEW r \in Requests, RotateIssue(r)
      PROVE  Registry!RegNext
  <2>1. /\ req[r].sess \in Sessions
        /\ status[req[r].sess] = "inactive"
        /\ owner[req[r].sess] = req[r].user
        /\ req[r].user \in Users
    BY <1>2, TargetIsOwned DEF RotateIssue, SessionInv, RotatedIsClosed
  <2>2. QED
    BY <1>2, <2>1, CreatingOpensARow DEF RotateIssue
<1>3. ASSUME NEW r \in Requests, Rotate(r) \/ LogoutWrite(r)
      PROVE  Registry!RegNext
  <2> DEFINE S == {req[r].sess}
  <2>1. req[r].pc \notin {"idle", "login"}
    BY <1>3 DEF Rotate, LogoutWrite
  <2>2. /\ req[r].user \in Users
        /\ S \in SUBSET Sessions
        /\ \A s \in S : status[s] # "none" /\ owner[s] = req[r].user
    BY <2>1, TargetIsOwned
  <2>3. Deactivate(S) /\ UNCHANGED <<owner, parent>>
    BY <1>3 DEF Rotate, LogoutWrite
  <2> HIDE DEF S
  <2>4. QED
    BY <2>2, <2>3, DeactivatingClosesRows
<1>4. ASSUME NEW r \in Requests, TheftRevoke(r)
      PROVE  Registry!RegNext
  <2> DEFINE S == {s \in Sessions : owner[s] = req[r].user /\ status[s] = "active"}
  <2>1. req[r].user \in Users
    BY <1>4, TargetIsOwned DEF TheftRevoke
  <2>2. Deactivate(S) /\ UNCHANGED <<owner, parent>>
    BY <1>4 DEF TheftRevoke
  <2>3. S \in SUBSET Sessions /\ \A s \in S : status[s] # "none" /\ owner[s] = req[r].user
    OBVIOUS
  <2> HIDE DEF S
  <2>4. QED
    BY <2>1, <2>2, <2>3, DeactivatingClosesRows
<1>5. ASSUME NEW r \in Requests, NEW u \in Users, Login(r, u)
      PROVE  UNCHANGED <<status, owner, parent>>
  BY <1>5 DEF Login
<1>6. ASSUME NEW r \in Requests, NEW s \in Sessions, RefreshRead(r, s) \/ Logout(r, s)
      PROVE  UNCHANGED <<status, owner, parent>>
  BY <1>6 DEF RefreshRead, Logout
<1>7. ASSUME NEW r \in Requests, TheftAnswer(r) \/ Crash(r)
      PROVE  UNCHANGED <<status, owner, parent>>
  BY <1>7 DEF TheftAnswer, Crash
<1>8. ASSUME NEW s \in Sessions, Expire(s)
      PROVE  UNCHANGED <<status, owner, parent>>
  BY <1>8 DEF Expire
<1>9. CASE UNCHANGED vars
  BY <1>9 DEF vars
<1>10. QED
  BY <1>1, <1>2, <1>3, <1>4, <1>5, <1>6, <1>7, <1>8, <1>9 DEF Next, Start, Proceed

\* The handlers implement the session registry: whatever their interleaving
\* and wherever they stop, a row is opened once, closed for good, and replaces
\* only a closed row of the same user.
THEOREM ImplementsRegistry == Spec => RegistrySpec
<1>1. Init => Registry!RegInit
  BY DEF Init, Registry!RegInit
<1>2. QED
  BY <1>1, StepRefinesRegistry, SessionInvariant, PTL DEF Spec, RegistrySpec, Registry!RegSpec

-----------------------------------------------------------------------------
(* Spent tokens.                                                           *)

\* Closed rows stay closed and existing rows keep their parent.
LEMMA RegistryIsMonotone ==
  ASSUME SessionInv, Registry!RegNext \/ UNCHANGED <<status, owner, parent>>,
         NEW s \in Sessions
  PROVE  /\ status[s] = "inactive" => status'[s] = "inactive"
         /\ status[s] # "none" => parent'[s] = parent[s]
<1>1. ASSUME NEW n \in Sessions, NEW u \in Users, NEW p \in Sessions \cup {NoSession},
             Registry!Open(n, u, p)
      PROVE  /\ status[s] = "inactive" => status'[s] = "inactive"
             /\ status[s] # "none" => parent'[s] = parent[s]
  BY <1>1 DEF Registry!Open, SessionInv, TypeOK
<1>2. ASSUME NEW u \in Users, NEW S \in SUBSET Sessions, Registry!Close(u, S)
      PROVE  /\ status[s] = "inactive" => status'[s] = "inactive"
             /\ status[s] # "none" => parent'[s] = parent[s]
  BY <1>2 DEF Registry!Close
<1>3. QED
  BY <1>1, <1>2 DEF Registry!RegNext

\* No request begins to exchange a token whose session is closed.
LEMMA NoNewRotation ==
  ASSUME SessionInv, [Next]_vars, NEW s \in Sessions, Spent(s)
  PROVE  ~Rotating(s)'
<1> SUFFICES ASSUME NEW x \in Requests, req'[x].pc \in {"rotate", "rotated"},
                    req'[x].sess = s
             PROVE  FALSE
  BY DEF Rotating
<1>1. ~(req[x].pc \in {"rotate", "rotated"} /\ req[x].sess = s) /\ status[s] = "inactive"
  BY DEF Spent, Rotating
<1>2. req \in [Requests -> Request] /\ Idle.pc = "idle"
  BY DEF SessionInv, TypeOK, Idle
<1>3. ASSUME NEW r \in Requests, NEW u \in Users, Login(r, u)
      PROVE  FALSE
  BY <1>1, <1>2, <1>3 DEF Login, Idle
<1>4. ASSUME NEW r \in Requests, NEW t \in Sessions, RefreshRead(r, t)
      PROVE  FALSE
  BY <1>1, <1>2, <1>4 DEF RefreshRead
<1>5. ASSUME NEW r \in Requests, NEW t \in Sessions, Logout(r, t)
      PROVE  FALSE
  BY <1>1, <1>2, <1>5 DEF Logout, Idle
<1>6. ASSUME NEW r \in Requests, Rotate(r)
      PROVE  FALSE
  BY <1>1, <1>2, <1>6 DEF Rotate, Request
<1>7. ASSUME NEW r \in Requests, TheftRevoke(r)
      PROVE  FALSE
  BY <1>1, <1>2, <1>7 DEF TheftRevoke, Request
<1>8. ASSUME NEW r \in Requests,
             LoginIssue(r) \/ RotateIssue(r) \/ TheftAnswer(r) \/ LogoutWrite(r) \/ Crash(r)
      PROVE  FALSE
  <2>1. req' = [req EXCEPT ![r] = Idle]
    BY <1>8 DEF LoginIssue, RotateIssue, TheftAnswer, LogoutWrite, Crash,
                IssueTokensAndCreateSession, Answer
  <2>2. QED
    BY <1>1, <1>2, <2>1
<1>9. CASE UNCHANGED req
  BY <1>1, <1>9
<1>10. QED
  BY <1>3, <1>4, <1>5, <1>6, <1>7, <1>8, <1>9 DEF Next, Start, Proceed, Expire, vars

\* A row obtains a parent only when the rotation of that parent completes.
LEMMA NewChildNeedsRotation ==
  ASSUME SessionInv, [Next]_vars, NEW s \in Sessions, Spent(s), NEW c \in Sessions,
         parent'[c] # parent[c]
  PROVE  parent'[c] # s /\ parent[c] # s
<1>1. status[c] = "none" /\ parent[c] = NoSession
  BY StepRefinesRegistry, RegistryIsMonotone DEF Registry!regVars, SessionInv, RowsAreOwned
<1>2. ASSUME NEW r \in Requests, LoginIssue(r)
      PROVE  parent'[c] # s
  BY <1>2, <1>1, NoSessionAssumption
  DEF LoginIssue, IssueTokensAndCreateSession, SessionInv, TypeOK
<1>3. ASSUME NEW r \in Requests, RotateIssue(r)
      PROVE  parent'[c] # s
  <2>1. req[r].sess # s
    BY <1>3 DEF RotateIssue, Spent, Rotating
  <2>2. QED
    BY <1>3, <1>1, <2>1, NoSessionAssumption
    DEF RotateIssue, IssueTokensAndCreateSession, SessionInv, TypeOK
<1>4. (\E r \in Requests : LoginIssue(r) \/ RotateIssue(r)) \/ UNCHANGED parent
  BY DEF Next, Start, Proceed, vars, Login, RefreshRead, Logout, Rotate, TheftRevoke,
         TheftAnswer, LogoutWrite, Crash, Expire
<1>5. QED
  BY <1>1, <1>2, <1>3, <1>4, NoSessionAssumption

\* A spent token never becomes usable again and yields no further session,
\* after any number of replays, crashes and concurrent rotations.
THEOREM SpentForever == Spec => SpentTokenStaysSpent
<1>1. ASSUME SessionInv, [Next]_vars, NEW s \in Sessions, Spent(s)
      PROVE  Spent(s)' /\ Children(s)' = Children(s)
  <2>1. status'[s] = "inactive"
    BY <1>1, StepRefinesRegistry, RegistryIsMonotone DEF Spent, Registry!regVars
  <2>2. ~Rotating(s)'
    BY <1>1, NoNewRotation
  <2>3. Children(s)' = Children(s)
    BY <1>1, NewChildNeedsRotation DEF Children
  <2>4. QED
    BY <2>1, <2>2, <2>3 DEF Spent
<1>2. SessionInv /\ [Next]_vars
        => [\A s \in Sessions : Spent(s) => Spent(s)' /\ Children(s)' = Children(s)]_vars
  BY <1>1
<1>3. QED
  BY <1>2, SessionInvariant, PTL DEF Spec, SpentTokenStaysSpent
=============================================================================
