----------------------------- MODULE AuthSessions -----------------------------
(***************************************************************************)
(* Sessions, refresh rotation and replay detection: the handlers of        *)
(* packages/auth/src/auth/auth.service.ts that write the `sessions` table, *)
(* and the session check of strategies/jwt.strategy.ts in front of logout. *)
(*                                                                         *)
(* Every Prisma call outside an atomic helper is a transaction of its own  *)
(* (packages/db/src/rls.ts), so a handler is a sequence of steps between   *)
(* which the handlers of other requests run, and it may stop after any of  *)
(* them (crash of the API process, database error, lost connection).       *)
(*                                                                         *)
(* A session has exactly one refresh token: the JWT carries the session id *)
(* and the row keeps its hash.  The model lets the session stand for the   *)
(* token, which makes signature, type and hash comparison succeed; tokens  *)
(* that the service did not issue are outside the model.                   *)
(***************************************************************************)
EXTENDS Naturals, FiniteSets

CONSTANTS
    Users,          \* active users of a tenant
    Sessions,       \* session ids; the bound on how many sessions are created
    Requests,       \* HTTP requests served concurrently, each reusable
    NoUser, NoSession,
    CrashesHappen   \* whether a handler may stop half-way

ASSUME NoUserAssumption == NoUser \notin Users
ASSUME NoSessionAssumption == NoSession \notin Sessions
ASSUME CrashAssumption == CrashesHappen \in BOOLEAN

VARIABLES
    status,    \* sessions.is_active; "none" while the row does not exist
    owner,     \* sessions.user_id
    parent,    \* history: the session whose refresh token this one replaced
    expired,   \* sessions whose expires_at is in the past
    held,      \* sessions whose tokens reached a client in a response
    req        \* what each request is doing, with what it has read so far

vars == <<status, owner, parent, expired, held, req>>

Phases == {"idle", "login", "rotate", "rotated", "theft", "alarmed", "logout"}

Request == [pc   : Phases,
            user : Users \cup {NoUser},
            sess : Sessions \cup {NoSession},
            seen : SUBSET Sessions]   \* history: rows present when it read `sess`

Idle == [pc |-> "idle", user |-> NoUser, sess |-> NoSession, seen |-> {}]

Rows == {s \in Sessions : status[s] # "none"}
Fresh == {s \in Sessions : status[s] = "none"}
Creating == {r \in Requests : req[r].pc \in {"login", "rotate", "rotated"}}

TypeOK ==
    /\ status \in [Sessions -> {"none", "active", "inactive"}]
    /\ owner \in [Sessions -> Users \cup {NoUser}]
    /\ parent \in [Sessions -> Sessions \cup {NoSession}]
    /\ expired \in SUBSET Sessions
    /\ held \in SUBSET Sessions
    /\ req \in [Requests -> Request]

Init ==
    /\ status = [s \in Sessions |-> "none"]
    /\ owner = [s \in Sessions |-> NoUser]
    /\ parent = [s \in Sessions |-> NoSession]
    /\ expired = {}
    /\ held = {}
    /\ req = [r \in Requests |-> Idle]

-----------------------------------------------------------------------------
(* Steps shared by the handlers.                                           *)

Answer(r) == req' = [req EXCEPT ![r] = Idle]

\* The model has finitely many session ids: a handler that will create a
\* session starts only if an id is left for it.
RoomForSession == Cardinality(Creating) < Cardinality(Fresh)

\* jwt.strategy: the session named by the access token exists, is active and
\* has not expired.
Authenticated(s) ==
    /\ s \in held
    /\ status[s] = "active"
    /\ s \notin expired

\* issueTokensAndCreateSession: a new row for the request's user.  The
\* response that carries the tokens may be lost on its way to the client.
IssueTokensAndCreateSession(r, from) ==
    /\ \E s \in Fresh :
         /\ status' = [status EXCEPT ![s] = "active"]
         /\ owner' = [owner EXCEPT ![s] = req[r].user]
         /\ parent' = [parent EXCEPT ![s] = from]
         /\ held' \in {held, held \cup {s}}
    /\ Answer(r)
    /\ UNCHANGED expired

Deactivate(S) ==
    status' = [s \in Sessions |-> IF s \in S THEN "inactive" ELSE status[s]]

-----------------------------------------------------------------------------
(* login: the credentials are checked against the user row, then the       *)
(* session is created.                                                     *)

Login(r, u) ==
    /\ req[r].pc = "idle"
    /\ RoomForSession
    /\ req' = [req EXCEPT ![r] = [Idle EXCEPT !.pc = "login", !.user = u]]
    /\ UNCHANGED <<status, owner, parent, expired, held>>

LoginIssue(r) ==
    /\ req[r].pc = "login"
    /\ IssueTokensAndCreateSession(r, NoSession)

-----------------------------------------------------------------------------
(* refresh: the row is read once; what happens next depends on is_active   *)
(* as it was then.                                                         *)

\* Mutant: the handler does not look at is_active.
RefreshReadUnchecked(r, s) ==
    /\ req[r].pc = "idle"
    /\ s \in held \ expired
    /\ RoomForSession
    /\ req' = [req EXCEPT ![r] =
                 [pc |-> "rotate", user |-> owner[s], sess |-> s, seen |-> Rows]]
    /\ UNCHANGED <<status, owner, parent, expired, held>>

RefreshRead(r, s) ==
    /\ req[r].pc = "idle"
    /\ s \in held
    /\ s \notin expired
    /\ status[s] = "active" => RoomForSession
    /\ req' = [req EXCEPT ![r] =
                 [pc   |-> IF status[s] = "active" THEN "rotate" ELSE "theft",
                  user |-> owner[s],
                  sess |-> s,
                  seen |-> Rows]]
    /\ UNCHANGED <<status, owner, parent, expired, held>>

\* Mutant: the new session is created without closing the old one.
RotateKeepingOld(r) ==
    /\ req[r].pc = "rotate"
    /\ req' = [req EXCEPT ![r].pc = "rotated"]
    /\ UNCHANGED <<status, owner, parent, expired, held>>

\* session.update({ where: { id }, data: { isActive: false } }): not
\* conditional on the row still being active.
Rotate(r) ==
    /\ req[r].pc = "rotate"
    /\ Deactivate({req[r].sess})
    /\ req' = [req EXCEPT ![r].pc = "rotated"]
    /\ UNCHANGED <<owner, parent, expired, held>>

RotateIssue(r) ==
    /\ req[r].pc = "rotated"
    /\ IssueTokensAndCreateSession(r, req[r].sess)

\* Mutant: only the session of the replayed token is closed.
TheftRevokeOne(r) ==
    /\ req[r].pc = "theft"
    /\ Deactivate({req[r].sess})
    /\ req' = [req EXCEPT ![r].pc = "alarmed"]
    /\ UNCHANGED <<owner, parent, expired, held>>

\* Mutant: updateMany without the userId condition.
TheftRevokeAll(r) ==
    /\ req[r].pc = "theft"
    /\ Deactivate({s \in Sessions : status[s] = "active"})
    /\ req' = [req EXCEPT ![r].pc = "alarmed"]
    /\ UNCHANGED <<owner, parent, expired, held>>

\* A token already exchanged came back: every active session of the user is
\* closed in one statement.
TheftRevoke(r) ==
    /\ req[r].pc = "theft"
    /\ Deactivate({s \in Sessions : owner[s] = req[r].user /\ status[s] = "active"})
    /\ req' = [req EXCEPT ![r].pc = "alarmed"]
    /\ UNCHANGED <<owner, parent, expired, held>>

\* Mail and audit (best effort), then 401 E_AUTH_THEFT_DETECTED.
TheftAnswer(r) ==
    /\ req[r].pc = "alarmed"
    /\ Answer(r)
    /\ UNCHANGED <<status, owner, parent, expired, held>>

-----------------------------------------------------------------------------
(* logout: the JWT guard, then an unconditional update of the row.         *)

Logout(r, s) ==
    /\ req[r].pc = "idle"
    /\ Authenticated(s)
    /\ req' = [req EXCEPT ![r] =
                 [Idle EXCEPT !.pc = "logout", !.user = owner[s], !.sess = s]]
    /\ UNCHANGED <<status, owner, parent, expired, held>>

LogoutWrite(r) ==
    /\ req[r].pc = "logout"
    /\ Deactivate({req[r].sess})
    /\ Answer(r)
    /\ UNCHANGED <<owner, parent, expired, held>>

-----------------------------------------------------------------------------
(* The environment.                                                        *)

Expire(s) ==
    /\ s \in Rows \ expired
    /\ expired' = expired \cup {s}
    /\ UNCHANGED <<status, owner, parent, held, req>>

Crash(r) ==
    /\ CrashesHappen
    /\ req[r].pc # "idle"
    /\ Answer(r)
    /\ UNCHANGED <<status, owner, parent, expired, held>>

Start(r) ==
    \/ \E u \in Users : Login(r, u)
    \/ \E s \in Sessions : RefreshRead(r, s) \/ Logout(r, s)

\* What a request that has started does next.
Proceed(r) ==
    \/ LoginIssue(r)
    \/ Rotate(r) \/ RotateIssue(r)
    \/ TheftRevoke(r) \/ TheftAnswer(r)
    \/ LogoutWrite(r)

Next ==
    \/ \E r \in Requests : Start(r) \/ Proceed(r) \/ Crash(r)
    \/ \E s \in Sessions : Expire(s)

Spec == Init /\ [][Next]_vars

\* Node runs the continuation of every awaited call that settles, so a
\* started request goes on; nothing forces clients to send requests.
Fairness == \A r \in Requests : WF_vars(Proceed(r))

-----------------------------------------------------------------------------
(* Properties.                                                             *)

Children(s) == {c \in Sessions : parent[c] = s}

Rotating(s) == \E r \in Requests : req[r].pc \in {"rotate", "rotated"} /\ req[r].sess = s

\* A refresh never leaves both ends of a rotation usable: the session a new
\* one replaces is closed and belongs to the same user, whatever ran between
\* the two writes of the handler (auth.service.ts, deactivate before create).
ReplacedSessionIsClosed ==
    \A s \in Sessions :
        parent[s] # NoSession =>
            status[parent[s]] = "inactive" /\ owner[parent[s]] = owner[s]

\* When the replay alarm has been handled, every session of that user that
\* existed when the replayed token was looked up is closed, even those that
\* other requests were opening or closing meanwhile (updateMany on
\* { userId, isActive: true } after the read).
AlarmClosesEarlierSessions ==
    \A r \in Requests : \A s \in req[r].seen :
        req[r].pc = "alarmed" /\ owner[s] = req[r].user => status[s] = "inactive"

\* A refresh token whose session is closed, and that no request is exchanged
\* for right now, is spent for good: no later request obtains a session from
\* it and no step makes it usable again, not even after crashes and replays.
Spent(s) == status[s] = "inactive" /\ ~Rotating(s)

SpentTokenStaysSpent ==
    [][\A s \in Sessions : Spent(s) => Spent(s)' /\ Children(s)' = Children(s)]_vars

\* Detection is followed by revocation: if the API does not stop, a session
\* that was active when a replay of its user's token was recognised is
\* eventually closed.
ReplayEndsInRevocation ==
    \A r \in Requests, s \in Sessions :
        (req[r].pc = "theft" /\ s \in req[r].seen /\ owner[s] = req[r].user)
            ~> (status[s] = "inactive")

\* The sessions table behaves as SessionRegistry describes.
Registry == INSTANCE SessionRegistry WITH
    Users <- Users, Sessions <- Sessions, NoUser <- NoUser, NoSession <- NoSession,
    status <- status, owner <- owner, parent <- parent
RegistrySpec == Registry!RegSpec

\* auth-refresh.ts 9-12 and auth.service.ts 8-11: of several requests that
\* present the same refresh token one rotates it and the others are treated
\* as replays, so a token is exchanged for at most one session.
TokenExchangedOnce ==
    \A s \in Sessions : Cardinality(Children(s)) <= 1

-----------------------------------------------------------------------------
(* The inductive invariant from which the theorems of AuthSessionsProofs   *)
(* follow.                                                                 *)

\* What has no row is unknown to everyone; what has one has a user.
RowsAreOwned ==
    \A s \in Sessions :
        /\ status[s] = "none" => s \notin held /\ parent[s] = NoSession
        /\ status[s] # "none" => owner[s] \in Users

\* A request works for the user of the session it has read, and only rows
\* that exist can have been seen.
RequestsKnowTheirUser ==
    \A r \in Requests :
        /\ req[r].pc = "login" => req[r].user \in Users
        /\ req[r].pc \notin {"idle", "login"} =>
              /\ req[r].sess \in Sessions
              /\ status[req[r].sess] # "none"
              /\ owner[req[r].sess] = req[r].user
        /\ \A s \in req[r].seen : status[s] # "none"

\* Between the two writes of a rotation the old session is closed.
RotatedIsClosed ==
    \A r \in Requests :
        req[r].pc = "rotated" => status[req[r].sess] = "inactive"

\* Type correctness, ownership of rows and requests, the closed half of a
\* rotation, and with them the two safety properties: the conjunction every
\* handler step preserves.
SessionInv ==
    /\ TypeOK
    /\ RowsAreOwned
    /\ RequestsKnowTheirUser
    /\ RotatedIsClosed
    /\ ReplacedSessionIsClosed
    /\ AlarmClosesEarlierSessions
=============================================================================
