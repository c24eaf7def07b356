----------------------------- MODULE TokenClient -----------------------------
(***************************************************************************)
(* A browser in front of the session handlers: the token store, the        *)
(* single-flight renewal and the logout of packages/auth-web, and the      *)
(* 401-renew-retry of packages/api-client, composed with AuthSessions.     *)
(*                                                                         *)
(* The tabs of the browser share localStorage (auth.ts), while the promise *)
(* of the renewal in flight is a variable of the module, one per tab       *)
(* (auth-refresh.ts).  Requests and replies take time, and a reply may be  *)
(* lost after the server has done its part.  The browser is the only one   *)
(* that has the tokens.                                                    *)
(***************************************************************************)
EXTENDS AuthSessions

CONSTANTS
    Tabs,
    NoRequest,
    MaxCalls         \* bound: tokens that the API calls of a tab carry at a time

ASSUME NoRequestAssumption == NoRequest \notin Requests
ASSUME MaxCallsAssumption == MaxCalls \in Nat \ {0}

VARIABLES
    store,     \* session whose access and refresh tokens are in localStorage
    lapsed,    \* sessions whose access token has expired (15 minutes)
    calls,     \* per tab: sessions whose access token an API call carries
    retry,     \* per tab: session whose token a /me sent again carries
    renewal,   \* per tab: refreshInFlight
    form,      \* per tab: the login or logout in progress
    answer     \* per request: the session in its response, if it has one

clientVars == <<store, lapsed, calls, retry, renewal, form, answer>>
browserVars == <<vars, clientVars>>

\* A call to the server: not made ("none"), on its way ("sent"), being served,
\* or "failed" (401, 5xx, connection lost).
NoCall == [st |-> "none", sess |-> NoSession, via |-> NoRequest]

NoForm == [kind |-> "none", call |-> NoCall]

ClientInit ==
    /\ Init
    /\ store = NoSession
    /\ lapsed = {}
    /\ calls = [t \in Tabs |-> {}]
    /\ retry = [t \in Tabs |-> NoSession]
    /\ renewal = [t \in Tabs |-> NoCall]
    /\ form = [t \in Tabs |-> NoForm]
    /\ answer = [r \in Requests |-> NoSession]

-----------------------------------------------------------------------------
(* The server's side of a call.                                            *)

\* Nobody waits for the response of this request any more.
Free(r) ==
    /\ req[r].pc = "idle"
    /\ \A t \in Tabs : renewal[t].via # r /\ form[t].call.via # r

Answered(c) == c.st = "served" /\ req[c.via].pc = "idle"

\* The response of a request that ends carries the session it created, if
\* that reached the client.
ServerStep(r) ==
    /\ Proceed(r) \/ Crash(r)
    /\ answer' = [answer EXCEPT ![r] =
                    IF req'[r].pc = "idle" /\ held' # held
                      THEN CHOOSE s \in held' \ held : TRUE
                      ELSE NoSession]
    /\ UNCHANGED <<store, lapsed, calls, retry, renewal, form>>

AccessLapses(s) ==
    /\ s \in held \ lapsed
    /\ lapsed' = lapsed \cup {s}
    /\ UNCHANGED <<vars, store, calls, retry, renewal, form, answer>>

-----------------------------------------------------------------------------
(* API calls and the renewal they start.                                   *)

ApiCall(t) ==
    /\ store # NoSession
    /\ Cardinality(calls[t] \cup {store}) <= MaxCalls
    /\ calls' = [calls EXCEPT ![t] = @ \cup {store}]
    /\ UNCHANGED <<vars, store, lapsed, retry, renewal, form, answer>>

ApiAnswers(t, s) ==
    /\ s \in calls[t]
    /\ calls' = [calls EXCEPT ![t] = @ \ {s}]
    /\ UNCHANGED <<vars, store, lapsed, retry, renewal, form, answer>>

\* Mutant: every 401 starts a renewal of its own, the one in flight is lost.
RenewNaively(t) ==
    IF store = NoSession THEN UNCHANGED renewal
    ELSE renewal' = [renewal EXCEPT ![t] = [NoCall EXCEPT !.st = "sent", !.sess = store]]

\* refreshAccessToken: join the renewal in flight, or send the refresh token
\* that is in the store now.
Renew(t) ==
    IF renewal[t].st # "none" \/ store = NoSession THEN UNCHANGED renewal
    ELSE renewal' = [renewal EXCEPT ![t] = [NoCall EXCEPT !.st = "sent", !.sess = store]]

\* 401: the access token has expired or its session is not active any more.
ApiUnauthorized(t, s) ==
    /\ s \in calls[t]
    /\ s \in lapsed \/ ~Authenticated(s)
    /\ calls' = [calls EXCEPT ![t] = @ \ {s}]
    /\ Renew(t)
    /\ UNCHANGED <<vars, store, lapsed, retry, form, answer>>

RenewalArrives(t) ==
    /\ renewal[t].st = "sent"
    /\ \E r \in Requests :
         /\ Free(r)
         /\ RefreshRead(r, renewal[t].sess)
         /\ renewal' = [renewal EXCEPT ![t].st = "served", ![t].via = r]
         /\ answer' = [answer EXCEPT ![r] = NoSession]
    /\ UNCHANGED <<store, lapsed, calls, retry, form>>

\* The session has expired, or the connection breaks before or after the
\* server has got the request.
RenewalFails(t) ==
    /\ renewal[t].st \in {"sent", "served"}
    /\ renewal' = [renewal EXCEPT ![t] = [NoCall EXCEPT !.st = "failed"]]
    /\ UNCHANGED <<vars, store, lapsed, calls, retry, form, answer>>

\* Mutant: a renewal that fails leaves the old tokens in place.
RenewalEndsKeeping(t) ==
    /\ renewal[t].st = "failed" \/ Answered(renewal[t])
    /\ IF renewal[t].st = "served" /\ answer[renewal[t].via] # NoSession
         THEN store' = answer[renewal[t].via]
         ELSE UNCHANGED store
    /\ renewal' = [renewal EXCEPT ![t] = NoCall]
    /\ UNCHANGED <<vars, lapsed, calls, retry, form, answer>>

\* setTokens with the new pair, or clearTokens.  The calls that waited are
\* sent again with the new token; the one the model follows is /me.
RenewalEnds(t) ==
    /\ renewal[t].st = "failed" \/ Answered(renewal[t])
    /\ store' = IF renewal[t].st = "served" THEN answer[renewal[t].via] ELSE NoSession
    /\ retry' \in IF store' = NoSession THEN {retry}
                  ELSE {retry, [retry EXCEPT ![t] = store']}
    /\ renewal' = [renewal EXCEPT ![t] = NoCall]
    /\ UNCHANGED <<vars, lapsed, calls, form, answer>>

\* A retry does not renew again (skipAuthRetry).  loadProfile answers the 401
\* of its own with clearTokens, whatever the store holds by then.
RetryUnauthorized(t) ==
    /\ retry[t] # NoSession
    /\ retry[t] \in lapsed \/ ~Authenticated(retry[t])
    /\ store' = NoSession
    /\ retry' = [retry EXCEPT ![t] = NoSession]
    /\ UNCHANGED <<vars, lapsed, calls, renewal, form, answer>>

RetryAnswers(t) ==
    /\ retry[t] # NoSession
    /\ retry' = [retry EXCEPT ![t] = NoSession]
    /\ UNCHANGED <<vars, store, lapsed, calls, renewal, form, answer>>

-----------------------------------------------------------------------------
(* The login page and performLogout.                                       *)

LoginSubmit(t) ==
    /\ form[t].kind = "none"
    /\ \E r \in Requests, u \in Users :
         /\ Free(r)
         /\ Login(r, u)
         /\ form' = [form EXCEPT ![t] =
                       [kind |-> "login", call |-> [NoCall EXCEPT !.st = "served", !.via = r]]]
         /\ answer' = [answer EXCEPT ![r] = NoSession]
    /\ UNCHANGED <<store, lapsed, calls, retry, renewal>>

\* setTokens when the credentials were accepted and the response arrived.
LoginEnds(t) ==
    /\ form[t].kind = "login"
    /\ Answered(form[t].call)
    /\ store' = IF answer[form[t].call.via] # NoSession THEN answer[form[t].call.via] ELSE store
    /\ form' = [form EXCEPT ![t] = NoForm]
    /\ UNCHANGED <<vars, lapsed, calls, retry, renewal, answer>>

\* POST /auth/logout with the access token of the store.
LogoutClick(t) ==
    /\ form[t].kind = "none"
    /\ store # NoSession
    /\ form' = [form EXCEPT ![t] =
                  [kind |-> "logout", call |-> [NoCall EXCEPT !.st = "sent", !.sess = store]]]
    /\ UNCHANGED <<vars, store, lapsed, calls, retry, renewal, answer>>

LogoutArrives(t) ==
    /\ form[t].kind = "logout"
    /\ form[t].call.st = "sent"
    /\ form[t].call.sess \notin lapsed
    /\ \E r \in Requests :
         /\ Free(r)
         /\ Logout(r, form[t].call.sess)
         /\ form' = [form EXCEPT ![t].call.st = "served", ![t].call.via = r]
         /\ answer' = [answer EXCEPT ![r] = NoSession]
    /\ UNCHANGED <<store, lapsed, calls, retry, renewal>>

\* 401 from the guard, or a broken connection.
LogoutFails(t) ==
    /\ form[t].kind = "logout"
    /\ form[t].call.st \in {"sent", "served"}
    /\ form' = [form EXCEPT ![t].call = [NoCall EXCEPT !.st = "failed"]]
    /\ UNCHANGED <<vars, store, lapsed, calls, retry, renewal, answer>>

\* finally { clearTokens() }
LogoutEnds(t) ==
    /\ form[t].kind = "logout"
    /\ form[t].call.st = "failed" \/ Answered(form[t].call)
    /\ store' = NoSession
    /\ form' = [form EXCEPT ![t] = NoForm]
    /\ UNCHANGED <<vars, lapsed, calls, retry, renewal, answer>>

-----------------------------------------------------------------------------

ClientNext ==
    \/ \E r \in Requests : ServerStep(r)
    \/ \E s \in Sessions :
         \/ AccessLapses(s)
         \/ Expire(s) /\ UNCHANGED clientVars
    \/ \E t \in Tabs :
         \/ ApiCall(t)
         \/ \E s \in Sessions : ApiAnswers(t, s) \/ ApiUnauthorized(t, s)
         \/ RenewalArrives(t) \/ RenewalFails(t) \/ RenewalEnds(t)
         \/ RetryUnauthorized(t) \/ RetryAnswers(t)
         \/ LoginSubmit(t) \/ LoginEnds(t)
         \/ LogoutClick(t) \/ LogoutArrives(t) \/ LogoutFails(t) \/ LogoutEnds(t)

ClientSpec == ClientInit /\ [][ClientNext]_browserVars

-----------------------------------------------------------------------------
(* Properties.                                                             *)

\* auth-refresh.ts 9-14: since only one renewal is in flight, a browser whose
\* tokens nobody else has never presents one that was already exchanged,
\* although responses are lost, users log out and in, and calls overlap.
RotatedTokenNotPresented ==
    \A r \in Requests :
        req[r].pc \in {"theft", "alarmed"} => Children(req[r].sess) = {}

\* With no renewal, login or logout in progress, the refresh token in the
\* store has not been exchanged (auth-refresh.ts 41-43): what is stored is the
\* end of its chain, and the next renewal does not look like a replay of it.
StoredTokenIsFresh ==
    store # NoSession /\ (\A t \in Tabs : renewal[t].st = "none" /\ form[t].kind = "none")
        => Children(store) = {}

-----------------------------------------------------------------------------
(* The inductive invariant from which the theorems of BrowserProofs        *)
(* follow, for a browser with one tab.                                     *)

Call == [st : {"none", "sent", "served", "failed"},
         sess : Sessions \cup {NoSession},
         via : Requests \cup {NoRequest}]

Form == [kind : {"none", "login", "logout"}, call : Call]

ClientTypes ==
    /\ store \in held \cup {NoSession}
    /\ lapsed \in SUBSET held
    /\ calls \in [Tabs -> SUBSET Sessions]
    /\ retry \in [Tabs -> Sessions \cup {NoSession}]
    /\ renewal \in [Tabs -> Call]
    /\ form \in [Tabs -> Form]
    /\ answer \in [Requests -> held \cup {NoSession}]

\* A token that nobody has exchanged and nobody is exchanging.
Live(s) == Children(s) = {} /\ ~Rotating(s)

\* The requests whose response the tab still waits for, and will store.
Awaits(t, r) == renewal[t].via = r \/ (form[t].kind = "login" /\ form[t].call.via = r)

\* The tokens the tab can still present: until a renewal is served the one in
\* the store, and the one it has sent; and those of the responses it awaits.
Presentable(t, s) ==
    \/ renewal[t].st \in {"none", "sent"} /\ store = s
    \/ renewal[t].st = "sent" /\ renewal[t].sess = s
    \/ \E r \in Requests : Awaits(t, r) /\ answer[r] = s

\* A response carries a token that is nowhere else.
AnswersApart(t) ==
    \A r \in Requests : Awaits(t, r) /\ answer[r] # NoSession =>
        /\ renewal[t].st \in {"none", "sent"} => answer[r] # store
        /\ renewal[t].st = "sent" => answer[r] # renewal[t].sess
        /\ \A q \in Requests : Awaits(t, q) /\ q # r => answer[q] # answer[r]

\* The calls of a tab: a request serves one of them.
CallsInOrder(t) ==
    /\ renewal[t].st = "served" <=> renewal[t].via # NoRequest
    /\ renewal[t].st = "sent" => renewal[t].sess \in held
    /\ renewal[t].via # form[t].call.via \/ renewal[t].via = NoRequest
    /\ form[t].kind = "login" => form[t].call.st = "served" /\ form[t].call.via \in Requests

\* On the server: a token that is being exchanged has not been, and one
\* request exchanges it; one that raised the alarm is closed and live.
ExchangesAlone ==
    \A s \in Sessions : \A r \in Requests : req[r].sess = s =>
        /\ req[r].pc \in {"rotate", "rotated"} =>
             /\ Children(s) = {}
             /\ \A q \in Requests :
                  req[q].pc \in {"rotate", "rotated"} /\ req[q].sess = s => q = r
        /\ req[r].pc \in {"theft", "alarmed"} => status[s] = "inactive" /\ Live(s)

OneChild == \A s \in Sessions : \A a, b \in Children(s) : a = b

ClientInv ==
    /\ SessionInv
    /\ ClientTypes
    /\ ExchangesAlone
    /\ OneChild
    /\ \A t \in Tabs :
         /\ CallsInOrder(t) /\ AnswersApart(t)
         /\ \A s \in held : Presentable(t, s) => Live(s)
=============================================================================
