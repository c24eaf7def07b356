---------------------------- MODULE BrowserProofs ----------------------------
(***************************************************************************)
(* Theorems about what runs in a browser: the token client in front of the *)
(* session handlers (TokenClient), the page where expense notes are        *)
(* decided (CodaApprovazione) and the one where they are written           *)
(* (SchedaNota).                                                           *)
(***************************************************************************)
EXTENDS TokenClient, AuthSessionsProofs, CodaApprovazione, SchedaNota, FiniteSetTheorems

-----------------------------------------------------------------------------
(* The token client.  SessionInv, of the handlers, is kept because a step  *)
(* of the browser is one of theirs or leaves the sessions alone; the rest  *)
(* of ClientInv follows the tokens of a browser that has one tab.          *)

\* A step of the browser is a step of the session handlers, or none.
LEMMA ClientStepIsNext ==
  ASSUME SessionInv, ClientNext PROVE [Next]_vars
<1>0. held \subseteq Sessions
  BY DEF SessionInv, TypeOK
<1>1. ASSUME NEW r \in Requests, ServerStep(r) PROVE Next
  BY <1>1 DEF ServerStep, Next
<1>2. ASSUME NEW s \in Sessions, Expire(s) PROVE Next
  BY <1>2 DEF Next
<1>3. ASSUME NEW t \in Tabs, RenewalArrives(t) PROVE Next
  <2>1. PICK r \in Requests : RefreshRead(r, renewal[t].sess)
    BY <1>3 DEF RenewalArrives
  <2>2. renewal[t].sess \in Sessions
    BY <1>0, <2>1 DEF RefreshRead
  <2>3. QED
    BY <2>1, <2>2 DEF Next, Start
<1>4. ASSUME NEW t \in Tabs, LoginSubmit(t) PROVE Next
  BY <1>4 DEF LoginSubmit, Next, Start
<1>5. ASSUME NEW t \in Tabs, LogoutArrives(t) PROVE Next
  <2>1. PICK r \in Requests : Logout(r, form[t].call.sess)
    BY <1>5 DEF LogoutArrives
  <2>2. form[t].call.sess \in Sessions
    BY <1>0, <2>1 DEF Logout, Authenticated
  <2>3. QED
    BY <2>1, <2>2 DEF Next, Start
<1>6. ASSUME NEW t \in Tabs,
             \/ ApiCall(t) \/ RenewalFails(t) \/ RenewalEnds(t)
             \/ RetryUnauthorized(t) \/ RetryAnswers(t)
             \/ LoginEnds(t) \/ LogoutClick(t) \/ LogoutFails(t) \/ LogoutEnds(t)
             \/ \E s \in Sessions : ApiAnswers(t, s) \/ ApiUnauthorized(t, s)
      PROVE  UNCHANGED vars
  BY <1>6 DEF ApiCall, RenewalFails, RenewalEnds, RetryUnauthorized, RetryAnswers, LoginEnds,
              LogoutClick, LogoutFails, LogoutEnds, ApiAnswers, ApiUnauthorized
<1>7. QED
  BY <1>1, <1>2, <1>3, <1>4, <1>5, <1>6 DEF ClientNext, AccessLapses

\* What SessionInv says of the tokens in the hands of the browser.
LEMMA HeldTokens ==
  ASSUME SessionInv
  PROVE  /\ held \subseteq Sessions /\ NoSession \notin held
         /\ \A s \in held : status[s] # "none"
         /\ \A r \in Requests : req[r] \in Request
BY NoSessionAssumption DEF SessionInv, TypeOK, RowsAreOwned

\* A request that goes on with what it was doing, or stops, and creates
\* nothing: tokens that were live are, exchanges stay alone.
LEMMA WithoutIssue ==
  ASSUME SessionInv, ExchangesAlone, OneChild,
         NEW r \in Requests, NEW q \in Request,
         req' = [req EXCEPT ![r] = q],
         parent' = parent,
         \A s \in Sessions : status[s] = "inactive" => status'[s] = "inactive",
         q.pc \in {"rotate", "rotated"} =>
            req[r].pc \in {"rotate", "rotated"} /\ q.sess = req[r].sess,
         q.pc \in {"theft", "alarmed"} =>
            req[r].pc \in {"theft", "alarmed"} /\ q.sess = req[r].sess
  PROVE  /\ ExchangesAlone' /\ OneChild'
         /\ \A s \in Sessions : Live(s) => Live(s)'
<1>1. \A x \in Requests : req[x] \in Request /\ req'[x] = IF x = r THEN q ELSE req[x]
  BY DEF SessionInv, TypeOK
<1>2. \A x \in Requests :
        /\ req'[x].pc \in {"rotate", "rotated"} =>
             req[x].pc \in {"rotate", "rotated"} /\ req'[x].sess = req[x].sess
        /\ req'[x].pc \in {"theft", "alarmed"} =>
             req[x].pc \in {"theft", "alarmed"} /\ req'[x].sess = req[x].sess
  BY <1>1
<1>3. \A s : Children(s)' = Children(s)
  BY DEF Children
<1>4. \A s : Live(s) => Live(s)'
  BY <1>2, <1>3 DEF Live, Rotating
<1>5. OneChild'
  BY <1>3 DEF OneChild
<1>6. ASSUME NEW s \in Sessions, NEW x \in Requests, req'[x].sess = s,
             req'[x].pc \in {"rotate", "rotated"}
      PROVE  /\ Children(s)' = {}
             /\ \A y \in Requests :
                  req'[y].pc \in {"rotate", "rotated"} /\ req'[y].sess = s => y = x
  BY <1>2, <1>3, <1>6 DEF ExchangesAlone
<1>7. ASSUME NEW s \in Sessions, NEW x \in Requests, req'[x].sess = s,
             req'[x].pc \in {"theft", "alarmed"}
      PROVE  status'[s] = "inactive" /\ Live(s)'
  <2>1. status[s] = "inactive" /\ Live(s)
    BY <1>2, <1>7 DEF ExchangesAlone
  <2>2. QED
    BY <1>4, <2>1
<1>8. QED
  BY <1>4, <1>5, <1>6, <1>7 DEF ExchangesAlone

\* A request that creates a session: the token of the new one is live, and
\* nobody had it; one that was live is not the token exchanged.
LEMMA WithIssue ==
  ASSUME SessionInv, ExchangesAlone, OneChild,
         NEW r \in Requests, NEW from \in Sessions \cup {NoSession},
         from # NoSession => req[r].pc = "rotated" /\ req[r].sess = from,
         IssueTokensAndCreateSession(r, from)
  PROVE  /\ ExchangesAlone' /\ OneChild'
         /\ \A s \in Sessions : Live(s) => Live(s)'
         /\ \E n \in Sessions \ held : held' \in {held, held \cup {n}} /\ Live(n)'
<1>1. PICK n \in Fresh :
         /\ status' = [status EXCEPT ![n] = "active"]
         /\ parent' = [parent EXCEPT ![n] = from]
         /\ held' \in {held, held \cup {n}}
  BY DEF IssueTokensAndCreateSession
<1>2. /\ n \in Sessions /\ status[n] = "none" /\ n \notin held /\ parent[n] = NoSession
      /\ parent \in [Sessions -> Sessions \cup {NoSession}]
      /\ status \in [Sessions -> {"none", "active", "inactive"}]
  BY DEF Fresh, SessionInv, RowsAreOwned, TypeOK
<1>3. /\ \A x \in Requests : req'[x] = IF x = r THEN Idle ELSE req[x]
      /\ Idle.pc = "idle"
  BY DEF SessionInv, TypeOK, IssueTokensAndCreateSession, Answer, Idle
<1>4. \A x \in Requests : req[x].pc \notin {"idle", "login"} => req[x].sess # n
  BY <1>2 DEF SessionInv, RequestsKnowTheirUser
<1>5. from # n
  BY <1>2, <1>4, NoSessionAssumption
<1>6. \A s \in Sessions : Children(s)' = IF s = from THEN Children(s) \cup {n} ELSE Children(s)
  BY <1>1, <1>2, NoSessionAssumption DEF Children
<1>7. from # NoSession => Children(from) = {} /\ Rotating(from)
  BY DEF ExchangesAlone, Rotating
<1>8. \A s \in Sessions : Live(s) => s # from /\ Live(s)'
  BY <1>3, <1>6, <1>7, NoSessionAssumption DEF Live, Rotating
<1>9. Live(n)'
  <2>1. Children(n) = {}
    BY <1>2, NoSessionAssumption DEF Children, SessionInv, ReplacedSessionIsClosed
  <2>2. QED
    BY <1>2, <1>3, <1>4, <1>5, <1>6, <2>1 DEF Live, Rotating
<1>10. OneChild'
  <2>1. SUFFICES ASSUME NEW s \in Sessions PROVE \A a, b \in Children(s)' : a = b
    BY DEF OneChild
  <2>2. QED
    BY <1>6, <1>7, <2>1, NoSessionAssumption DEF OneChild
<1>11. ExchangesAlone'
  <2>1. ASSUME NEW s \in Sessions, NEW x \in Requests, req'[x].sess = s,
               req'[x].pc \in {"rotate", "rotated"}
        PROVE  /\ Children(s)' = {}
               /\ \A y \in Requests :
                    req'[y].pc \in {"rotate", "rotated"} /\ req'[y].sess = s => y = x
    <3>1. x # r /\ req'[x] = req[x]
      BY <1>3, <2>1
    <3>2. s # from
      BY <2>1, <3>1, NoSessionAssumption DEF ExchangesAlone
    <3>3. QED
      BY <1>3, <1>6, <2>1, <3>1, <3>2 DEF ExchangesAlone
  <2>2. ASSUME NEW s \in Sessions, NEW x \in Requests, req'[x].sess = s,
               req'[x].pc \in {"theft", "alarmed"}
        PROVE  status'[s] = "inactive" /\ Live(s)'
    <3>1. x # r /\ req'[x] = req[x]
      BY <1>3, <2>2
    <3>2. status[s] = "inactive" /\ Live(s)
      BY <2>2, <3>1 DEF ExchangesAlone
    <3>3. QED
      BY <1>1, <1>2, <1>8, <3>2
  <2>3. QED
    BY <2>1, <2>2 DEF ExchangesAlone
<1>12. QED
  BY <1>1, <1>2, <1>8, <1>9, <1>10, <1>11

\* What a step of the server leaves for the browser: live tokens stay live,
\* and a response carries nothing, or a live token nobody had.
LEMMA ServerEffect ==
  ASSUME SessionInv, ExchangesAlone, OneChild, answer \in [Requests -> held \cup {NoSession}],
         NEW r \in Requests, ServerStep(r)
  PROVE  /\ ExchangesAlone' /\ OneChild'
         /\ held \subseteq held'
         /\ \A s \in Sessions : Live(s) => Live(s)'
         /\ \E a \in (held' \ held) \cup {NoSession} :
              /\ answer' = [answer EXCEPT ![r] = a]
              /\ \A s \in Sessions : s = a => Live(s)'
<1>1. req[r] \in Request /\ req \in [Requests -> Request] /\ held \subseteq Sessions
      /\ status \in [Sessions -> {"none", "active", "inactive"}]
  BY DEF SessionInv, TypeOK
<1>2. ASSUME NEW S \in SUBSET Sessions, Deactivate(S)
      PROVE  \A s \in Sessions : status[s] = "inactive" => status'[s] = "inactive"
  BY <1>1, <1>2 DEF Deactivate
<1>3. Idle \in Request /\ Idle.pc = "idle"
  BY DEF Idle, Request, Phases
<1>4. CASE LoginIssue(r) \/ RotateIssue(r)
  <2>1. PICK from \in Sessions \cup {NoSession} :
          /\ from # NoSession => req[r].pc = "rotated" /\ req[r].sess = from
          /\ IssueTokensAndCreateSession(r, from)
    BY <1>1, <1>4 DEF LoginIssue, RotateIssue, Request
  <2>2. /\ ExchangesAlone' /\ OneChild'
        /\ \A s \in Sessions : Live(s) => Live(s)'
        /\ \E n \in Sessions \ held : held' \in {held, held \cup {n}} /\ Live(n)'
    BY <2>1, WithIssue
  <2>3. PICK n \in Sessions \ held : held' \in {held, held \cup {n}} /\ Live(n)'
    BY <2>2
  <2>4. req'[r].pc = "idle"
    BY <1>1, <1>3, <2>1 DEF IssueTokensAndCreateSession, Answer
  <2>5. answer' = [answer EXCEPT ![r] = IF held' # held THEN CHOOSE s \in held' \ held : TRUE
                                                         ELSE NoSession]
    BY <2>4 DEF ServerStep
  <2>6. CASE held' = held
    BY <2>2, <2>5, <2>6, NoSessionAssumption
  <2>7. CASE held' # held
    <3>1. held' \ held = {n}
      BY <2>3, <2>7
    <3>2. (CHOOSE s \in held' \ held : TRUE) = n
      BY <3>1
    <3>3. answer' = [answer EXCEPT ![r] = n] /\ n \in held' \ held
      BY <2>5, <2>7, <3>1, <3>2
    <3>4. QED
      BY <2>2, <2>3, <3>3
  <2>8. QED
    BY <2>6, <2>7
<1>5. CASE ~(LoginIssue(r) \/ RotateIssue(r))
  <2>1. parent' = parent /\ held' = held
    BY <1>5 DEF ServerStep, Proceed, Rotate, TheftRevoke, TheftAnswer, LogoutWrite, Crash
  <2>2. \A s \in Sessions : status[s] = "inactive" => status'[s] = "inactive"
    <3>1. {req[r].sess} \cap Sessions = {req[r].sess} \/ req[r].pc \notin {"rotate", "logout"}
      BY DEF SessionInv, RequestsKnowTheirUser
    <3>2. CASE Rotate(r) \/ LogoutWrite(r)
      <4>1. {req[r].sess} \in SUBSET Sessions /\ Deactivate({req[r].sess})
        BY <3>1, <3>2 DEF Rotate, LogoutWrite
      <4>2. QED
        BY <1>2, <4>1
    <3>3. CASE TheftRevoke(r)
      BY <1>2, <3>3 DEF TheftRevoke
    <3>4. CASE TheftAnswer(r) \/ Crash(r)
      BY <3>4 DEF TheftAnswer, Crash
    <3>5. QED
      BY <1>5, <3>2, <3>3, <3>4 DEF ServerStep, Proceed
  <2>3. PICK q \in Request :
          /\ req' = [req EXCEPT ![r] = q]
          /\ q.pc \in {"rotate", "rotated"} =>
                req[r].pc \in {"rotate", "rotated"} /\ q.sess = req[r].sess
          /\ q.pc \in {"theft", "alarmed"} =>
                req[r].pc \in {"theft", "alarmed"} /\ q.sess = req[r].sess
    <3>1. CASE Rotate(r)
      <4>1. /\ [req[r] EXCEPT !.pc = "rotated"] \in Request
            /\ [req[r] EXCEPT !.pc = "rotated"].pc = "rotated"
            /\ [req[r] EXCEPT !.pc = "rotated"].sess = req[r].sess
        BY <1>1 DEF Request, Phases
      <4>2. QED
        BY <3>1, <4>1 DEF Rotate
    <3>2. CASE TheftRevoke(r)
      <4>1. /\ [req[r] EXCEPT !.pc = "alarmed"] \in Request
            /\ [req[r] EXCEPT !.pc = "alarmed"].pc = "alarmed"
            /\ [req[r] EXCEPT !.pc = "alarmed"].sess = req[r].sess
        BY <1>1 DEF Request, Phases
      <4>2. QED
        BY <3>2, <4>1 DEF TheftRevoke
    <3>3. CASE TheftAnswer(r) \/ LogoutWrite(r) \/ Crash(r)
      BY <1>3, <3>3 DEF TheftAnswer, LogoutWrite, Crash, Answer
    <3>4. QED
      BY <1>5, <3>1, <3>2, <3>3 DEF ServerStep, Proceed
  <2>4. /\ ExchangesAlone' /\ OneChild'
        /\ \A s \in Sessions : Live(s) => Live(s)'
    BY <2>1, <2>2, <2>3, WithoutIssue
  <2>5. answer' = [answer EXCEPT ![r] = NoSession]
    BY <2>1 DEF ServerStep
  <2>6. QED
    BY <2>1, <2>4, <2>5, NoSessionAssumption
<1>6. QED
  BY <1>4, <1>5

\* The refresh of a live token: no other live token is touched by it.
LEMMA RefreshEffect ==
  ASSUME SessionInv, ExchangesAlone, OneChild,
         NEW r \in Requests, NEW s \in held, Live(s), RefreshRead(r, s)
  PROVE  /\ ExchangesAlone' /\ OneChild'
         /\ \A x \in Sessions : Live(x) /\ x # s => Live(x)'
<1>1. /\ parent' = parent /\ status' = status
      /\ s \in Sessions /\ status[s] \in {"active", "inactive"}
  BY HeldTokens DEF RefreshRead, SessionInv, TypeOK
<1>2. PICK q \in Request :
        /\ req' = [req EXCEPT ![r] = q] /\ q.sess = s
        /\ q.pc = IF status[s] = "active" THEN "rotate" ELSE "theft"
  <2> DEFINE q == [pc |-> IF status[s] = "active" THEN "rotate" ELSE "theft",
                   user |-> owner[s], sess |-> s, seen |-> Rows]
  <2>1. q \in Request /\ q.sess = s /\ q.pc = IF status[s] = "active" THEN "rotate" ELSE "theft"
    BY <1>1 DEF SessionInv, TypeOK, Request, Phases, Rows
  <2>2. QED
    BY <2>1 DEF RefreshRead
<1>3. \A x \in Requests : req'[x] = IF x = r THEN q ELSE req[x]
  BY <1>2 DEF SessionInv, TypeOK
<1>4. \A x : Children(x)' = Children(x)
  BY <1>1 DEF Children
<1>5. Children(s) = {} /\ \A x \in Requests : req[x].pc \in {"rotate", "rotated"} => req[x].sess # s
  BY DEF Live, Rotating
<1>6. \A x \in Sessions : Live(x) /\ x # s => Live(x)'
  BY <1>2, <1>3, <1>4 DEF Live, Rotating
<1>7. ASSUME NEW x \in Sessions, NEW y \in Requests, req'[y].sess = x,
             req'[y].pc \in {"rotate", "rotated"}
      PROVE  /\ Children(x)' = {}
             /\ \A z \in Requests :
                  req'[z].pc \in {"rotate", "rotated"} /\ req'[z].sess = x => z = y
  <2>1. CASE x = s
    BY <1>3, <1>4, <1>5, <1>7, <2>1
  <2>2. CASE x # s
    BY <1>2, <1>3, <1>4, <1>7, <2>2 DEF ExchangesAlone
  <2>3. QED
    BY <2>1, <2>2
<1>8. ASSUME NEW x \in Sessions, NEW y \in Requests, req'[y].sess = x,
             req'[y].pc \in {"theft", "alarmed"}
      PROVE  status'[x] = "inactive" /\ Live(x)'
  <2>1. status[x] = "inactive" /\ Live(x)
    BY <1>1, <1>2, <1>3, <1>8 DEF ExchangesAlone
  <2>2. CASE x = s
    <3>1. q.pc = "theft"
      BY <1>2, <2>1, <2>2
    <3>2. QED
      BY <1>1, <1>3, <1>4, <1>5, <2>1, <2>2, <3>1 DEF Live, Rotating
  <2>3. CASE x # s
    BY <1>1, <1>6, <2>1, <2>3
  <2>4. QED
    BY <2>2, <2>3
<1>9. QED
  BY <1>4, <1>6, <1>7, <1>8 DEF ExchangesAlone, OneChild

\* What a tab does on its own: no token is presented that could not be before.
LEMMA OnTheTab ==
  ASSUME ClientInv, UNCHANGED vars, ClientTypes',
         \A t \in Tabs : CallsInOrder(t)' /\ AnswersApart(t)',
         \A t \in Tabs : \A s \in held : Presentable(t, s)' => Presentable(t, s)
  PROVE  ClientInv'
<1>1. \A s : Children(s)' = Children(s) /\ (Rotating(s)' <=> Rotating(s))
  BY DEF vars, Children, Rotating
<1>2. \A s : Live(s)' <=> Live(s)
  BY <1>1 DEF Live
<1>3. SessionInv'
  BY StepKeepsInv DEF ClientInv
<1>4. ExchangesAlone' /\ OneChild'
  BY <1>1, <1>2 DEF ClientInv, ExchangesAlone, OneChild, vars
<1>5. \A t \in Tabs : \A s \in held' : Presentable(t, s)' => Live(s)'
  BY <1>2 DEF ClientInv, vars
<1>6. QED
  BY <1>3, <1>4, <1>5 DEF ClientInv

\* The fields of the calls of a tab.
LEMMA TabTypes ==
  ASSUME ClientTypes, NEW t \in Tabs
  PROVE  /\ renewal[t] \in Call /\ form[t] \in Form /\ form[t].call \in Call
         /\ NoCall \in Call /\ NoForm \in Form
BY DEF ClientTypes, Call, Form, NoCall, NoForm

\* The browser has one tab.  With two, each has a renewal of its own, and both
\* may present the same token (auth-refresh.ts, refreshInFlight is a variable
\* of the module).
OneTab == \E t : Tabs = {t}

\* API calls, and the renewal that a refused one starts.
LEMMA ApiStep ==
  ASSUME ClientInv, OneTab, NEW t \in Tabs,
         \/ ApiCall(t) \/ RetryAnswers(t)
         \/ \E s \in Sessions : ApiAnswers(t, s) \/ ApiUnauthorized(t, s)
  PROVE  ClientInv'
<1>1. /\ UNCHANGED <<vars, store, lapsed, form, answer>>
      /\ calls' \in [Tabs -> SUBSET Sessions] /\ retry' \in [Tabs -> Sessions \cup {NoSession}]
      /\ UNCHANGED renewal \/ Renew(t)
  <2>1. held \subseteq Sessions
    BY HeldTokens DEF ClientInv
  <2>2. QED
    BY <2>1 DEF ApiCall, RetryAnswers, ApiAnswers, ApiUnauthorized, ClientInv, ClientTypes
<1>2. /\ renewal[t] \in Call /\ form[t] \in Form /\ form[t].call \in Call
      /\ renewal \in [Tabs -> Call] /\ store \in held \cup {NoSession}
      /\ held \subseteq Sessions /\ held' = held
  BY <1>1, TabTypes, HeldTokens DEF ClientInv, ClientTypes, vars
<1>3. PICK q \in Call :
        /\ renewal' = [renewal EXCEPT ![t] = q]
        /\ q = renewal[t]
           \/ (/\ renewal[t].st = "none" /\ q.st = "sent" /\ q.via = NoRequest
               /\ q.sess = store /\ store # NoSession)
  <2>1. CASE UNCHANGED renewal
    BY <1>2, <2>1
  <2>2. CASE ~UNCHANGED renewal
    <3>1. /\ renewal[t].st = "none" /\ store # NoSession
          /\ renewal' = [renewal EXCEPT ![t] = [NoCall EXCEPT !.st = "sent", !.sess = store]]
      BY <1>1, <2>2 DEF Renew
    <3>2. /\ [NoCall EXCEPT !.st = "sent", !.sess = store] \in Call
          /\ [NoCall EXCEPT !.st = "sent", !.sess = store].st = "sent"
          /\ [NoCall EXCEPT !.st = "sent", !.sess = store].via = NoRequest
          /\ [NoCall EXCEPT !.st = "sent", !.sess = store].sess = store
      BY <1>2 DEF NoCall, Call
    <3>3. QED
      BY <3>1, <3>2
  <2>3. QED
    BY <2>1, <2>2
<1>4. /\ renewal'[t] = q /\ \A u \in Tabs : u = t
      /\ CallsInOrder(t) /\ AnswersApart(t)
  BY <1>2, <1>3 DEF OneTab, ClientInv
<1>5. ClientTypes'
  BY <1>1, <1>2, <1>3 DEF ClientInv, ClientTypes
<1>6. CallsInOrder(t)'
  BY <1>1, <1>2, <1>3, <1>4 DEF CallsInOrder
<1>7. \A r \in Requests : Awaits(t, r)' => Awaits(t, r)
  BY <1>1, <1>3, <1>4, NoRequestAssumption DEF Awaits
<1>8. AnswersApart(t)'
  BY <1>1, <1>3, <1>4, <1>7 DEF AnswersApart
<1>9. \A s \in held : Presentable(t, s)' => Presentable(t, s)
  BY <1>1, <1>3, <1>4, <1>7 DEF Presentable
<1>10. QED
  BY <1>1, <1>4, <1>5, <1>6, <1>8, <1>9, OnTheTab

\* A renewal fails, or a profile that was loaded again is refused.
LEMMA FailureStep ==
  ASSUME ClientInv, OneTab, NEW t \in Tabs, RenewalFails(t) \/ RetryUnauthorized(t)
  PROVE  ClientInv'
<1>1. /\ UNCHANGED <<vars, lapsed, calls, form, answer>>
      /\ store' \in {store, NoSession}
      /\ retry' \in [Tabs -> Sessions \cup {NoSession}]
  BY DEF RenewalFails, RetryUnauthorized, ClientInv, ClientTypes
<1>2. /\ renewal[t] \in Call /\ form[t] \in Form /\ form[t].call \in Call
      /\ renewal \in [Tabs -> Call] /\ store \in held \cup {NoSession}
      /\ held' = held /\ NoSession \notin held
  BY <1>1, TabTypes, HeldTokens DEF ClientInv, ClientTypes, vars
<1>3. PICK q \in Call :
        /\ renewal' = [renewal EXCEPT ![t] = q]
        /\ q = renewal[t] \/ (q.st = "failed" /\ q.via = NoRequest)
  <2>1. CASE RetryUnauthorized(t)
    BY <1>2, <2>1 DEF RetryUnauthorized
  <2>2. CASE RenewalFails(t)
    <3>1. /\ [NoCall EXCEPT !.st = "failed"] \in Call
          /\ [NoCall EXCEPT !.st = "failed"].st = "failed"
          /\ [NoCall EXCEPT !.st = "failed"].via = NoRequest
      BY DEF NoCall, Call
    <3>2. QED
      BY <2>2, <3>1 DEF RenewalFails
  <2>3. QED
    BY <2>1, <2>2
<1>4. /\ renewal'[t] = q /\ \A u \in Tabs : u = t
      /\ CallsInOrder(t) /\ AnswersApart(t)
  BY <1>2, <1>3 DEF OneTab, ClientInv
<1>5. ClientTypes'
  BY <1>1, <1>2, <1>3 DEF ClientInv, ClientTypes
<1>6. CallsInOrder(t)'
  BY <1>1, <1>2, <1>3, <1>4 DEF CallsInOrder
<1>7. \A r \in Requests : Awaits(t, r)' => Awaits(t, r)
  BY <1>1, <1>3, <1>4, NoRequestAssumption DEF Awaits
<1>8. AnswersApart(t)'
  BY <1>1, <1>3, <1>4, <1>7 DEF AnswersApart
<1>9. \A s \in held : Presentable(t, s)' => Presentable(t, s)
  BY <1>1, <1>2, <1>3, <1>4, <1>7 DEF Presentable
<1>10. QED
  BY <1>1, <1>4, <1>5, <1>6, <1>8, <1>9, OnTheTab

\* setTokens or clearTokens at the end of a renewal.
LEMMA RenewalEndsStep ==
  ASSUME ClientInv, OneTab, NEW t \in Tabs, RenewalEnds(t)
  PROVE  ClientInv'
<1>1. /\ UNCHANGED <<vars, lapsed, calls, form, answer>>
      /\ renewal' = [renewal EXCEPT ![t] = NoCall]
      /\ store' = IF renewal[t].st = "served" THEN answer[renewal[t].via] ELSE NoSession
      /\ renewal[t].st \in {"failed", "served"}
  BY DEF RenewalEnds, Answered
<1>2. /\ renewal[t] \in Call /\ form[t] \in Form /\ form[t].call \in Call /\ NoCall \in Call
      /\ NoCall.st = "none" /\ NoCall.via = NoRequest
      /\ renewal \in [Tabs -> Call] /\ answer \in [Requests -> held \cup {NoSession}]
      /\ held' = held /\ NoSession \notin held /\ held \subseteq Sessions
  BY <1>1, TabTypes, HeldTokens DEF ClientInv, ClientTypes, vars, NoCall
<1>3. /\ renewal'[t] = NoCall /\ \A u \in Tabs : u = t
      /\ CallsInOrder(t) /\ AnswersApart(t)
  BY <1>1, <1>2 DEF OneTab, ClientInv
<1>4. renewal[t].st = "served" => renewal[t].via \in Requests /\ Awaits(t, renewal[t].via)
  BY <1>2, <1>3 DEF CallsInOrder, Call, Awaits
<1>5. store' \in held \cup {NoSession}
  BY <1>1, <1>2, <1>4
<1>6. retry' \in [Tabs -> Sessions \cup {NoSession}]
  BY <1>2, <1>5 DEF RenewalEnds, ClientInv, ClientTypes
<1>7. ClientTypes'
  BY <1>1, <1>2, <1>5, <1>6 DEF ClientInv, ClientTypes
<1>8. CallsInOrder(t)'
  BY <1>1, <1>2, <1>3 DEF CallsInOrder
<1>9. \A r \in Requests : Awaits(t, r)' => Awaits(t, r) /\ r # renewal[t].via
  BY <1>1, <1>2, <1>3, NoRequestAssumption DEF Awaits, CallsInOrder
<1>10. AnswersApart(t)'
  BY <1>1, <1>2, <1>3, <1>4, <1>9 DEF AnswersApart
<1>11. \A s \in held : Presentable(t, s)' => Presentable(t, s)
  BY <1>1, <1>2, <1>3, <1>4, <1>9 DEF Presentable
<1>12. QED
  BY <1>1, <1>3, <1>7, <1>8, <1>10, <1>11, OnTheTab

\* The login page stores its answer; a logout is clicked, fails, and clears.
LEMMA FormStep ==
  ASSUME ClientInv, OneTab, NEW t \in Tabs,
         LoginEnds(t) \/ LogoutClick(t) \/ LogoutFails(t) \/ LogoutEnds(t)
  PROVE  ClientInv'
<1>1. UNCHANGED <<vars, lapsed, calls, retry, renewal, answer>>
  BY DEF LoginEnds, LogoutClick, LogoutFails, LogoutEnds
<1>2. /\ renewal[t] \in Call /\ form[t] \in Form /\ form[t].call \in Call
      /\ NoForm \in Form /\ NoForm.kind = "none" /\ NoForm.call.via = NoRequest
      /\ form \in [Tabs -> Form] /\ answer \in [Requests -> held \cup {NoSession}]
      /\ store \in held \cup {NoSession}
      /\ held' = held /\ NoSession \notin held /\ held \subseteq Sessions
  BY <1>1, TabTypes, HeldTokens DEF ClientInv, ClientTypes, vars, NoForm, NoCall
<1>3. /\ \A u \in Tabs : u = t
      /\ CallsInOrder(t) /\ AnswersApart(t)
  BY DEF OneTab, ClientInv
<1>4. form[t].kind = "login" =>
        form[t].call.via \in Requests /\ Awaits(t, form[t].call.via)
  BY <1>2, <1>3 DEF CallsInOrder, Awaits
<1>5. PICK f \in Form :
        /\ form' = [form EXCEPT ![t] = f]
        /\ f.kind # "login" /\ f.call.via = NoRequest
  <2>1. CASE LoginEnds(t) \/ LogoutEnds(t)
    BY <1>2, <2>1 DEF LoginEnds, LogoutEnds
  <2>2. CASE LogoutClick(t)
    <3> DEFINE f == [kind |-> "logout", call |-> [NoCall EXCEPT !.st = "sent", !.sess = store]]
    <3>1. f \in Form /\ f.kind # "login" /\ f.call.via = NoRequest
      BY <1>2 DEF Form, Call, NoCall
    <3>2. QED
      BY <2>2, <3>1 DEF LogoutClick
  <2>3. CASE LogoutFails(t)
    <3> DEFINE f == [form[t] EXCEPT !.call = [NoCall EXCEPT !.st = "failed"]]
    <3>1. f \in Form /\ f.kind # "login" /\ f.call.via = NoRequest
      BY <1>2, <2>3 DEF LogoutFails, Form, Call, NoCall
    <3>2. QED
      BY <2>3, <3>1 DEF LogoutFails
  <2>4. QED
    BY <2>1, <2>2, <2>3
<1>6. form'[t] = f /\ renewal' = renewal /\ answer' = answer
  BY <1>1, <1>2, <1>5
<1>7. \/ store' \in {store, NoSession}
      \/ /\ form[t].kind = "login"
         /\ store' = answer[form[t].call.via] /\ store' # NoSession
  BY DEF LoginEnds, LogoutClick, LogoutFails, LogoutEnds
<1>8. store' \in held \cup {NoSession}
  BY <1>2, <1>4, <1>7
<1>9. ClientTypes'
  BY <1>1, <1>2, <1>5, <1>8 DEF ClientInv, ClientTypes
<1>10. CallsInOrder(t)'
  BY <1>2, <1>3, <1>5, <1>6 DEF CallsInOrder
<1>11. \A r \in Requests : Awaits(t, r)' =>
         Awaits(t, r) /\ renewal[t].via = r /\ (form[t].kind = "login" => r # form[t].call.via)
  BY <1>3, <1>5, <1>6, NoRequestAssumption DEF Awaits, CallsInOrder
<1>12. AnswersApart(t)'
  BY <1>3, <1>4, <1>6, <1>7, <1>11 DEF AnswersApart
<1>13. \A s \in held : Presentable(t, s)' => Presentable(t, s)
  BY <1>2, <1>4, <1>6, <1>7, <1>11 DEF Presentable
<1>14. QED
  BY <1>1, <1>3, <1>9, <1>10, <1>12, <1>13, OnTheTab

\* An access token lapses, a session expires.
LEMMA TimeStep ==
  ASSUME ClientInv, NEW s \in Sessions,
         AccessLapses(s) \/ (Expire(s) /\ UNCHANGED clientVars)
  PROVE  ClientInv'
<1>1. /\ UNCHANGED <<status, owner, parent, held, req>>
      /\ UNCHANGED <<store, calls, retry, renewal, form, answer>>
      /\ lapsed' = lapsed \/ (lapsed' = lapsed \cup {s} /\ s \in held)
  BY DEF AccessLapses, Expire, clientVars, vars
<1>2. SessionInv'
  BY ClientStepIsNext, StepKeepsInv DEF ClientInv, ClientNext
<1>3. ClientTypes'
  BY <1>1 DEF ClientInv, ClientTypes
<1>4. \A x : Children(x)' = Children(x) /\ (Rotating(x)' <=> Rotating(x))
  BY <1>1 DEF Children, Rotating
<1>5. \A x : Live(x)' <=> Live(x)
  BY <1>4 DEF Live
<1>6. ExchangesAlone' /\ OneChild'
  BY <1>1, <1>4, <1>5 DEF ClientInv, ExchangesAlone, OneChild
<1>7. \A t \in Tabs : \A r : Awaits(t, r)' <=> Awaits(t, r)
  BY <1>1 DEF Awaits
<1>8. \A t \in Tabs : CallsInOrder(t)' /\ AnswersApart(t)'
  BY <1>1, <1>7 DEF ClientInv, CallsInOrder, AnswersApart
<1>9. \A t \in Tabs : \A x \in held' : Presentable(t, x)' => Live(x)'
  BY <1>1, <1>5, <1>7 DEF ClientInv, Presentable
<1>10. QED
  BY <1>2, <1>3, <1>6, <1>8, <1>9 DEF ClientInv

\* The server goes on with a request of the browser, or stops.
LEMMA ServerKeepsInv ==
  ASSUME ClientInv, NEW r \in Requests, ServerStep(r)
  PROVE  ClientInv'
<1>1. UNCHANGED <<store, lapsed, calls, retry, renewal, form>>
  BY DEF ServerStep
<1>2. /\ store \in held \cup {NoSession} /\ answer \in [Requests -> held \cup {NoSession}]
      /\ held \subseteq Sessions /\ NoSession \notin Sessions
  BY HeldTokens, NoSessionAssumption DEF ClientInv, ClientTypes
<1>3. /\ ExchangesAlone' /\ OneChild'
      /\ held \subseteq held'
      /\ \A s \in Sessions : Live(s) => Live(s)'
  BY <1>2, ServerEffect DEF ClientInv
<1>4. PICK a \in (held' \ held) \cup {NoSession} :
        /\ answer' = [answer EXCEPT ![r] = a]
        /\ \A s \in Sessions : s = a => Live(s)'
  BY <1>2, ServerEffect DEF ClientInv
<1>5. SessionInv'
  BY ClientStepIsNext, StepKeepsInv DEF ClientInv, ClientNext
<1>6. held' \subseteq Sessions
  BY <1>5 DEF SessionInv, TypeOK
<1>7. ClientTypes'
  BY <1>1, <1>3, <1>4 DEF ClientInv, ClientTypes
<1>8. \A t \in Tabs : \A q : Awaits(t, q)' <=> Awaits(t, q)
  BY <1>1 DEF Awaits
<1>9. \A q \in Requests : answer'[q] = IF q = r THEN a ELSE answer[q]
  BY <1>2, <1>4
<1>10. ASSUME NEW t \in Tabs PROVE CallsInOrder(t)'
  BY <1>1, <1>3 DEF ClientInv, CallsInOrder
<1>11. ASSUME NEW t \in Tabs PROVE AnswersApart(t)'
  <2>1. SUFFICES ASSUME NEW q \in Requests, Awaits(t, q), answer'[q] # NoSession
                 PROVE  /\ renewal[t].st \in {"none", "sent"} => answer'[q] # store
                        /\ renewal[t].st = "sent" => answer'[q] # renewal[t].sess
                        /\ \A p \in Requests : Awaits(t, p) /\ p # q => answer'[p] # answer'[q]
    BY <1>1, <1>8 DEF AnswersApart
  <2>2. renewal[t].st = "sent" => renewal[t].sess \in held
    BY DEF ClientInv, CallsInOrder
  <2>3. AnswersApart(t)
    BY DEF ClientInv
  <2>4. CASE q = r
    BY <1>2, <1>4, <1>9, <2>1, <2>2, <2>4
  <2>5. CASE q # r
    BY <1>2, <1>4, <1>9, <2>1, <2>3, <2>5 DEF AnswersApart
  <2>6. QED
    BY <2>4, <2>5
<1>12. ASSUME NEW t \in Tabs, NEW s \in held', Presentable(t, s)' PROVE Live(s)'
  <2>1. CASE s = a
    BY <1>4, <1>6, <2>1
  <2>2. CASE s # a
    <3>1. Presentable(t, s)
      BY <1>1, <1>8, <1>9, <1>12, <2>2 DEF Presentable
    <3>2. s \in held
      <4>1. s \in Sessions /\ CallsInOrder(t)
        BY <1>6, <1>12 DEF ClientInv
      <4>2. QED
        BY <1>2, <3>1, <4>1 DEF Presentable, CallsInOrder
    <3>3. QED
      BY <1>2, <1>3, <3>1, <3>2 DEF ClientInv
  <2>3. QED
    BY <2>1, <2>2
<1>13. QED
  BY <1>3, <1>5, <1>7, <1>10, <1>11, <1>12 DEF ClientInv

\* A request of a form: the login page, the logout.
LEMMA FormRequest ==
  ASSUME ClientInv, OneTab, NEW t \in Tabs, LoginSubmit(t) \/ LogoutArrives(t)
  PROVE  ClientInv'
<1>1. /\ UNCHANGED <<store, lapsed, calls, retry, renewal>>
      /\ UNCHANGED <<status, owner, parent, expired, held>>
  BY DEF LoginSubmit, LogoutArrives, Login, Logout
<1>2. /\ renewal[t] \in Call /\ form[t] \in Form /\ form[t].call \in Call
      /\ form \in [Tabs -> Form] /\ answer \in [Requests -> held \cup {NoSession}]
      /\ held \subseteq Sessions
      /\ \A u \in Tabs : u = t
      /\ CallsInOrder(t) /\ AnswersApart(t)
  BY TabTypes, HeldTokens DEF ClientInv, ClientTypes, OneTab
<1>3. PICK r \in Requests, q \in Request, f \in Form :
        /\ Free(r)
        /\ req' = [req EXCEPT ![r] = q] /\ q.pc \in {"login", "logout"}
        /\ form' = [form EXCEPT ![t] = f]
        /\ f.call.via = r /\ (f.kind = "login" => f.call.st = "served")
        /\ answer' = [answer EXCEPT ![r] = NoSession]
  <2>1. CASE LoginSubmit(t)
    <3>1. PICK r \in Requests, u \in Users :
            /\ Free(r) /\ Login(r, u)
            /\ form' = [form EXCEPT ![t] =
                 [kind |-> "login", call |-> [NoCall EXCEPT !.st = "served", !.via = r]]]
            /\ answer' = [answer EXCEPT ![r] = NoSession]
      BY <2>1 DEF LoginSubmit
    <3> DEFINE q == [Idle EXCEPT !.pc = "login", !.user = u]
               f == [kind |-> "login", call |-> [NoCall EXCEPT !.st = "served", !.via = r]]
    <3>2. q \in Request /\ q.pc = "login"
      BY DEF Idle, Request, Phases
    <3>3. f \in Form /\ f.call.via = r /\ f.call.st = "served"
      BY DEF Form, Call, NoCall
    <3>4. req' = [req EXCEPT ![r] = q]
      BY <3>1 DEF Login
    <3>5. form' = [form EXCEPT ![t] = f]
      BY <3>1
    <3> HIDE DEF q, f
    <3>6. QED
      BY <3>1, <3>2, <3>3, <3>4, <3>5
  <2>2. CASE LogoutArrives(t)
    <3>1. PICK r \in Requests :
            /\ Free(r) /\ Logout(r, form[t].call.sess)
            /\ form' = [form EXCEPT ![t].call.st = "served", ![t].call.via = r]
            /\ answer' = [answer EXCEPT ![r] = NoSession]
      BY <2>2 DEF LogoutArrives
    <3> DEFINE s == form[t].call.sess
               q == [Idle EXCEPT !.pc = "logout", !.user = owner[s], !.sess = s]
               f == [form[t] EXCEPT !.call.st = "served", !.call.via = r]
    <3>2. s \in Sessions
      BY <1>2, <3>1 DEF Logout, Authenticated
    <3>3. q \in Request /\ q.pc = "logout"
      BY <3>2 DEF Idle, Request, Phases, ClientInv, SessionInv, TypeOK
    <3>4. f \in Form /\ f.call.via = r /\ f.kind = "logout"
      BY <1>2, <2>2 DEF Form, Call, LogoutArrives
    <3>5. req' = [req EXCEPT ![r] = q]
      BY <3>1 DEF Logout
    <3>6. form' = [form EXCEPT ![t] = f]
      BY <1>2, <3>1 DEF Form, Call
    <3> HIDE DEF s, q, f
    <3>7. QED
      BY <3>1, <3>3, <3>4, <3>5, <3>6
  <2>3. QED
    BY <2>1, <2>2
<1>4. /\ ExchangesAlone' /\ OneChild'
      /\ \A s \in Sessions : Live(s) => Live(s)'
  <2>1. \A s \in Sessions : status[s] = "inactive" => status'[s] = "inactive"
    BY <1>1
  <2>2. QED
    BY <1>1, <1>3, <2>1, WithoutIssue DEF ClientInv
<1>5. SessionInv'
  BY ClientStepIsNext, StepKeepsInv DEF ClientInv, ClientNext
<1>6. ClientTypes'
  BY <1>1, <1>3 DEF ClientInv, ClientTypes
<1>7. /\ form'[t] = f /\ renewal' = renewal /\ renewal[t].via # r /\ NoRequest # r
      /\ \A x \in Requests : answer'[x] = IF x = r THEN NoSession ELSE answer[x]
  BY <1>1, <1>2, <1>3, NoRequestAssumption DEF Free
<1>8. CallsInOrder(t)'
  BY <1>1, <1>2, <1>3, <1>7 DEF CallsInOrder
<1>9. \A x \in Requests : Awaits(t, x)' /\ x # r => Awaits(t, x)
  BY <1>3, <1>7 DEF Awaits
<1>10. AnswersApart(t)'
  BY <1>1, <1>2, <1>7, <1>9 DEF AnswersApart
<1>11. ASSUME NEW s \in held', Presentable(t, s)' PROVE Live(s)'
  <2>1. s \in held /\ s \in Sessions /\ s # NoSession
    BY <1>1, <1>2, HeldTokens DEF ClientInv
  <2>2. Presentable(t, s)
    BY <1>1, <1>7, <1>9, <1>11, <2>1 DEF Presentable
  <2>3. QED
    BY <1>4, <2>1, <2>2 DEF ClientInv
<1>12. QED
  BY <1>2, <1>4, <1>5, <1>6, <1>8, <1>10, <1>11 DEF ClientInv

\* The renewal reaches the server with a token that is live: it is exchanged,
\* or raises an alarm that is a false one, and the tab has sent it away.
LEMMA RenewalArrivesStep ==
  ASSUME ClientInv, OneTab, NEW t \in Tabs, RenewalArrives(t)
  PROVE  ClientInv'
<1>1. /\ UNCHANGED <<store, lapsed, calls, retry, form>>
      /\ renewal[t].st = "sent"
  BY DEF RenewalArrives
<1>2. /\ renewal[t] \in Call /\ form[t] \in Form /\ form[t].call \in Call
      /\ renewal \in [Tabs -> Call] /\ answer \in [Requests -> held \cup {NoSession}]
      /\ held \subseteq Sessions
      /\ \A u \in Tabs : u = t
      /\ CallsInOrder(t) /\ AnswersApart(t)
  BY TabTypes, HeldTokens DEF ClientInv, ClientTypes, OneTab
<1>3. PICK r \in Requests :
        /\ Free(r) /\ RefreshRead(r, renewal[t].sess)
        /\ renewal' = [renewal EXCEPT ![t].st = "served", ![t].via = r]
        /\ answer' = [answer EXCEPT ![r] = NoSession]
  BY DEF RenewalArrives
<1>4. PICK q \in Call :
        renewal' = [renewal EXCEPT ![t] = q] /\ q.st = "served" /\ q.via = r
  <2> DEFINE q == [renewal[t] EXCEPT !.st = "served", !.via = r]
  <2>1. q \in Call /\ q.st = "served" /\ q.via = r
    BY <1>2 DEF Call
  <2>2. renewal' = [renewal EXCEPT ![t] = q]
    BY <1>2, <1>3 DEF Call
  <2> HIDE DEF q
  <2>3. QED
    BY <2>1, <2>2
<1>5. PICK s \in held : s = renewal[t].sess
  BY <1>1, <1>2 DEF CallsInOrder
<1>6. Live(s)
  BY <1>1, <1>5 DEF ClientInv, Presentable
<1>7. /\ ExchangesAlone' /\ OneChild'
      /\ \A x \in Sessions : Live(x) /\ x # s => Live(x)'
  <2>1. RefreshRead(r, s)
    BY <1>3, <1>5
  <2>2. QED
    BY <1>6, <2>1, RefreshEffect DEF ClientInv
<1>8. SessionInv'
  BY ClientStepIsNext, StepKeepsInv DEF ClientInv, ClientNext
<1>9. held' = held
  BY <1>3 DEF RefreshRead
<1>10. ClientTypes'
  BY <1>1, <1>3, <1>4, <1>9 DEF ClientInv, ClientTypes
<1>11. /\ renewal'[t] = q /\ form' = form /\ form[t].call.via # r /\ NoRequest # r
       /\ \A x \in Requests : answer'[x] = IF x = r THEN NoSession ELSE answer[x]
  BY <1>1, <1>2, <1>3, <1>4, NoRequestAssumption DEF Free
<1>12. CallsInOrder(t)'
  BY <1>2, <1>4, <1>9, <1>11 DEF CallsInOrder
<1>13. \A x \in Requests : Awaits(t, x)' /\ x # r => Awaits(t, x)
  BY <1>4, <1>11 DEF Awaits
<1>14. AnswersApart(t)'
  BY <1>2, <1>4, <1>11, <1>13 DEF AnswersApart
<1>15. ASSUME NEW x \in held', Presentable(t, x)' PROVE Live(x)'
  <2>1. x \in held /\ x \in Sessions /\ x # NoSession
    BY <1>2, <1>9, <1>15, HeldTokens DEF ClientInv
  <2>2. PICK y \in Requests : Awaits(t, y)' /\ answer'[y] = x
    BY <1>4, <1>11, <1>15 DEF Presentable
  <2>3. y # r /\ Awaits(t, y) /\ answer[y] = x
    BY <1>11, <1>13, <2>1, <2>2
  <2>4. x # s /\ Presentable(t, x)
    BY <1>1, <1>2, <1>5, <2>1, <2>3 DEF AnswersApart, Presentable
  <2>5. QED
    BY <1>7, <2>1, <2>4 DEF ClientInv
<1>16. QED
  BY <1>2, <1>7, <1>8, <1>10, <1>12, <1>14, <1>15 DEF ClientInv

LEMMA ClientInit_Inv ==
  ASSUME ClientInit PROVE ClientInv
<1>1. SessionInv
  BY InitSatisfiesInv DEF ClientInit
<1>2. /\ \A r \in Requests : req[r].pc = "idle" /\ answer[r] = NoSession
      /\ \A s \in Sessions : parent[s] = NoSession
      /\ held = {} /\ store = NoSession
  BY DEF ClientInit, Init, Idle
<1>3. \A t \in Tabs : /\ renewal[t].st = "none" /\ renewal[t].via = NoRequest
                      /\ form[t].kind = "none"
  BY DEF ClientInit, NoCall, NoForm
<1>4. ClientTypes
  <2>1. NoCall \in Call /\ NoForm \in Form
    BY DEF NoCall, NoForm, Call, Form
  <2>2. QED
    BY <1>2, <2>1 DEF ClientInit, ClientTypes
<1>5. \A s \in Sessions : Children(s) = {}
  BY <1>2, NoSessionAssumption DEF Children
<1>6. ExchangesAlone /\ OneChild
  BY <1>2, <1>5 DEF ExchangesAlone, OneChild
<1>7. ASSUME NEW t \in Tabs PROVE CallsInOrder(t) /\ AnswersApart(t)
  BY <1>2, <1>3 DEF CallsInOrder, AnswersApart
<1>8. QED
  BY <1>1, <1>2, <1>4, <1>6, <1>7 DEF ClientInv

LEMMA ClientStep ==
  ASSUME OneTab, ClientInv, [ClientNext]_browserVars PROVE ClientInv'
<1>1. CASE UNCHANGED browserVars
  <2>1. UNCHANGED vars /\ UNCHANGED clientVars
    BY <1>1 DEF browserVars
  <2>2. ClientTypes' /\ \A t \in Tabs : \A r : Awaits(t, r)' <=> Awaits(t, r)
    BY <2>1 DEF ClientInv, ClientTypes, clientVars, vars, Awaits
  <2>3. \A t \in Tabs : CallsInOrder(t)' /\ AnswersApart(t)'
    BY <2>1, <2>2 DEF ClientInv, CallsInOrder, AnswersApart, clientVars, vars
  <2>4. \A t \in Tabs : \A s \in held : Presentable(t, s)' => Presentable(t, s)
    BY <2>1, <2>2 DEF Presentable, clientVars
  <2>5. QED
    BY <2>1, <2>2, <2>3, <2>4, OnTheTab
<1>2. CASE ClientNext
  <2>1. ASSUME NEW t \in Tabs,
               \/ ApiCall(t)
               \/ \E s \in Sessions : ApiAnswers(t, s) \/ ApiUnauthorized(t, s)
               \/ RenewalArrives(t) \/ RenewalFails(t) \/ RenewalEnds(t)
               \/ RetryUnauthorized(t) \/ RetryAnswers(t)
        PROVE  ClientInv'
    BY <2>1, ApiStep, FailureStep, RenewalEndsStep, RenewalArrivesStep
  <2>2. ASSUME NEW t \in Tabs,
               \/ LoginSubmit(t) \/ LoginEnds(t)
               \/ LogoutClick(t) \/ LogoutArrives(t) \/ LogoutFails(t) \/ LogoutEnds(t)
        PROVE  ClientInv'
    BY <2>2, FormStep, FormRequest
  <2>3. QED
    BY <1>2, <2>1, <2>2, ServerKeepsInv, TimeStep DEF ClientNext
<1>3. QED
  BY <1>1, <1>2

\* The tokens of a browser with one tab are in order, whatever calls overlap,
\* responses are lost and requests stop half-way: what it can still present
\* has not been exchanged and is not being exchanged, and no two responses
\* carry the same.
THEOREM TokensInOrder ==
  ASSUME OneTab PROVE ClientSpec => []ClientInv
<1>1. ClientInit => ClientInv
  BY ClientInit_Inv
<1>2. ClientInv /\ [ClientNext]_browserVars => ClientInv'
  BY ClientStep
<1>3. QED
  BY <1>1, <1>2, PTL DEF ClientSpec

\* A browser never presents a token that was exchanged already: the alarm of
\* replayed tokens is never raised for its user by a renewal of its own
\* (auth-refresh.ts 9-14, one renewal in flight).
THEOREM NoReplayByTheBrowser ==
  ASSUME OneTab PROVE ClientSpec => []RotatedTokenNotPresented
<1>1. ClientInv => RotatedTokenNotPresented
  BY DEF ClientInv, ExchangesAlone, Live, RotatedTokenNotPresented, SessionInv,
         RequestsKnowTheirUser
<1>2. QED
  BY <1>1, TokensInOrder, PTL

\* When nothing is in progress the token in the store is the end of its chain.
THEOREM StoredTokenIsTheLast ==
  ASSUME OneTab PROVE ClientSpec => []StoredTokenIsFresh
<1>1. ASSUME ClientInv, store # NoSession, \A t \in Tabs : renewal[t].st = "none"
      PROVE  Children(store) = {}
  <2>0. PICK t \in Tabs : TRUE
    BY DEF OneTab
  <2>1. store \in held /\ Presentable(t, store)
    BY <1>1, <2>0 DEF ClientInv, ClientTypes, Presentable
  <2>2. QED
    BY <1>1, <2>1 DEF ClientInv, Live
<1>2. ClientInv => StoredTokenIsFresh
  BY <1>1 DEF StoredTokenIsFresh
<1>3. QED
  BY <1>2, TokensInOrder, PTL

\* A refresh token is exchanged for at most one session, as auth-refresh.ts
\* 9-12 and auth.service.ts 8-11 say, if the browser that has it is one tab:
\* the handlers alone do not guarantee it.
THEOREM ExchangedOnceByTheBrowser ==
  ASSUME OneTab PROVE ClientSpec => []TokenExchangedOnce
<1>1. ASSUME OneChild, NEW s \in Sessions PROVE Cardinality(Children(s)) <= 1
  <2>1. CASE Children(s) = {}
    BY <2>1, FS_EmptySet
  <2>2. CASE Children(s) # {}
    <3>1. PICK c \in Children(s) : Children(s) = {c}
      BY <1>1, <2>2 DEF OneChild
    <3>2. Cardinality({c}) = 1
      BY FS_Singleton
    <3>3. QED
      BY <3>1, <3>2
  <2>3. QED
    BY <2>1, <2>2
<1>2. ClientInv => TokenExchangedOnce
  BY <1>1 DEF ClientInv, TokenExchangedOnce
<1>3. QED
  BY <1>2, TokensInOrder, PTL

\* Whatever the browser does, in any number of tabs, the session handlers go
\* through one of their behaviours: the theorems about them hold under it.
THEOREM BrowserUsesTheSessions == ClientSpec => Spec
<1>1. ClientInit => Init /\ SessionInv
  BY InitSatisfiesInv DEF ClientInit
<1>2. SessionInv /\ [ClientNext]_browserVars => [Next]_vars /\ SessionInv'
  BY ClientStepIsNext, StepKeepsInv DEF browserVars
<1>3. QED
  BY <1>1, <1>2, PTL DEF ClientSpec, Spec

-----------------------------------------------------------------------------
(* The page of the decisions.  That an outcome is visible is not preserved *)
(* by itself: a decision that succeeds sets no error aside, so the one     *)
(* before must have gone when it began.                                    *)

LEMMA CodaParti ==
  ASSUME CodaTipi
  PROVE  /\ \A f \in Filtri : Carica(f) \in InVolo /\ Carica(f).tipo = "lista"
         /\ \A f : RigheDi(f) \in SUBSET RigaCoda
         /\ Quiete \in InVolo /\ Quiete.tipo \notin {"lista", "listaLetta"}
         /\ dettaglio # Nessuno => dettaglio \in RigaCoda
         /\ azione # Nessuno => azione \in InAzione
<1>1. \A f \in Filtri : Carica(f) \in InVolo /\ Carica(f).tipo = "lista"
  BY DEF Carica, InVolo
<1>2. \A f : RigheDi(f) \in SUBSET RigaCoda
  <2>1. ASSUME NEW f, NEW x \in RigheDi(f) PROVE x \in RigaCoda
    <3>1. PICK n \in IF f = "inviata" THEN daDecidere ELSE Note :
            x = [nota |-> n, decidibile |-> n \in daDecidere]
      BY <2>1 DEF RigheDi
    <3>2. n \in Note
      BY DEF CodaTipi
    <3>3. QED
      BY <3>1, <3>2 DEF RigaCoda
  <2>2. QED
    BY <2>1
<1>3. QED
  BY <1>1, <1>2 DEF Quiete, InVolo, CodaTipi

LEMMA CodaInizio ==
  ASSUME CodaInit PROVE CodaInv
<1> DEFINE c == CHOOSE x \in Chiamata : TRUE
<1>1. c \in Chiamata
  BY CodaAssumption
<1>2. Carica("inviata") \in InVolo /\ Quiete \in InVolo /\ Carica("inviata").tipo = "lista"
  BY DEF Carica, Quiete, InVolo, Filtri
<1>3. volo = [[x \in Chiamata |-> Quiete] EXCEPT ![c] = Carica("inviata")]
  BY DEF CodaInit
<1> HIDE DEF c
<1>4. volo \in [Chiamata -> InVolo] /\ volo[c].tipo = "lista"
  BY <1>1, <1>2, <1>3
<1>5. CodaTipi
  BY <1>4 DEF CodaInit, CodaTipi, Filtri
<1>6. QED
  BY <1>1, <1>4, <1>5, CodaAssumption DEF CodaInit, CodaInv, EsitoVisibile

\* A call starts or ends: the list that is loading remains in flight.
LEMMA CodaChiamata ==
  ASSUME CodaInv, NEW c \in Chiamata, NEW x \in InVolo, volo' = [volo EXCEPT ![c] = x],
         isLoading' = isLoading \/ isLoading' = TRUE \/ isLoading' = FALSE,
         isLoading' => \/ x.tipo \in {"lista", "listaLetta"}
                       \/ isLoading /\ volo[c].tipo \notin {"lista", "listaLetta"}
  PROVE  /\ volo' \in [Chiamata -> InVolo] /\ isLoading' \in BOOLEAN
         /\ isLoading' => \E d \in Chiamata : volo'[d].tipo \in {"lista", "listaLetta"}
<1>1. volo \in [Chiamata -> InVolo] /\ isLoading \in BOOLEAN
  BY DEF CodaInv, CodaTipi
<1>2. volo' \in [Chiamata -> InVolo] /\ volo'[c] = x
  BY <1>1
<1>3. isLoading' => \E d \in Chiamata : volo'[d].tipo \in {"lista", "listaLetta"}
  BY <1>1, <1>2 DEF CodaInv
<1>4. QED
  BY <1>1, <1>2, <1>3

\* What changes neither the decision nor its outcome keeps the invariant, as
\* far as the note below a dialog and the list in flight are kept.
LEMMA CodaSenzaDecisione ==
  ASSUME CodaInv, CodaTipi', UNCHANGED <<azione, azioneError, esito, decisa>>,
         dialogo' # Nessuno => dettaglio' # Nessuno,
         isLoading' => \E d \in Chiamata : volo'[d].tipo \in {"lista", "listaLetta"}
  PROVE  CodaInv'
BY DEF CodaInv, EsitoVisibile

\* What the user does without a call.
LEMMA CodaUtente ==
  ASSUME CodaInv,
         \/ ScaricaFallisce \/ Chiudi \/ ChiudiDialogo
         \/ \E n \in Note : Altri(n)
         \/ \E d \in {"approva", "respingi"} : ApriDialogo(d)
  PROVE  CodaInv'
<1>1. UNCHANGED <<filtro, items, isLoading, volo, azione, azioneError, esito, decisa>>
  BY DEF ScaricaFallisce, Chiudi, ChiudiDialogo, Altri, ApriDialogo
<1>2. CodaTipi'
  BY <1>1 DEF CodaInv, CodaTipi, ScaricaFallisce, Chiudi, ChiudiDialogo, Altri, ApriDialogo
<1>3. dialogo' # Nessuno => dettaglio' # Nessuno
  BY DEF CodaInv, ScaricaFallisce, Chiudi, ChiudiDialogo, Altri, ApriDialogo
<1>4. QED
  BY <1>1, <1>2, <1>3, CodaSenzaDecisione DEF CodaInv

\* A load starts: the list, or the note below it.
LEMMA CodaCarica ==
  ASSUME CodaInv, NEW c \in Chiamata,
         (\E n \in Note : Apri(n, c)) \/ (\E f \in Filtri : Filtra(f, c))
  PROVE  CodaInv'
<1>1. CASE \E n \in Note : Apri(n, c)
  <2>1. PICK n \in Note : Apri(n, c)
    BY <1>1
  <2>2. [tipo |-> "nota", nota |-> n] \in InVolo
    BY DEF InVolo
  <2>3. /\ volo' \in [Chiamata -> InVolo] /\ isLoading' \in BOOLEAN
        /\ isLoading' => \E d \in Chiamata : volo'[d].tipo \in {"lista", "listaLetta"}
    BY <2>1, <2>2, CodaParti, CodaChiamata DEF Apri, CodaInv
  <2>4. CodaTipi'
    BY <2>1, <2>3 DEF Apri, CodaInv, CodaTipi
  <2>5. QED
    BY <2>1, <2>3, <2>4, CodaSenzaDecisione DEF Apri, CodaInv
<1>2. CASE \E f \in Filtri : Filtra(f, c)
  <2>1. PICK f \in Filtri : Filtra(f, c)
    BY <1>2
  <2>2. Carica(f) \in InVolo /\ Carica(f).tipo = "lista"
    BY CodaParti DEF CodaInv
  <2>3. /\ volo' \in [Chiamata -> InVolo] /\ isLoading' \in BOOLEAN
        /\ isLoading' => \E d \in Chiamata : volo'[d].tipo \in {"lista", "listaLetta"}
    BY <2>1, <2>2, CodaChiamata DEF Filtra
  <2>4. CodaTipi'
    BY <2>1, <2>3 DEF Filtra, CodaInv, CodaTipi
  <2>5. QED
    BY <2>1, <2>3, <2>4, CodaSenzaDecisione DEF Filtra, CodaInv
<1>3. QED
  BY <1>1, <1>2

\* The server reads for a load.
LEMMA CodaLettura ==
  ASSUME CodaInv, NEW c \in Chiamata, Legge(c)
  PROVE  CodaInv'
<1>1. volo[c] \in InVolo
  BY DEF CodaInv, CodaTipi
<1>2. PICK x \in InVolo :
        /\ volo' = [volo EXCEPT ![c] = x]
        /\ x.tipo = "listaLetta" \/ (x.tipo = "notaLetta" /\ volo[c].tipo = "nota")
  <2>1. CASE volo[c].tipo = "lista"
    <3>1. PICK R : R = RigheDi(volo[c].filtro)
      OBVIOUS
    <3>2. [tipo |-> "listaLetta", righe |-> R] \in InVolo
      BY <3>1, CodaParti DEF InVolo, CodaInv
    <3>3. QED
      BY <2>1, <3>1, <3>2 DEF Legge
  <2>2. CASE volo[c].tipo = "nota"
    <3>1. volo[c].nota \in Note
      BY <1>1, <2>2 DEF InVolo, Quiete
    <3>2. [tipo |-> "notaLetta", nota |-> volo[c].nota,
           decidibile |-> volo[c].nota \in daDecidere] \in InVolo
      BY <3>1 DEF InVolo
    <3>3. QED
      BY <2>2, <3>2 DEF Legge
  <2>3. QED
    BY <2>1, <2>2 DEF Legge
<1>3. UNCHANGED <<daDecidere, filtro, items, isLoading, loadError, dettaglio, dialogo, azione,
                  azioneError, esito, decisa>>
  BY DEF Legge
<1>4. /\ volo' \in [Chiamata -> InVolo] /\ isLoading' \in BOOLEAN
      /\ isLoading' => \E d \in Chiamata : volo'[d].tipo \in {"lista", "listaLetta"}
  BY <1>2, <1>3, CodaChiamata
<1>5. CodaTipi'
  BY <1>3, <1>4 DEF CodaInv, CodaTipi
<1>6. QED
  BY <1>3, <1>4, <1>5, CodaSenzaDecisione DEF CodaInv

\* The answer of a load, which may replace the note below a dialog, never
\* take it away.
LEMMA CodaArrivo ==
  ASSUME CodaInv, NEW c \in Chiamata, Arriva(c)
  PROVE  CodaInv'
<1>1. volo[c] \in InVolo /\ Quiete \in InVolo
  BY CodaParti DEF CodaInv, CodaTipi
<1>2. items' \in SUBSET RigaCoda
  BY <1>1 DEF Arriva, InVolo, Quiete, CodaInv, CodaTipi
<1>3. dettaglio' = dettaglio \/ dettaglio' \in RigaCoda
  BY <1>1 DEF Arriva, InVolo, Quiete, RigaCoda
<1>4. /\ UNCHANGED <<daDecidere, filtro, dialogo, azione, azioneError, esito, decisa>>
      /\ volo' = [volo EXCEPT ![c] = Quiete]
      /\ loadError' \in BOOLEAN
  BY DEF Arriva, CodaInv, CodaTipi
<1>5. isLoading' = (isLoading /\ volo[c].tipo \notin {"lista", "listaLetta"})
  BY DEF Arriva
<1>6. /\ isLoading' \in BOOLEAN
      /\ isLoading' => isLoading /\ volo[c].tipo \notin {"lista", "listaLetta"}
  BY <1>5
<1>7. /\ volo' \in [Chiamata -> InVolo]
      /\ isLoading' => \E d \in Chiamata : volo'[d].tipo \in {"lista", "listaLetta"}
  BY <1>1, <1>4, <1>6, CodaChiamata
<1>8. CodaTipi'
  BY <1>2, <1>3, <1>4, <1>6, <1>7 DEF CodaInv, CodaTipi
<1>9. dialogo' # Nessuno => dettaglio' # Nessuno
  BY <1>3, <1>4, CodaAssumption DEF CodaInv
<1>10. QED
  BY <1>4, <1>7, <1>8, <1>9, CodaSenzaDecisione

\* A decision starts with a clean slate.
LEMMA CodaConferma ==
  ASSUME CodaInv, Conferma
  PROVE  CodaInv'
<1>1. dettaglio \in RigaCoda
  BY CodaParti DEF CodaInv, Conferma
<1>2. azione' \in InAzione
  BY <1>1 DEF Conferma, RigaCoda, InAzione, CodaInv, CodaTipi
<1>3. CodaTipi'
  BY <1>2 DEF Conferma, CodaInv, CodaTipi
<1>4. QED
  BY <1>3, CodaAssumption DEF Conferma, CodaInv, EsitoVisibile

\* It ends with its outcome on the page, and with a load.
LEMMA CodaDecide ==
  ASSUME CodaInv, NEW c \in Chiamata, Decide(c)
  PROVE  CodaInv'
<1>1. azione \in InAzione /\ ~azioneError /\ ~esito
  BY CodaParti DEF CodaInv, Decide
<1>2. azione.filtro \in Filtri /\ azione.nota \in Note
  BY <1>1 DEF InAzione
<1>3. PICK x \in InVolo : x = Carica(azione.filtro) /\ x.tipo = "lista"
  BY <1>2, CodaParti DEF CodaInv
<1>4. /\ volo' \in [Chiamata -> InVolo] /\ isLoading' \in BOOLEAN
      /\ isLoading' => \E d \in Chiamata : volo'[d].tipo \in {"lista", "listaLetta"}
  BY <1>3, CodaChiamata DEF Decide
<1>5. \/ azioneError' = azioneError /\ esito' = TRUE /\ decisa' = "accettata"
         /\ dettaglio' = Nessuno
      \/ azioneError' = TRUE /\ esito' = esito /\ decisa' = "rifiutata"
         /\ dettaglio' = dettaglio
  BY DEF Decide, AzioneAccettata, AzioneRifiutata
<1>6. daDecidere' \in SUBSET Note
  BY DEF Decide, CodaInv, CodaTipi
<1>7. CodaTipi'
  BY <1>4, <1>5, <1>6 DEF Decide, CodaInv, CodaTipi
<1>8. EsitoVisibile'
  BY <1>1, <1>5 DEF EsitoVisibile
<1>9. QED
  BY <1>4, <1>7, <1>8 DEF Decide, CodaInv

\* The page of the decisions is in order: types, a list that is loading is in
\* flight, a dialog is on top of a note, and no decision in progress sits
\* under the outcome of an earlier one.
THEOREM CodaInOrdine == CodaSpec => []CodaInv
<1>1. CodaInit => CodaInv
  BY CodaInizio
<1>2. CodaInv /\ [CodaNext]_codaVars => CodaInv'
  <2>1. SUFFICES ASSUME CodaInv, [CodaNext]_codaVars PROVE CodaInv'
    OBVIOUS
  <2>2. CASE UNCHANGED codaVars
    BY <2>1, <2>2 DEF codaVars, CodaInv, CodaTipi, EsitoVisibile
  <2>3. CASE CodaNext
    BY <2>1, <2>3, CodaUtente, CodaCarica, CodaLettura, CodaArrivo, CodaConferma, CodaDecide
    DEF CodaNext
  <2>4. QED
    BY <2>1, <2>2, <2>3
<1>3. QED
  BY <1>1, <1>2, PTL DEF CodaSpec

\* How the last decision ended stays on the page until the next one begins,
\* for any number of loads, in whatever order they end.
THEOREM EsitoSempreVisibile == CodaSpec => []EsitoVisibile
<1>1. CodaInv => EsitoVisibile
  BY DEF CodaInv
<1>2. QED
  BY <1>1, CodaInOrdine, PTL

-----------------------------------------------------------------------------
(* The page where notes are written.  That a form creates one note is kept *)
(* because the page has a note open as soon as it has, and the only call   *)
(* of the form that is in flight is the one it waits for.                  *)

LEMMA SchedaParti ==
  ASSUME SchedaTipi
  PROVE  /\ corrente # Nessuno => corrente \in NotaVista /\ IdCorrente \in Scritte
         /\ IdCorrente \in Scritte \cup {Nessuno}
         /\ Aperta => scheda \in SchedaRiga
         /\ \A c \in InCorso : invii[c] # NessunInvio => invii[c] \in Invio
         /\ NessunInvio.tipo \notin TipiForm
         /\ \A c \in InCorso : DellaScheda(c) => invii[c] \in Invio
<1>1. NessunInvio.tipo \notin TipiForm
  BY DEF NessunInvio, TipiForm
<1>2. \A c \in InCorso : invii[c] # NessunInvio => invii[c] \in Invio
  BY DEF SchedaTipi
<1>3. \A c \in InCorso : DellaScheda(c) => invii[c] \in Invio
  BY <1>1, <1>2 DEF DellaScheda
<1>4. corrente # Nessuno => corrente \in NotaVista /\ IdCorrente \in Scritte
  BY DEF SchedaTipi, IdCorrente, NotaVista
<1>5. QED
  BY <1>1, <1>2, <1>3, <1>4 DEF SchedaTipi, Aperta, IdCorrente

LEMMA SchedaInizio ==
  ASSUME SchedaInit PROVE SchedaInv
<1>1. \A c \in InCorso : invii[c] = NessunInvio /\ ~DellaScheda(c)
  BY DEF SchedaInit, DellaScheda, NessunInvio, TipiForm
<1>2. nota \in [Scritte -> {Nessuno, "bozza", "inviata", "eliminata"}]
  BY DEF SchedaInit
<1>3. QED
  BY <1>1, <1>2 DEF SchedaInit, SchedaInv, SchedaTipi, Aperta

\* A call that is sent, and not served yet.
LEMMA InvioNuovo ==
  ASSUME SchedaInv, NEW tipo \in TipiForm \cup TipiPagina, NEW n \in Scritte \cup {Nessuno}
  PROVE  [tipo |-> tipo, nota |-> n, montata |-> Aperta, servita |-> FALSE, riga |-> Nessuno,
          campi |-> IF Aperta THEN scheda.campi ELSE Nessuno] \in Invio
<1>1. (IF Aperta THEN scheda.campi ELSE Nessuno) \in Scritte \cup {Nessuno}
  BY SchedaParti DEF SchedaInv, SchedaRiga
<1>2. Aperta \in BOOLEAN
  BY DEF Aperta
<1>3. QED
  BY <1>1, <1>2 DEF Invio

\* A call of the page around the form leaves the form's own as they are.
LEMMA SchedaChiede ==
  ASSUME SchedaInv, NEW c \in InCorso, NEW tipo \in TipiPagina,
         NEW n \in Scritte \cup {Nessuno}, Spedisce(c, tipo, n),
         UNCHANGED <<nota, corrente, scheda, elimina>>
  PROVE  SchedaInv'
<1>1. PICK x \in Invio :
        /\ invii' = [invii EXCEPT ![c] = x]
        /\ x.tipo = tipo /\ x.servita = FALSE
  <2> DEFINE x == [tipo |-> tipo, nota |-> n, montata |-> Aperta, servita |-> FALSE,
                   riga |-> Nessuno, campi |-> IF Aperta THEN scheda.campi ELSE Nessuno]
  <2>1. x \in Invio
    BY InvioNuovo
  <2>2. x.tipo = tipo /\ x.servita = FALSE
    OBVIOUS
  <2>3. invii' = [invii EXCEPT ![c] = x]
    BY DEF Spedisce
  <2> HIDE DEF x
  <2>4. QED
    BY <2>1, <2>2, <2>3
<1>2. /\ invii \in [InCorso -> Invio \cup {NessunInvio}]
      /\ \A d \in InCorso : invii'[d] = IF d = c THEN x ELSE invii[d]
  BY <1>1 DEF SchedaInv, SchedaTipi
<1>3. \A d \in InCorso : DellaScheda(d)' => DellaScheda(d) /\ invii'[d] = invii[d]
  BY <1>1, <1>2 DEF DellaScheda, TipiForm, TipiPagina
<1>4. SchedaTipi'
  BY <1>1 DEF SchedaInv, SchedaTipi
<1>5. \A d \in InCorso : invii'[d] # NessunInvio /\ invii'[d].servita => invii'[d].riga # Nessuno
  BY <1>1, <1>2 DEF SchedaInv
<1>6. (Aperta' <=> Aperta) /\ (Aperta' => (scheda'.create = 1 => corrente' # Nessuno))
  BY DEF Aperta, SchedaInv
<1>7. QED
  BY <1>3, <1>4, <1>5, <1>6 DEF SchedaInv

\* Salva and InviaNota: the form did not wait for anything.
LEMMA SchedaSpedisce ==
  ASSUME SchedaInv, NEW c \in InCorso, Salva(c) \/ InviaNota(c)
  PROVE  SchedaInv'
<1>1. Aperta /\ scheda \in SchedaRiga /\ scheda.invio = FALSE
  BY SchedaParti DEF SchedaInv, Salva, InviaNota, SchedaRiga
<1>2. PICK tipo \in TipiForm :
        Spedisce(c, tipo, IdCorrente) /\ (tipo = "crea" => corrente = Nessuno)
  BY DEF Salva, InviaNota, TipiForm
<1>3. PICK x \in Invio :
        /\ invii' = [invii EXCEPT ![c] = x]
        /\ x.tipo = tipo /\ x.servita = FALSE
  <2> DEFINE x == [tipo |-> tipo, nota |-> IdCorrente, montata |-> Aperta, servita |-> FALSE,
                   riga |-> Nessuno, campi |-> IF Aperta THEN scheda.campi ELSE Nessuno]
  <2>1. IdCorrente \in Scritte \cup {Nessuno}
    BY SchedaParti DEF SchedaInv
  <2>2. x \in Invio
    BY <2>1, InvioNuovo
  <2>3. x.tipo = tipo /\ x.servita = FALSE
    OBVIOUS
  <2>4. invii' = [invii EXCEPT ![c] = x]
    BY <1>2 DEF Spedisce
  <2> HIDE DEF x
  <2>5. QED
    BY <2>2, <2>3, <2>4
<1>4. PICK f \in SchedaRiga :
        scheda' = f /\ f.invio = TRUE /\ f.create = scheda.create
  <2>1. /\ [scheda EXCEPT !.invio = TRUE] \in SchedaRiga
        /\ [scheda EXCEPT !.invio = TRUE].invio = TRUE
        /\ [scheda EXCEPT !.invio = TRUE].create = scheda.create
    BY <1>1 DEF SchedaRiga
  <2>2. QED
    BY <2>1 DEF Salva, InviaNota
<1>5. UNCHANGED <<nota, corrente, elimina>>
  BY DEF Salva, InviaNota
<1>6. /\ invii \in [InCorso -> Invio \cup {NessunInvio}]
      /\ \A d \in InCorso : invii'[d] = IF d = c THEN x ELSE invii[d]
  BY <1>3 DEF SchedaInv, SchedaTipi
<1>7. \A d \in InCorso : ~DellaScheda(d)
  BY <1>1 DEF SchedaInv
<1>8. \A d \in InCorso : DellaScheda(d)' => d = c
  BY <1>6, <1>7 DEF DellaScheda
<1>9. Aperta'
  BY <1>4, SchedaAssumption DEF Aperta
<1>10. SchedaTipi'
  BY <1>3, <1>4, <1>5 DEF SchedaInv, SchedaTipi
<1>11. tipo = "crea" => f.create = 0
  BY <1>1, <1>2, <1>4 DEF SchedaInv, SchedaRiga
<1>12. ASSUME NEW d \in InCorso
       PROVE  /\ invii'[d] # NessunInvio /\ invii'[d].servita => invii'[d].riga # Nessuno
              /\ DellaScheda(d)' => /\ Aperta' /\ scheda'.invio
                                    /\ invii'[d].tipo = "crea" => scheda'.create = 0
                                    /\ \A e \in InCorso : DellaScheda(e)' => e = d
  BY <1>3, <1>4, <1>6, <1>8, <1>9, <1>11 DEF SchedaInv
<1>13. scheda'.create = 1 => corrente' # Nessuno
  BY <1>1, <1>4, <1>5 DEF SchedaInv
<1>14. QED
  BY <1>10, <1>12, <1>13 DEF SchedaInv

\* The form is closed, or its note deleted: none of the calls is its any more.
LEMMA SenzaScheda ==
  ASSUME SchedaInv
  PROVE  /\ Smonta \in [InCorso -> Invio \cup {NessunInvio}]
         /\ \A c \in InCorso :
              /\ ~(Smonta[c].tipo \in TipiForm /\ Smonta[c].montata)
              /\ Smonta[c] # NessunInvio /\ Smonta[c].servita => Smonta[c].riga # Nessuno
<1>1. ASSUME NEW c \in InCorso, invii[c] # NessunInvio
      PROVE  /\ [invii[c] EXCEPT !.montata = FALSE] \in Invio
             /\ [invii[c] EXCEPT !.montata = FALSE].montata = FALSE
             /\ [invii[c] EXCEPT !.montata = FALSE].servita = invii[c].servita
             /\ [invii[c] EXCEPT !.montata = FALSE].riga = invii[c].riga
  BY <1>1, SchedaParti DEF SchedaInv, Invio
<1>2. ASSUME NEW c \in InCorso
      PROVE  /\ Smonta[c] \in Invio \cup {NessunInvio}
             /\ ~(Smonta[c].tipo \in TipiForm /\ Smonta[c].montata)
             /\ Smonta[c] # NessunInvio /\ Smonta[c].servita => Smonta[c].riga # Nessuno
  <2>1. CASE invii[c] = NessunInvio
    BY <2>1 DEF Smonta, NessunInvio, TipiForm
  <2>2. CASE invii[c] # NessunInvio
    BY <1>1, <2>2 DEF Smonta, SchedaInv
  <2>3. QED
    BY <2>1, <2>2
<1>3. QED
  BY <1>2 DEF Smonta

\* What the user does without a call.
LEMMA SchedaUtente ==
  ASSUME SchedaInv, ApriNuova \/ ChiudiForm \/ ChiedeElimina \/ RinunciaElimina
  PROVE  SchedaInv'
<1>1. CASE ApriNuova
  <2>1. \A c \in InCorso : ~DellaScheda(c)
    BY <1>1 DEF ApriNuova, SchedaInv
  <2>2. Montata(Nessuno) \in SchedaRiga /\ Montata(Nessuno).create = 0
    BY DEF Montata, SchedaRiga
  <2>3. \A c \in InCorso : ~DellaScheda(c)' /\ invii'[c] = invii[c]
    BY <1>1, <2>1 DEF ApriNuova, DellaScheda
  <2>4. QED
    BY <1>1, <2>2, <2>3 DEF ApriNuova, SchedaInv, SchedaTipi
<1>2. CASE ChiudiForm
  <2>1. invii' = Smonta /\ scheda' = Nessuno /\ corrente' = Nessuno /\ UNCHANGED <<nota, elimina>>
    BY <1>2 DEF ChiudiForm
  <2>2. \A c \in InCorso : ~DellaScheda(c)'
    BY <2>1, SenzaScheda DEF DellaScheda
  <2>3. \A c \in InCorso : invii'[c] # NessunInvio /\ invii'[c].servita => invii'[c].riga # Nessuno
    BY <2>1, SenzaScheda
  <2>4. SchedaTipi'
    BY <2>1, SenzaScheda DEF SchedaInv, SchedaTipi
  <2>5. QED
    BY <2>1, <2>2, <2>3, <2>4 DEF SchedaInv, Aperta
<1>3. CASE ChiedeElimina \/ RinunciaElimina
  <2>1. UNCHANGED <<nota, corrente, scheda, invii>> /\ elimina' \in BOOLEAN
    BY <1>3 DEF ChiedeElimina, RinunciaElimina
  <2>2. QED
    BY <2>1 DEF SchedaInv, SchedaTipi, Aperta, DellaScheda
<1>4. QED
  BY <1>1, <1>2, <1>3

\* A call ends, or is served: those of the form are among those there were,
\* and its state is what they know it to be.
LEMMA SchedaRimane ==
  ASSUME SchedaInv, SchedaTipi', UNCHANGED scheda,
         corrente # Nessuno => corrente' # Nessuno,
         \A c \in InCorso :
           /\ DellaScheda(c)' => DellaScheda(c) /\ invii'[c].tipo = invii[c].tipo
           /\ invii'[c] # NessunInvio /\ invii'[c].servita => invii'[c].riga # Nessuno
  PROVE  SchedaInv'
<1>1. Aperta' <=> Aperta
  BY DEF Aperta
<1>2. QED
  BY <1>1 DEF SchedaInv

LEMMA SchedaServe ==
  ASSUME SchedaInv, NEW c \in InCorso, NEW n \in Scritte, Serve(c, n)
  PROVE  SchedaInv'
<1>1. PICK x \in Invio : x = invii[c]
  BY SchedaParti DEF SchedaInv, Serve
<1>2. PICK dopo \in {"bozza", "inviata", "eliminata"} :
        /\ nota' = [nota EXCEPT ![n] = dopo]
        /\ invii' = [invii EXCEPT ![c].servita = TRUE, ![c].riga = [nota |-> n, stato |-> dopo]]
  <2> DEFINE dopo == CASE x.tipo = "crea"    -> "bozza"
                       [] x.tipo = "invia"   -> "inviata"
                       [] x.tipo = "elimina" -> "eliminata"
                       [] OTHER              -> nota[n]
  <2>1. Ammessa(x.tipo, n)
    BY <1>1 DEF Serve
  <2>2. dopo \in {"bozza", "inviata", "eliminata"}
    BY <1>1, <2>1 DEF Ammessa, Invio, TipiForm, TipiPagina
  <2>3. /\ nota' = [nota EXCEPT ![n] = dopo]
        /\ invii' = [invii EXCEPT ![c].servita = TRUE, ![c].riga = [nota |-> n, stato |-> dopo]]
    BY <1>1 DEF Serve
  <2> HIDE DEF dopo
  <2>4. QED
    BY <2>2, <2>3
<1>3. PICK r \in NotaVista : r = [nota |-> n, stato |-> dopo]
  BY DEF NotaVista
<1>4. PICK y \in Invio :
        /\ invii' = [invii EXCEPT ![c] = y]
        /\ y.tipo = x.tipo /\ y.montata = x.montata /\ y.riga = r
  <2> DEFINE y == [x EXCEPT !.servita = TRUE, !.riga = r]
  <2>1. y \in Invio /\ y.tipo = x.tipo /\ y.montata = x.montata /\ y.riga = r
    BY DEF Invio
  <2>2. invii' = [invii EXCEPT ![c] = y]
    BY <1>1, <1>2, <1>3 DEF SchedaInv, SchedaTipi, Invio
  <2> HIDE DEF y
  <2>3. QED
    BY <2>1, <2>2
<1>5. UNCHANGED <<corrente, scheda, elimina>>
  BY DEF Serve
<1>6. \A d \in InCorso : invii'[d] = IF d = c THEN y ELSE invii[d]
  BY <1>4 DEF SchedaInv, SchedaTipi
<1>7. SchedaTipi'
  BY <1>2, <1>4, <1>5 DEF SchedaInv, SchedaTipi
<1>8. \A d \in InCorso :
        /\ DellaScheda(d)' => DellaScheda(d) /\ invii'[d].tipo = invii[d].tipo
        /\ invii'[d] # NessunInvio /\ invii'[d].servita => invii'[d].riga # Nessuno
  BY <1>1, <1>3, <1>4, <1>6, SchedaAssumption DEF DellaScheda, SchedaInv
<1>9. QED
  BY <1>5, <1>7, <1>8, SchedaRimane

\* A call that has ended leaves the others as they were.
LEMMA SenzaChiamata ==
  ASSUME SchedaInv, NEW c \in InCorso, invii' = [invii EXCEPT ![c] = NessunInvio]
  PROVE  /\ invii' \in [InCorso -> Invio \cup {NessunInvio}]
         /\ \A d \in InCorso :
              /\ DellaScheda(d)' => DellaScheda(d) /\ d # c /\ invii'[d] = invii[d]
              /\ invii'[d] # NessunInvio /\ invii'[d].servita => invii'[d].riga # Nessuno
<1>1. \A d \in InCorso : invii'[d] = IF d = c THEN NessunInvio ELSE invii[d]
  BY DEF SchedaInv, SchedaTipi
<1>2. NessunInvio.tipo \notin TipiForm
  BY DEF NessunInvio, TipiForm
<1>3. QED
  BY <1>1, <1>2 DEF DellaScheda, SchedaInv, SchedaTipi

\* The form's own call ends: it waits for nothing, and has created once more
\* only if it had not yet and the page has the note open.
LEMMA SchedaLibera ==
  ASSUME SchedaInv, NEW c \in InCorso, DellaScheda(c),
         invii' = [invii EXCEPT ![c] = NessunInvio],
         UNCHANGED nota, elimina' \in BOOLEAN, corrente' \in NotaVista \cup {Nessuno},
         NEW f \in SchedaRiga, scheda' = f, f.create = 1 => corrente' # Nessuno
  PROVE  SchedaInv'
<1>1. \A d \in InCorso : ~DellaScheda(d)'
  BY SenzaChiamata DEF SchedaInv
<1>2. SchedaTipi'
  BY SenzaChiamata DEF SchedaInv, SchedaTipi
<1>3. QED
  BY <1>1, <1>2, SenzaChiamata DEF SchedaInv

LEMMA SchedaErrore ==
  ASSUME SchedaInv, NEW c \in InCorso, Errore(c)
  PROVE  SchedaInv'
<1>1. /\ invii' = [invii EXCEPT ![c] = NessunInvio] /\ UNCHANGED <<nota, corrente>>
      /\ elimina' \in BOOLEAN
  BY DEF Errore
<1>2. CASE DellaScheda(c)
  <2>1. Aperta /\ scheda \in SchedaRiga
    BY <1>2, SchedaParti DEF SchedaInv
  <2>2. scheda' = [scheda EXCEPT !.invio = FALSE]
    BY <1>2 DEF Errore, DellaScheda, TipiForm
  <2>3. PICK f \in SchedaRiga : scheda' = f /\ f.create = scheda.create
    <3>1. /\ [scheda EXCEPT !.invio = FALSE] \in SchedaRiga
          /\ [scheda EXCEPT !.invio = FALSE].create = scheda.create
      BY <2>1 DEF SchedaRiga
    <3>2. QED
      BY <2>2, <3>1
  <2>4. f.create = 1 => corrente' # Nessuno
    BY <1>1, <2>1, <2>3 DEF SchedaInv
  <2>5. corrente' \in NotaVista \cup {Nessuno}
    BY <1>1 DEF SchedaInv, SchedaTipi
  <2>6. QED
    BY <1>1, <1>2, <2>3, <2>4, <2>5, SchedaLibera
<1>3. CASE ~DellaScheda(c)
  <2>1. scheda' = scheda
    BY <1>3 DEF Errore, DellaScheda, TipiForm
  <2>2. SchedaTipi'
    BY <1>1, <2>1, SenzaChiamata DEF SchedaInv, SchedaTipi
  <2>3. QED
    BY <1>1, <2>1, <2>2, SenzaChiamata, SchedaRimane
<1>4. QED
  BY <1>2, <1>3

LEMMA SchedaRisponde ==
  ASSUME SchedaInv, NEW c \in InCorso, Risponde(c)
  PROVE  SchedaInv'
<1>1. PICK x \in Invio : x = invii[c] /\ x # NessunInvio /\ x.servita
  BY SchedaParti DEF SchedaInv, Risponde
<1>2. /\ x.riga \in NotaVista /\ x.riga # Nessuno /\ x.nota \in Scritte \cup {Nessuno}
      /\ x.riga.nota \in Scritte /\ x.montata \in BOOLEAN
  BY <1>1 DEF SchedaInv, Invio, NotaVista
<1>3. UNCHANGED nota
  BY DEF Risponde
<1>4. CASE x.tipo = "apri"
  <2>1. /\ corrente' = x.riga /\ invii' = [invii EXCEPT ![c] = NessunInvio]
        /\ UNCHANGED elimina
        /\ scheda' = IF Aperta THEN scheda ELSE Montata(x.nota)
    BY <1>1, <1>4 DEF Risponde
  <2>2. CASE Aperta
    <3>1. SchedaTipi'
      BY <1>2, <1>3, <2>1, <2>2, SenzaChiamata DEF SchedaInv, SchedaTipi
    <3>2. QED
      BY <1>2, <2>1, <2>2, <3>1, SenzaChiamata, SchedaRimane
  <2>3. CASE ~Aperta
    <3>1. Montata(x.nota) \in SchedaRiga /\ Montata(x.nota).create = 0
      BY <1>2 DEF Montata, SchedaRiga
    <3>2. SchedaTipi'
      BY <1>2, <1>3, <2>1, <2>3, <3>1, SenzaChiamata DEF SchedaInv, SchedaTipi
    <3>3. \A d \in InCorso : ~DellaScheda(d)'
      BY <2>1, <2>3, SenzaChiamata DEF SchedaInv
    <3>4. QED
      BY <1>2, <2>1, <2>3, <3>1, <3>2, <3>3, SenzaChiamata DEF SchedaInv
  <2>4. QED
    BY <2>2, <2>3
<1>5. CASE x.tipo = "rileggi"
  <2>1. /\ corrente' = x.riga /\ invii' = [invii EXCEPT ![c] = NessunInvio]
        /\ UNCHANGED <<scheda, elimina>>
    BY <1>1, <1>5 DEF Risponde
  <2>2. SchedaTipi'
    BY <1>2, <1>3, <2>1, SenzaChiamata DEF SchedaInv, SchedaTipi
  <2>3. QED
    BY <1>2, <2>1, <2>2, SenzaChiamata, SchedaRimane
<1>6. CASE x.tipo \in TipiForm
  <2>1. /\ corrente' = x.riga /\ invii' = [invii EXCEPT ![c] = NessunInvio]
        /\ UNCHANGED elimina
        /\ scheda' = IF ~x.montata THEN scheda
                     ELSE [scheda EXCEPT !.invio = FALSE,
                                         !.campi = IF x.tipo = "crea" THEN x.riga.nota ELSE @,
                                         !.create = IF x.tipo = "crea" THEN @ + 1 ELSE @]
    BY <1>1, <1>6 DEF Risponde, DopoScrittura, TipiForm
  <2>2. CASE x.montata
    <3>1. DellaScheda(c) /\ Aperta /\ scheda \in SchedaRiga
          /\ (x.tipo = "crea" => scheda.create = 0)
      BY <1>1, <1>6, <2>2, SchedaParti DEF SchedaInv, DellaScheda
    <3>2. PICK campi, create :
            /\ campi = IF x.tipo = "crea" THEN x.riga.nota ELSE scheda.campi
            /\ create = IF x.tipo = "crea" THEN scheda.create + 1 ELSE scheda.create
      OBVIOUS
    <3>3. campi \in Scritte \cup {Nessuno} /\ create \in 0..1
      BY <1>2, <3>1, <3>2 DEF SchedaRiga
    <3>4. scheda' = [scheda EXCEPT !.invio = FALSE, !.campi = campi, !.create = create]
      BY <2>1, <2>2, <3>1, <3>2 DEF SchedaRiga
    <3>5. scheda' \in SchedaRiga
      BY <3>1, <3>3, <3>4 DEF SchedaRiga
    <3>6. PICK f \in SchedaRiga : scheda' = f
      BY <3>5
    <3>7. QED
      BY <1>2, <1>3, <2>1, <3>1, <3>6, SchedaLibera DEF SchedaInv, SchedaTipi
  <2>3. CASE ~x.montata
    <3>1. SchedaTipi'
      BY <1>2, <1>3, <2>1, <2>3, SenzaChiamata DEF SchedaInv, SchedaTipi
    <3>2. QED
      BY <1>2, <2>1, <2>3, <3>1, SenzaChiamata, SchedaRimane
  <2>4. QED
    BY <2>2, <2>3
<1>7. CASE x.tipo = "elimina"
  <2>1. /\ corrente' = Nessuno /\ scheda' = Nessuno /\ elimina' = FALSE
        /\ invii' = [Smonta EXCEPT ![c] = NessunInvio]
    BY <1>1, <1>7 DEF Risponde
  <2>2. PICK s \in [InCorso -> Invio \cup {NessunInvio}] : s = Smonta
    BY SenzaScheda
  <2>3. \A d \in InCorso : invii'[d] = IF d = c THEN NessunInvio ELSE Smonta[d]
    BY <2>1, <2>2
  <2>4. SchedaTipi'
    BY <1>3, <2>1, <2>2 DEF SchedaInv, SchedaTipi
  <2>5. \A d \in InCorso :
          /\ ~DellaScheda(d)'
          /\ invii'[d] # NessunInvio /\ invii'[d].servita => invii'[d].riga # Nessuno
    BY <2>3, SenzaScheda DEF DellaScheda, NessunInvio, TipiForm
  <2>6. QED
    BY <2>1, <2>4, <2>5 DEF SchedaInv, Aperta
<1>8. QED
  BY <1>1, <1>4, <1>5, <1>6, <1>7 DEF Invio, TipiForm, TipiPagina

\* The page where notes are written is in order, whatever calls of it end in
\* whatever order, are refused or lost, and whether the form is still there.
THEOREM SchedaInOrdine == SchedaSpec => []SchedaInv
<1>1. SchedaInit => SchedaInv
  BY SchedaInizio
<1>2. SchedaInv /\ [SchedaNext]_schedaVars => SchedaInv'
  <2>1. SUFFICES ASSUME SchedaInv, [SchedaNext]_schedaVars PROVE SchedaInv'
    OBVIOUS
  <2>2. CASE UNCHANGED schedaVars
    BY <2>1, <2>2 DEF schedaVars, SchedaInv, SchedaTipi, Aperta, DellaScheda
  <2>3. ASSUME NEW c \in InCorso,
               (\E n \in Scritte : ApriNota(n, c)) \/ Allega(c) \/ ConfermaElimina(c)
        PROVE  SchedaInv'
    <3>1. PICK tipo \in TipiPagina, n \in Scritte \cup {Nessuno} :
            Spedisce(c, tipo, n) /\ UNCHANGED <<nota, corrente, scheda, elimina>>
      BY <2>1, <2>3, SchedaParti DEF ApriNota, Allega, ConfermaElimina, TipiPagina, SchedaInv
    <3>2. QED
      BY <2>1, <3>1, SchedaChiede
  <2>4. CASE SchedaNext
    BY <2>1, <2>3, <2>4, SchedaUtente, SchedaSpedisce, SchedaServe, SchedaRisponde, SchedaErrore
    DEF SchedaNext
  <2>5. QED
    BY <2>1, <2>2, <2>4
<1>3. QED
  BY <1>1, <1>2, PTL DEF SchedaSpec

\* A form creates one note: once it has, saving again updates it.
THEOREM UnaNotaPerForm == SchedaSpec => []UnaNotaPerScheda
<1>1. SchedaInv => UnaNotaPerScheda
  BY SchedaParti DEF SchedaInv, SchedaRiga, UnaNotaPerScheda
<1>2. QED
  BY <1>1, SchedaInOrdine, PTL
=============================================================================
