------------------------- MODULE PasswordResetProofs -------------------------
(***************************************************************************)
(* Theorems about PasswordReset, for every set of users, sessions, links   *)
(* and requests, with or without crashes: a reset that answers has done    *)
(* all it promises, and links do not come back to life.  They come from    *)
(* ResetInv, which contains the invariant of the session handlers; what    *)
(* those handlers do is taken from AuthSessionsProofs.                     *)
(***************************************************************************)
EXTENDS PasswordReset, AuthSessionsProofs

\* No step takes a link away, gives it to somebody else or revives it.
LinksPersist ==
    \A l \in Links : link[l] # "none" =>
        /\ link'[l] # "none"
        /\ linkUser'[l] = linkUser[l]
        /\ link[l] = "used" => link'[l] = "used"

\* Nor does one with a session.
RowsPersist ==
    \A s \in Sessions : status[s] # "none" =>
        /\ status'[s] # "none"
        /\ owner'[s] = owner[s]
        /\ status[s] = "inactive" => status'[s] = "inactive"

\* ResetIsComplete and EarlierLinksAreDead for one request.
Complete(q) ==
    q.pc = "revoked" =>
        /\ link[q.link] = "used"
        /\ \A s \in q.seen : owner[s] = q.user => status[s] = "inactive"

Dead(q) ==
    \A l \in q.seenLinks :
        q.pc \in {"invalidated", "mail"} /\ linkUser[l] = q.user => link[l] = "used"

Sound(q) == Informed(q) /\ Complete(q) /\ Dead(q)

LEMMA InvIsSound == ResetInv <=> /\ SessionInv /\ ResetTypeOK
                                 /\ \A l \in LinkRows : linkUser[l] \in Users
                                 /\ \A j \in Jobs : Sound(job[j])
  BY DEF ResetInv, Sound, Complete, Dead, ResetIsComplete, EarlierLinksAreDead

\* What a request knows stays true while others work.
LEMMA SoundStays ==
  ASSUME LinksPersist, RowsPersist, NEW q \in Job, Sound(q)
  PROVE  Sound(q)'
<1>1. q.seen \subseteq Sessions /\ q.seenLinks \subseteq Links
  BY DEF Job
<1>2. Informed(q)'
  BY <1>1 DEF Sound, Informed, LinksPersist, RowsPersist, LinkRows, Rows
<1>3. Complete(q)'
  BY <1>1 DEF Sound, Informed, Complete, LinksPersist, RowsPersist, LinkRows, Rows
<1>4. Dead(q)'
  BY <1>1 DEF Sound, Informed, Dead, LinksPersist, RowsPersist, LinkRows, Rows
<1>5. QED
  BY <1>2, <1>3, <1>4 DEF Sound

\* A step that moves one request, or none (q is then what it was).
LEMMA JobMoves ==
  ASSUME ResetInv, SessionInv', LinksPersist, RowsPersist,
         link' \in [Links -> {"none", "live", "used"}],
         linkUser' \in [Links -> Users \cup {NoUser}],
         overdue' \in SUBSET Links, mailed' \in SUBSET LinkRows', uses' \in [Links -> 0..2],
         \A l \in LinkRows' : linkUser'[l] \in Users,
         NEW j \in Jobs, NEW q \in Job, Sound(q)', job' = [job EXCEPT ![j] = q]
  PROVE  ResetInv'
<1>1. job \in [Jobs -> Job] /\ \A i \in Jobs : Sound(job[i])
  BY InvIsSound DEF ResetTypeOK
<1>2. ASSUME NEW i \in Jobs PROVE Sound(job[i])'
  <2>1. CASE i = j
    BY <1>1, <2>1 DEF Sound, Informed, Complete, Dead
  <2>2. CASE i # j
    <3>1. PICK p \in Job : p = job[i]
      BY <1>1
    <3>2. Sound(p)'
      BY <1>1, <3>1, SoundStays
    <3>3. job'[i] = p
      BY <1>1, <2>2, <3>1
    <3>4. QED
      BY <3>2, <3>3 DEF Sound, Informed, Complete, Dead
  <2>3. QED
    BY <2>1, <2>2
<1>3. job' \in [Jobs -> Job]
  BY <1>1
<1>4. ResetTypeOK'
  BY <1>3 DEF ResetTypeOK
<1>5. QED
  BY <1>2, <1>4, InvIsSound DEF ResetInv, Sound, Complete, Dead, ResetIsComplete,
     EarlierLinksAreDead

LEMMA IdleIsSound == NoJob \in Job /\ Sound(NoJob)'
  BY DEF NoJob, Job, JobPhases, Sound, Informed, Complete, Dead

LEMMA InitSatisfiesResetInv == ResetInit => ResetInv
<1> SUFFICES ASSUME ResetInit PROVE ResetInv
  OBVIOUS
<1>1. SessionInv
  BY InitSatisfiesInv DEF ResetInit
<1>2. ResetTypeOK
  BY DEF ResetInit, ResetTypeOK, NoJob, Job, JobPhases
<1>3. \A j \in Jobs : Sound(job[j])
  BY DEF ResetInit, NoJob, Sound, Informed, Complete, Dead
<1>4. LinkRows = {}
  BY DEF ResetInit, LinkRows
<1>5. QED
  BY <1>1, <1>2, <1>3, <1>4, InvIsSound

-----------------------------------------------------------------------------
(* The sessions under a step of either kind.                               *)

\* A step of the session table takes no row away.
LEMMA RegistryKeepsRows ==
  ASSUME SessionInv, Registry!RegNext \/ UNCHANGED <<status, owner, parent>>
  PROVE  RowsPersist
<1>1. ASSUME NEW n \in Sessions, NEW u \in Users, NEW p \in Sessions \cup {NoSession},
             Registry!Open(n, u, p)
      PROVE  RowsPersist
  BY <1>1 DEF Registry!Open, SessionInv, TypeOK, RowsPersist
<1>2. ASSUME NEW u \in Users, NEW S \in SUBSET Sessions, Registry!Close(u, S)
      PROVE  RowsPersist
  BY <1>2 DEF Registry!Close, SessionInv, TypeOK, RowsPersist
<1>3. QED
  BY <1>1, <1>2 DEF Registry!RegNext, RowsPersist

\* A reset revokes the sessions of its user, beside the requests in progress.
LEMMA RevokeKeepsSessions ==
  ASSUME SessionInv, NEW u \in Users,
         Deactivate({s \in Sessions : owner[s] = u /\ status[s] = "active"}),
         UNCHANGED <<owner, parent, expired, held, req>>
  PROVE  SessionInv' /\ Registry!RegNext
<1> DEFINE S == {s \in Sessions : owner[s] = u /\ status[s] = "active"}
<1>1. /\ S \in SUBSET Sessions
      /\ \A s \in S : status[s] # "none" /\ owner[s] = u
      /\ Deactivate(S) /\ UNCHANGED <<owner, parent>>
  OBVIOUS
<1> HIDE DEF S
<1>2. Registry!RegNext
  BY <1>1, DeactivatingClosesRows
<1>3. RowsPersist
  BY <1>2, RegistryKeepsRows
<1>4. \A s \in Sessions : status[s] = "none" => status'[s] = "none"
  BY <1>1 DEF Deactivate
<1>5. TypeOK'
  BY <1>1 DEF SessionInv, TypeOK, Deactivate
<1>6. \A r \in Requests : req[r] \in Request
  BY DEF SessionInv, TypeOK
<1>7. RowsAreOwned' /\ RequestsKnowTheirUser'
  BY <1>3, <1>4, <1>6 DEF SessionInv, RowsAreOwned, RequestsKnowTheirUser, RowsPersist, Request
<1>8. RotatedIsClosed' /\ ReplacedSessionIsClosed' /\ AlarmClosesEarlierSessions'
  <2>1. \A s \in Sessions : status[s] = "inactive" => status'[s] = "inactive"
    BY <1>3 DEF RowsPersist
  <2>2. RotatedIsClosed'
    BY <2>1 DEF SessionInv, RotatedIsClosed, RequestsKnowTheirUser
  <2>3. ReplacedSessionIsClosed'
    BY <2>1 DEF SessionInv, TypeOK, ReplacedSessionIsClosed
  <2>4. AlarmClosesEarlierSessions'
    BY <1>6, <2>1 DEF SessionInv, AlarmClosesEarlierSessions, Request
  <2>5. QED
    BY <2>2, <2>3, <2>4
<1>9. QED
  BY <1>2, <1>5, <1>7, <1>8 DEF SessionInv

\* Whatever handler takes a step, the sessions keep their invariant and no row
\* is taken away.
LEMMA SessionsUnderReset ==
  ASSUME ResetInv, [ResetNext]_allVars
  PROVE  /\ SessionInv' /\ RowsPersist
         /\ Registry!RegNext \/ UNCHANGED <<status, owner, parent>>
<1>1. ASSUME [Next]_vars
      PROVE  SessionInv' /\ (Registry!RegNext \/ UNCHANGED <<status, owner, parent>>)
  BY <1>1, StepKeepsInv, StepRefinesRegistry DEF ResetInv, Registry!regVars
<1>2. ASSUME NEW j \in Jobs, ResetRevoke(j)
      PROVE  SessionInv' /\ Registry!RegNext
  <2>1. job[j].user \in Users
    BY <1>2 DEF ResetRevoke, ResetInv, Informed
  <2>2. QED
    BY <1>2, <2>1, RevokeKeepsSessions DEF ResetRevoke, ResetInv
<1>3. [Next]_vars \/ \E j \in Jobs : ResetRevoke(j)
  BY DEF ResetNext, SessionStep, JobStart, JobProceed, allVars, Forgot, ResetLookup,
     ForgotInvalidate, ForgotCreate, ForgotMail, ResetPassword, ResetMark, ResetAnswer,
     JobCrash, LinkExpires
<1>4. SessionInv' /\ (Registry!RegNext \/ UNCHANGED <<status, owner, parent>>)
  BY <1>1, <1>2, <1>3
<1>5. QED
  BY <1>4, RegistryKeepsRows DEF ResetInv

-----------------------------------------------------------------------------
(* The requests of the recovery.                                           *)

\* What most steps leave alone.
LEMMA NothingElse ==
  ASSUME ResetInv
  PROVE  /\ UNCHANGED <<link, linkUser>> => LinksPersist
         /\ link \in [Links -> {"none", "live", "used"}]
         /\ linkUser \in [Links -> Users \cup {NoUser}]
         /\ overdue \in SUBSET Links /\ mailed \in SUBSET LinkRows /\ uses \in [Links -> 0..2]
         /\ \A l \in LinkRows : linkUser[l] \in Users
         /\ \A j \in Jobs : job[j] \in Job /\ Sound(job[j])
         /\ \A l \in Links : l \in LinkRows <=> link[l] # "none"
         /\ \A s \in Sessions : s \in Rows <=> status[s] # "none"
  BY InvIsSound DEF ResetTypeOK, LinksPersist, LinkRows, Rows

\* A request that only reads, or answers.
LEMMA ReadStep ==
  ASSUME ResetInv, [ResetNext]_allVars, NEW j \in Jobs, NEW q \in Job, Sound(q)',
         job' = [job EXCEPT ![j] = q],
         UNCHANGED <<link, linkUser>>, overdue' \in SUBSET Links,
         mailed' \in SUBSET LinkRows, uses' \in [Links -> 0..2]
  PROVE  ResetInv'
<1>1. LinkRows' = LinkRows
  BY DEF LinkRows
<1>2. QED
  BY <1>1, NothingElse, SessionsUnderReset, JobMoves

LEMMA AnswerStep ==
  ASSUME ResetInv, [ResetNext]_allVars, NEW j \in Jobs,
         ForgotMail(j) \/ ResetAnswer(j) \/ JobCrash(j)
  PROVE  ResetInv'
<1>1. PICK q \in Job : q = NoJob /\ Sound(q)'
  BY IdleIsSound DEF Sound, Informed, Complete, Dead
<1>2. /\ job' = [job EXCEPT ![j] = q]
      /\ UNCHANGED <<link, linkUser, overdue, uses>>
      /\ mailed' \in {mailed, mailed \cup {job[j].link}}
      /\ mailed' # mailed => job[j].pc = "mail"
  BY <1>1 DEF ForgotMail, ResetAnswer, JobCrash, AnswerJob
<1>3. mailed' \in SUBSET LinkRows
  BY <1>2, NothingElse DEF Sound, Informed
<1>4. QED
  BY <1>1, <1>2, <1>3, NothingElse, ReadStep

LEMMA ForgotStep ==
  ASSUME ResetInv, [ResetNext]_allVars, NEW j \in Jobs, NEW u \in Users, Forgot(j, u)
  PROVE  ResetInv'
<1> DEFINE p == [NoJob EXCEPT !.pc = "forgot", !.user = u, !.seenLinks = LinkRows]
<1>1. /\ p \in Job /\ p.pc = "forgot" /\ p.user = u /\ p.seen = {}
      /\ p.seenLinks = LinkRows
  BY DEF NoJob, Job, JobPhases, LinkRows
<1>2. PICK q \in Job : q = p
  BY <1>1
<1>3. LinkRows' = LinkRows /\ job' = [job EXCEPT ![j] = q]
      /\ UNCHANGED <<link, linkUser, overdue, mailed, uses>>
  BY <1>2 DEF Forgot, LinkRows
<1> HIDE DEF p
<1>4. Sound(q)'
  BY <1>1, <1>2, <1>3 DEF Sound, Informed, Complete, Dead
<1>5. QED
  BY <1>3, <1>4, NothingElse, ReadStep

LEMMA LookupStep ==
  ASSUME ResetInv, [ResetNext]_allVars, NEW j \in Jobs, NEW l \in Links, ResetLookup(j, l)
  PROVE  ResetInv'
<1> DEFINE p == [NoJob EXCEPT !.pc = "reset", !.user = linkUser[l], !.link = l, !.seen = Rows]
<1>1. l \in LinkRows /\ linkUser[l] \in Users
  BY NothingElse DEF ResetLookup
<1>2. /\ p \in Job /\ p.pc = "reset" /\ p.user \in Users /\ p.link = l /\ p.seen = Rows
      /\ p.seenLinks = {}
  BY <1>1 DEF NoJob, Job, JobPhases, Rows
<1>3. PICK q \in Job : q = p
  BY <1>2
<1>4. LinkRows' = LinkRows /\ Rows' = Rows /\ job' = [job EXCEPT ![j] = q]
      /\ UNCHANGED <<link, linkUser, overdue, mailed, uses>>
  BY <1>3 DEF ResetLookup, LinkRows, Rows, vars
<1> HIDE DEF p
<1>5. Sound(q)'
  BY <1>1, <1>2, <1>3, <1>4 DEF Sound, Informed, Complete, Dead
<1>6. QED
  BY <1>4, <1>5, NothingElse, ReadStep

\* The pending links of the user are used up, those seen among them.
LEMMA InvalidateStep ==
  ASSUME ResetInv, [ResetNext]_allVars, NEW j \in Jobs, ForgotInvalidate(j)
  PROVE  ResetInv'
<1> DEFINE p == [job[j] EXCEPT !.pc = "invalidated"]
<1>1. job[j] \in Job /\ Sound(job[j]) /\ job[j].pc = "forgot"
  BY NothingElse DEF ForgotInvalidate
<1>2. /\ p \in Job /\ p.pc = "invalidated" /\ p.user = job[j].user /\ p.seen = job[j].seen
      /\ p.seenLinks = job[j].seenLinks
  BY <1>1 DEF Job, JobPhases
<1>3. PICK q \in Job : q = p
  BY <1>2
<1>4. /\ link' = [l \in Links |->
            IF linkUser[l] = job[j].user /\ link[l] = "live" THEN "used" ELSE link[l]]
      /\ job' = [job EXCEPT ![j] = q]
      /\ UNCHANGED <<linkUser, overdue, mailed, uses, status>>
  BY <1>3 DEF ForgotInvalidate, vars
<1> HIDE DEF p
<1>5. link' \in [Links -> {"none", "live", "used"}] /\ LinksPersist /\ LinkRows' = LinkRows
  BY <1>4, NothingElse DEF LinksPersist, LinkRows
<1>6. Sound(q)'
  <2>1. q.seenLinks \in SUBSET LinkRows /\ q.seen \in SUBSET Rows /\ q.user \in Users
    BY <1>1, <1>2, <1>3 DEF Sound, Informed
  <2>2. Rows' = Rows
    BY <1>4 DEF Rows
  <2>3. Informed(q)' /\ Complete(q)'
    BY <1>2, <1>3, <1>5, <2>1, <2>2 DEF Informed, Complete
  <2>4. Dead(q)'
    BY <1>2, <1>3, <1>4, <2>1, NothingElse DEF Dead, LinkRows
  <2>5. QED
    BY <2>3, <2>4 DEF Sound
<1>7. QED
  BY <1>4, <1>5, <1>6, NothingElse, SessionsUnderReset, JobMoves

\* The new link was nobody's: no request has seen it.
LEMMA CreateStep ==
  ASSUME ResetInv, [ResetNext]_allVars, NEW j \in Jobs, ForgotCreate(j)
  PROVE  ResetInv'
<1>1. PICK l \in FreshLinks :
         /\ link' = [link EXCEPT ![l] = "live"]
         /\ linkUser' = [linkUser EXCEPT ![l] = job[j].user]
         /\ job' = [job EXCEPT ![j].pc = "mail", ![j].link = l]
  BY DEF ForgotCreate
<1> DEFINE p == [job[j] EXCEPT !.pc = "mail", !.link = l]
<1>2. job[j] \in Job /\ Sound(job[j]) /\ job[j].pc = "invalidated"
  BY NothingElse DEF ForgotCreate
<1>3. l \in Links /\ link[l] = "none"
  BY NothingElse DEF FreshLinks
<1>4. /\ p \in Job /\ p.pc = "mail" /\ p.user = job[j].user /\ p.link = l
      /\ p.seen = job[j].seen /\ p.seenLinks = job[j].seenLinks
  BY <1>2, <1>3 DEF Job, JobPhases
<1>5. PICK q \in Job : q = p
  BY <1>4
<1>6. job' = [job EXCEPT ![j] = q] /\ UNCHANGED <<overdue, mailed, uses, status>>
  BY <1>1, <1>5, NothingElse DEF ForgotCreate, vars, ResetInv, ResetTypeOK
<1> HIDE DEF p
<1>7. q.user \in Users /\ q.seenLinks \in SUBSET LinkRows /\ q.seen \in SUBSET Rows
  BY <1>2, <1>4, <1>5 DEF Sound, Informed
<1>8. /\ link' \in [Links -> {"none", "live", "used"}]
      /\ linkUser' \in [Links -> Users \cup {NoUser}]
      /\ LinksPersist /\ LinkRows' = LinkRows \cup {l}
      /\ \A k \in LinkRows' : linkUser'[k] \in Users
  BY <1>1, <1>3, <1>4, <1>5, <1>7, NothingElse DEF LinksPersist, LinkRows
<1>9. Sound(q)'
  <2>1. Rows' = Rows
    BY <1>6 DEF Rows
  <2>2. Informed(q)' /\ Complete(q)'
    BY <1>4, <1>5, <1>7, <1>8, <2>1 DEF Informed, Complete
  <2>3. \A k \in q.seenLinks :
          k # l /\ link'[k] = link[k] /\ linkUser'[k] = linkUser[k]
    BY <1>1, <1>3, <1>7, NothingElse
  <2>4. Dead(q)'
    BY <1>2, <1>4, <1>5, <2>3 DEF Dead, Sound
  <2>5. QED
    BY <2>2, <2>4 DEF Sound
<1>10. mailed' \in SUBSET LinkRows'
  BY <1>6, <1>8, NothingElse
<1>11. QED
  BY <1>6, <1>8, <1>9, <1>10, NothingElse, SessionsUnderReset, JobMoves
LEMMA PasswordStep ==
  ASSUME ResetInv, [ResetNext]_allVars, NEW j \in Jobs, ResetPassword(j)
  PROVE  ResetInv'
<1> DEFINE p == [job[j] EXCEPT !.pc = "changed"]
<1>1. job[j] \in Job /\ Sound(job[j]) /\ job[j].pc = "reset"
  BY NothingElse DEF ResetPassword
<1>2. /\ p \in Job /\ p.pc = "changed" /\ p.user = job[j].user /\ p.link = job[j].link
      /\ p.seen = job[j].seen /\ p.seenLinks = job[j].seenLinks
  BY <1>1 DEF Job, JobPhases
<1>3. PICK q \in Job : q = p
  BY <1>2
<1>4. /\ job' = [job EXCEPT ![j] = q] /\ LinkRows' = LinkRows /\ Rows' = Rows
      /\ UNCHANGED <<link, linkUser, overdue, mailed>>
  BY <1>3 DEF ResetPassword, vars, LinkRows, Rows
<1>5. uses' \in [Links -> 0..2]
  <2> DEFINE n == IF uses[job[j].link] = 0 THEN 1 ELSE 2
  <2>1. n \in 0..2 /\ uses' = [uses EXCEPT ![job[j].link] = n]
    BY DEF ResetPassword
  <2> HIDE DEF n
  <2>2. QED
    BY <2>1, NothingElse
<1> HIDE DEF p
<1>6. Sound(q)'
  BY <1>1, <1>2, <1>3, <1>4 DEF Sound, Informed, Complete, Dead
<1>7. QED
  BY <1>4, <1>5, <1>6, NothingElse, ReadStep

LEMMA MarkStep ==
  ASSUME ResetInv, [ResetNext]_allVars, NEW j \in Jobs, ResetMark(j)
  PROVE  ResetInv'
<1> DEFINE p == [job[j] EXCEPT !.pc = "marked"]
<1>1. job[j] \in Job /\ Sound(job[j]) /\ job[j].pc = "changed"
  BY NothingElse DEF ResetMark
<1>2. /\ p \in Job /\ p.pc = "marked" /\ p.user = job[j].user /\ p.link = job[j].link
      /\ p.seen = job[j].seen /\ p.seenLinks = job[j].seenLinks
  BY <1>1 DEF Job, JobPhases
<1>3. PICK q \in Job : q = p
  BY <1>2
<1>4. /\ job' = [job EXCEPT ![j] = q] /\ link' = [link EXCEPT ![q.link] = "used"]
      /\ Rows' = Rows
      /\ UNCHANGED <<linkUser, overdue, mailed, uses>>
  BY <1>2, <1>3 DEF ResetMark, vars, Rows
<1> HIDE DEF p
<1>5. /\ q.link \in LinkRows /\ q.user \in Users
      /\ q.seenLinks \in SUBSET LinkRows /\ q.seen \in SUBSET Rows
  BY <1>1, <1>2, <1>3 DEF Sound, Informed
<1>6. /\ link' \in [Links -> {"none", "live", "used"}] /\ link'[q.link] = "used"
      /\ LinksPersist /\ LinkRows' = LinkRows
  BY <1>4, <1>5, NothingElse DEF LinksPersist, LinkRows
<1>7. Sound(q)'
  BY <1>2, <1>3, <1>4, <1>5, <1>6 DEF Sound, Informed, Complete, Dead
<1>8. QED
  BY <1>4, <1>6, <1>7, NothingElse, SessionsUnderReset, JobMoves

\* The statement closes every session of the user, those seen among them.
LEMMA RevokeStep ==
  ASSUME ResetInv, [ResetNext]_allVars, NEW j \in Jobs, ResetRevoke(j)
  PROVE  ResetInv'
<1> DEFINE p == [job[j] EXCEPT !.pc = "revoked"]
<1>1. job[j] \in Job /\ Sound(job[j]) /\ job[j].pc = "marked"
  BY NothingElse DEF ResetRevoke
<1>2. /\ p \in Job /\ p.pc = "revoked" /\ p.user = job[j].user /\ p.link = job[j].link
      /\ p.seen = job[j].seen /\ p.seenLinks = job[j].seenLinks
  BY <1>1 DEF Job, JobPhases
<1>3. PICK q \in Job : q = p
  BY <1>2
<1>4. /\ job' = [job EXCEPT ![j] = q]
      /\ status' = [s \in Sessions |->
            IF owner[s] = q.user /\ status[s] = "active" THEN "inactive" ELSE status[s]]
      /\ UNCHANGED <<owner, link, linkUser, overdue, mailed, uses>>
  BY <1>2, <1>3 DEF ResetRevoke, Deactivate
<1> HIDE DEF p
<1>5. /\ q.link \in LinkRows /\ link[q.link] = "used" /\ q.user \in Users
      /\ q.seenLinks \in SUBSET LinkRows /\ q.seen \in SUBSET Rows
  BY <1>1, <1>2, <1>3 DEF Sound, Informed
<1>6. LinkRows' = LinkRows /\ Rows \subseteq Rows'
  BY <1>4 DEF LinkRows, Rows
<1>7. \A s \in q.seen : owner'[s] = q.user => status'[s] = "inactive"
  BY <1>4, <1>5 DEF Rows, ResetInv, SessionInv, TypeOK
<1>8. Sound(q)'
  BY <1>2, <1>3, <1>4, <1>5, <1>6, <1>7 DEF Sound, Informed, Complete, Dead
<1>9. QED
  BY <1>4, <1>6, <1>8, NothingElse, ReadStep

\* A step that moves no request.
LEMMA OtherStep ==
  ASSUME ResetInv, [ResetNext]_allVars, UNCHANGED <<link, linkUser, mailed, job, uses>>,
         overdue' \in SUBSET Links
  PROVE  ResetInv'
<1>1. LinkRows' = LinkRows /\ LinksPersist /\ SessionInv' /\ RowsPersist
  BY NothingElse, SessionsUnderReset DEF LinkRows
<1>2. ResetTypeOK'
  BY <1>1 DEF ResetInv, ResetTypeOK
<1>3. ASSUME NEW i \in Jobs PROVE Sound(job[i])'
  <2>1. PICK p \in Job : p = job[i] /\ Sound(p)
    BY NothingElse DEF Sound, Informed, Complete, Dead
  <2>2. Sound(p)'
    BY <1>1, <2>1, SoundStays
  <2>3. QED
    BY <2>1, <2>2 DEF Sound, Informed, Complete, Dead
<1>4. \A l \in LinkRows' : linkUser'[l] \in Users
  BY <1>1, NothingElse
<1>5. QED
  BY <1>1, <1>2, <1>3, <1>4 DEF ResetInv, Sound, Complete, Dead, ResetIsComplete,
     EarlierLinksAreDead

LEMMA ResetStepKeepsInv == ResetInv /\ [ResetNext]_allVars => ResetInv'
<1> SUFFICES ASSUME ResetInv, [ResetNext]_allVars
             PROVE  ResetInv'
  OBVIOUS
<1>1. CASE SessionStep \/ UNCHANGED allVars \/ \E l \in Links : LinkExpires(l)
  BY <1>1, OtherStep, NothingElse DEF SessionStep, LinkExpires, allVars, resetVars, LinkRows
<1>2. ASSUME NEW j \in Jobs, JobStart(j)
      PROVE  ResetInv'
  BY <1>2, ForgotStep, LookupStep DEF JobStart
<1>3. ASSUME NEW j \in Jobs, JobProceed(j) \/ JobCrash(j)
      PROVE  ResetInv'
  BY <1>3, InvalidateStep, CreateStep, PasswordStep, MarkStep, RevokeStep, AnswerStep
  DEF JobProceed
<1>4. QED
  BY <1>1, <1>2, <1>3 DEF ResetNext

-----------------------------------------------------------------------------
(* The theorems.                                                           *)

\* The invariant holds in every reachable state, that of the sessions in it.
THEOREM RecoveryInvariant == ResetSpec => []ResetInv
  BY InitSatisfiesResetInv, ResetStepKeepsInv, PTL DEF ResetSpec

\* A reset that answers has used its link up and closed every session of the
\* user that existed when it looked the link up, for any number of refreshes,
\* logins and recoveries that run meanwhile or stop half-way
\* (auth.service.ts resetPassword).
THEOREM ResetsAreComplete == ResetSpec => []ResetIsComplete
<1>1. ResetInv => ResetIsComplete
  BY DEF ResetInv
<1>2. QED
  BY <1>1, RecoveryInvariant, PTL

\* A forgot-password request that has invalidated the pending links leaves
\* none of those it found usable (auth.service.ts forgotPassword).
THEOREM PendingLinksDie == ResetSpec => []EarlierLinksAreDead
<1>1. ResetInv => EarlierLinksAreDead
  BY DEF ResetInv
<1>2. QED
  BY <1>1, RecoveryInvariant, PTL

\* With recoveries beside the session handlers the sessions still behave as
\* SessionRegistry says.
THEOREM ResetImplementsRegistry == ResetSpec => RegistrySpec
<1>1. ResetInit => Registry!RegInit
  BY DEF ResetInit, Init, Registry!RegInit
<1>2. ResetInv /\ [ResetNext]_allVars => [Registry!RegNext]_(Registry!regVars)
  BY SessionsUnderReset DEF Registry!regVars
<1>3. QED
  BY <1>1, <1>2, RecoveryInvariant, PTL DEF ResetSpec, RegistrySpec, Registry!RegSpec

\* Nobody begins to reset with a link that is used up, and who does holds
\* another link.
LEMMA ExhaustedStays ==
  ASSUME ResetInv, [ResetNext]_allVars, NEW l \in Links, Exhausted(l)
  PROVE  Exhausted(l)' /\ uses'[l] = uses[l]
<1>1. /\ link[l] = "used" /\ NoJob.pc = "idle" /\ NoJob.link # l
      /\ job \in [Jobs -> Job] /\ uses \in [Links -> 0..2]
      /\ \A j \in Jobs : job[j].link = l => job[j].pc \in {"mail", "marked", "revoked"}
      /\ \A j \in Jobs : Informed(job[j])
  BY NoLinkAssumption DEF Exhausted, ResetInv, ResetTypeOK, NoJob
<1>2. CASE SessionStep \/ UNCHANGED allVars \/ \E k \in Links : LinkExpires(k)
  BY <1>1, <1>2 DEF SessionStep, LinkExpires, allVars, resetVars, Exhausted
<1>3. ASSUME NEW j \in Jobs, NEW u \in Users, Forgot(j, u)
      PROVE  Exhausted(l)' /\ uses'[l] = uses[l]
  BY <1>1, <1>3 DEF Forgot, Exhausted, NoJob
<1>4. ASSUME NEW j \in Jobs, NEW k \in Links, ResetLookup(j, k)
      PROVE  Exhausted(l)' /\ uses'[l] = uses[l]
  BY <1>1, <1>4 DEF ResetLookup, Exhausted
<1>5. ASSUME NEW j \in Jobs, ForgotInvalidate(j) \/ ResetMark(j) \/ ResetRevoke(j)
      PROVE  Exhausted(l)' /\ uses'[l] = uses[l]
  <2>1. job[j].pc \in {"forgot", "changed", "marked"} /\ uses' = uses
    BY <1>5 DEF ForgotInvalidate, ResetMark, ResetRevoke
  <2>2. \A i \in Jobs : job'[i].link = job[i].link
    BY <1>1, <1>5 DEF ForgotInvalidate, ResetMark, ResetRevoke, Job
  <2>3. \A i \in Jobs : job'[i].pc = job[i].pc \/ job'[i].pc \in {"marked", "revoked"}
                          \/ (i = j /\ job[i].pc = "forgot")
    BY <1>1, <1>5 DEF ForgotInvalidate, ResetMark, ResetRevoke, Job
  <2>4. link'[l] = "used"
    BY <1>1, <1>5 DEF ForgotInvalidate, ResetMark, ResetRevoke, ResetInv, ResetTypeOK
  <2>5. QED
    BY <1>1, <2>1, <2>2, <2>3, <2>4 DEF Exhausted
<1>6. ASSUME NEW j \in Jobs, ForgotCreate(j)
      PROVE  Exhausted(l)' /\ uses'[l] = uses[l]
  <2>1. PICK k \in FreshLinks :
           /\ link' = [link EXCEPT ![k] = "live"]
           /\ job' = [job EXCEPT ![j].pc = "mail", ![j].link = k]
    BY <1>6 DEF ForgotCreate
  <2>2. k # l /\ uses' = uses
    BY <1>1, <1>6 DEF FreshLinks, LinkRows, ForgotCreate
  <2>3. QED
    BY <1>1, <2>1, <2>2 DEF Exhausted, Job, ResetInv, ResetTypeOK
<1>7. ASSUME NEW j \in Jobs, ForgotMail(j) \/ ResetAnswer(j) \/ JobCrash(j)
      PROVE  Exhausted(l)' /\ uses'[l] = uses[l]
  BY <1>1, <1>7 DEF ForgotMail, ResetAnswer, JobCrash, AnswerJob, Exhausted
<1>8. ASSUME NEW j \in Jobs, ResetPassword(j)
      PROVE  Exhausted(l)' /\ uses'[l] = uses[l]
  BY <1>1, <1>8 DEF ResetPassword, Exhausted, Job, Informed
<1>9. QED
  BY <1>2, <1>3, <1>4, <1>5, <1>6, <1>7, <1>8 DEF ResetNext, JobStart, JobProceed

\* A used link that no reset holds changes no password any more, whatever is
\* retried and whichever handlers stop half-way.
THEOREM UsedLinksStayUsed == ResetSpec => UsedLinkStaysUsed
<1>1. ResetInv /\ [ResetNext]_allVars
        => [\A l \in Links : Exhausted(l) => Exhausted(l)' /\ uses'[l] = uses[l]]_allVars
  BY ExhaustedStays
<1>2. QED
  BY <1>1, RecoveryInvariant, PTL DEF ResetSpec, UsedLinkStaysUsed
=============================================================================
