---------------------------- MODULE PasswordReset ----------------------------
(***************************************************************************)
(* Password recovery beside the session handlers: forgotPassword and       *)
(* resetPassword of packages/auth/src/auth/auth.service.ts, running        *)
(* concurrently with login, refresh and logout (AuthSessions).             *)
(*                                                                         *)
(* resetPassword wraps its three writes in prisma.$transaction, but every  *)
(* call on that `tx` goes through the RLS extension, which runs it in a    *)
(* transaction of its own (packages/db/src/rls.ts, header and              *)
(* rlsExtension): the writes commit one by one and nothing undoes the      *)
(* first ones when a later one does not happen.                            *)
(*                                                                         *)
(* A link stands for its token.  Tokens that no mail carried are outside   *)
(* the model, as are users that do not exist: both end in an answer        *)
(* without a write.                                                        *)
(***************************************************************************)
EXTENDS AuthSessions

CONSTANTS
    Links,      \* password_resets rows; the bound on how many are created
    Jobs,       \* forgot/reset requests served concurrently, each reusable
    NoLink

ASSUME NoLinkAssumption == NoLink \notin Links

VARIABLES
    link,       \* used_at of a password_resets row: "none", "live" or "used"
    linkUser,   \* password_resets.user_id
    overdue,    \* links whose expires_at is in the past
    mailed,     \* links a mail has carried to the user
    job,        \* what each forgot/reset request is doing
    uses        \* history: password changes obtained with a link (2 = several)

resetVars == <<link, linkUser, overdue, mailed, job, uses>>
allVars == <<vars, resetVars>>

NoJob == [pc |-> "idle", user |-> NoUser, link |-> NoLink, seen |-> {}, seenLinks |-> {}]

LinkRows == {l \in Links : link[l] # "none"}
FreshLinks == Links \ LinkRows

ResetInit ==
    /\ Init
    /\ link = [l \in Links |-> "none"]
    /\ linkUser = [l \in Links |-> NoUser]
    /\ overdue = {}
    /\ mailed = {}
    /\ job = [j \in Jobs |-> NoJob]
    /\ uses = [l \in Links |-> 0]

-----------------------------------------------------------------------------
\* login, refresh and logout, as in AuthSessions.
SessionStep == Next /\ UNCHANGED resetVars

-----------------------------------------------------------------------------
(* forgotPassword: invalidate what is pending, create, mail.               *)

AnswerJob(j) == job' = [job EXCEPT ![j] = NoJob]

RoomForLink ==
    Cardinality({j \in Jobs : job[j].pc \in {"forgot", "invalidated"}})
        < Cardinality(FreshLinks)

Forgot(j, u) ==
    /\ job[j].pc = "idle"
    /\ RoomForLink
    /\ job' = [job EXCEPT ![j] =
                 [NoJob EXCEPT !.pc = "forgot", !.user = u, !.seenLinks = LinkRows]]
    /\ UNCHANGED <<vars, link, linkUser, overdue, mailed, uses>>

\* Mutant: pending links are left alone.
ForgotKeepPending(j) ==
    /\ job[j].pc = "forgot"
    /\ job' = [job EXCEPT ![j].pc = "invalidated"]
    /\ UNCHANGED <<vars, link, linkUser, overdue, mailed, uses>>

\* passwordReset.updateMany({ userId, usedAt: null }, { usedAt: now })
ForgotInvalidate(j) ==
    /\ job[j].pc = "forgot"
    /\ link' = [l \in Links |->
                  IF linkUser[l] = job[j].user /\ link[l] = "live" THEN "used" ELSE link[l]]
    /\ job' = [job EXCEPT ![j].pc = "invalidated"]
    /\ UNCHANGED <<vars, linkUser, overdue, mailed, uses>>

ForgotCreate(j) ==
    /\ job[j].pc = "invalidated"
    /\ \E l \in FreshLinks :
         /\ link' = [link EXCEPT ![l] = "live"]
         /\ linkUser' = [linkUser EXCEPT ![l] = job[j].user]
         /\ job' = [job EXCEPT ![j].pc = "mail", ![j].link = l]
    /\ UNCHANGED <<vars, overdue, mailed, uses>>

\* The mail may fail; the answer is { success: true } either way.
ForgotMail(j) ==
    /\ job[j].pc = "mail"
    /\ mailed' \in {mailed, mailed \cup {job[j].link}}
    /\ AnswerJob(j)
    /\ UNCHANGED <<vars, link, linkUser, overdue, uses>>

-----------------------------------------------------------------------------
(* resetPassword: look the link up, then three writes.                     *)

\* Mutant: usedAt is not looked at.
ResetLookupUnchecked(j, l) ==
    /\ job[j].pc = "idle"
    /\ l \in mailed \ overdue
    /\ job' = [job EXCEPT ![j] =
                 [NoJob EXCEPT !.pc = "reset", !.user = linkUser[l], !.link = l, !.seen = Rows]]
    /\ UNCHANGED <<vars, link, linkUser, overdue, mailed, uses>>

\* A link used or overdue is refused without a write.
ResetLookup(j, l) ==
    /\ job[j].pc = "idle"
    /\ l \in mailed \ overdue
    /\ link[l] = "live"
    /\ job' = [job EXCEPT ![j] =
                 [NoJob EXCEPT !.pc = "reset", !.user = linkUser[l], !.link = l, !.seen = Rows]]
    /\ UNCHANGED <<vars, link, linkUser, overdue, mailed, uses>>

\* tx.user.update
ResetPassword(j) ==
    /\ job[j].pc = "reset"
    /\ uses' = [uses EXCEPT ![job[j].link] = IF @ = 0 THEN 1 ELSE 2]
    /\ job' = [job EXCEPT ![j].pc = "changed"]
    /\ UNCHANGED <<vars, link, linkUser, overdue, mailed>>

\* tx.passwordReset.update
ResetMark(j) ==
    /\ job[j].pc = "changed"
    /\ link' = [link EXCEPT ![job[j].link] = "used"]
    /\ job' = [job EXCEPT ![j].pc = "marked"]
    /\ UNCHANGED <<vars, linkUser, overdue, mailed, uses>>

\* Mutants: the sessions of the user are left open; their rows are deleted.
ResetKeepSessions(j) ==
    /\ job[j].pc = "marked"
    /\ job' = [job EXCEPT ![j].pc = "revoked"]
    /\ UNCHANGED <<vars, link, linkUser, overdue, mailed, uses>>

ResetDeleteSessions(j) ==
    /\ job[j].pc = "marked"
    /\ status' = [s \in Sessions |->
                    IF owner[s] = job[j].user /\ status[s] = "active" THEN "none" ELSE status[s]]
    /\ job' = [job EXCEPT ![j].pc = "revoked"]
    /\ UNCHANGED <<owner, parent, expired, held, req>>
    /\ UNCHANGED <<link, linkUser, overdue, mailed, uses>>

\* tx.session.updateMany({ userId, isActive: true })
ResetRevoke(j) ==
    /\ job[j].pc = "marked"
    /\ Deactivate({s \in Sessions : owner[s] = job[j].user /\ status[s] = "active"})
    /\ job' = [job EXCEPT ![j].pc = "revoked"]
    /\ UNCHANGED <<owner, parent, expired, held, req>>
    /\ UNCHANGED <<link, linkUser, overdue, mailed, uses>>

ResetAnswer(j) ==
    /\ job[j].pc = "revoked"
    /\ AnswerJob(j)
    /\ UNCHANGED <<vars, link, linkUser, overdue, mailed, uses>>

-----------------------------------------------------------------------------

LinkExpires(l) ==
    /\ l \in LinkRows \ overdue
    /\ overdue' = overdue \cup {l}
    /\ UNCHANGED <<vars, link, linkUser, mailed, job, uses>>

JobCrash(j) ==
    /\ CrashesHappen
    /\ job[j].pc # "idle"
    /\ AnswerJob(j)
    /\ UNCHANGED <<vars, link, linkUser, overdue, mailed, uses>>

JobStart(j) ==
    \/ \E u \in Users : Forgot(j, u)
    \/ \E l \in Links : ResetLookup(j, l)

JobProceed(j) ==
    \/ ForgotInvalidate(j) \/ ForgotCreate(j) \/ ForgotMail(j)
    \/ ResetPassword(j) \/ ResetMark(j) \/ ResetRevoke(j) \/ ResetAnswer(j)

ResetNext ==
    \/ SessionStep
    \/ \E j \in Jobs : JobStart(j) \/ JobProceed(j) \/ JobCrash(j)
    \/ \E l \in Links : LinkExpires(l)

ResetSpec == ResetInit /\ [][ResetNext]_allVars

\* As in AuthSessions: awaited calls settle and their continuations run.
FairResetSpec == ResetSpec /\ Fairness /\ \A j \in Jobs : WF_allVars(JobProceed(j))

-----------------------------------------------------------------------------
(* Properties.                                                             *)

\* When a reset answers, its link is used up and every session of the user
\* that existed when the link was looked up is closed, including those that
\* concurrent refreshes were exchanging (auth.service.ts 688-704).
ResetIsComplete ==
    \A j \in Jobs :
        job[j].pc = "revoked" =>
            /\ link[job[j].link] = "used"
            /\ \A s \in job[j].seen : owner[s] = job[j].user => status[s] = "inactive"

\* From the moment a forgot-password request has invalidated the pending
\* links, none of those that existed when it arrived can be used.
EarlierLinksAreDead ==
    \A j \in Jobs : \A l \in job[j].seenLinks :
        job[j].pc \in {"invalidated", "mail"} /\ linkUser[l] = job[j].user
            => link[l] = "used"

\* A link that is used up, with no reset holding it, changes no password any
\* more, whatever is retried and whichever handlers stop half-way.
Exhausted(l) ==
    /\ link[l] = "used"
    /\ \A j \in Jobs : job[j].link = l => job[j].pc \in {"mail", "marked", "revoked"}
UsedLinkStaysUsed ==
    [][\A l \in Links : Exhausted(l) => Exhausted(l)' /\ uses'[l] = uses[l]]_allVars

\* Once the password has been changed, the sessions that existed are closed:
\* the reset goes on to revoke them as long as the API does not stop.
ChangeEndsInLogout ==
    \A j \in Jobs, s \in Sessions :
        (job[j].pc = "changed" /\ s \in job[j].seen /\ owner[s] = job[j].user)
            ~> (status[s] = "inactive")

\* auth.service.ts 635, 688: "Tx atomica: update password + mark token used +
\* revoke" - no state in which the password is changed, nobody is at work on
\* the rest, and the link still lives.
ResetIsAtomic ==
    \A l \in Links :
        uses[l] > 0 /\ link[l] = "live" =>
            \E j \in Jobs : job[j].pc = "changed" /\ job[j].link = l

-----------------------------------------------------------------------------
(* The inductive invariant from which the theorems of PasswordResetProofs  *)
(* follow.                                                                 *)

JobPhases == {"idle", "forgot", "invalidated", "mail", "reset", "changed", "marked", "revoked"}

Job == [pc : JobPhases, user : Users \cup {NoUser}, link : Links \cup {NoLink},
        seen : SUBSET Sessions, seenLinks : SUBSET Links]

ResetTypeOK ==
    /\ link \in [Links -> {"none", "live", "used"}]
    /\ linkUser \in [Links -> Users \cup {NoUser}]
    /\ overdue \in SUBSET Links
    /\ mailed \in SUBSET LinkRows
    /\ job \in [Jobs -> Job]
    /\ uses \in [Links -> 0..2]

\* What a request in progress may rely on, q being what it has read.
Informed(q) ==
    /\ q.pc # "idle" => q.user \in Users
    /\ q.pc \in {"mail", "reset", "changed", "marked", "revoked"} => q.link \in LinkRows
    /\ q.pc \in {"marked", "revoked"} => link[q.link] = "used"
    /\ q.seen \in SUBSET Rows
    /\ q.seenLinks \in SUBSET LinkRows

ResetInv ==
    /\ SessionInv
    /\ ResetTypeOK
    /\ \A l \in LinkRows : linkUser[l] \in Users
    /\ \A j \in Jobs : Informed(job[j])
    /\ ResetIsComplete
    /\ EarlierLinksAreDead
=============================================================================
