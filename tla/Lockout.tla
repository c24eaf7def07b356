--------------------------------- MODULE Lockout ---------------------------------
(***************************************************************************)
(* The lockout after wrong passwords or PINs: lockout.service.ts of        *)
(* packages/auth/src/auth and its use by AuthService.login and loginPin,   *)
(* for one key (tenant and email, tenant and device).                      *)
(*                                                                         *)
(* The two Redis keys are the sorted set of the failures, with a deadline  *)
(* of its own, and the lock with its deadline.  A command, or a pipeline,  *)
(* is one step; requests run concurrently between them.  Redis answers and *)
(* the API does not stop: otherwise the service fails open, by design.     *)
(***************************************************************************)
EXTENDS Naturals, FiniteSets

CONSTANTS
    Threshold, Window, Duration,   \* the configuration
    Tentativi,                     \* login requests served concurrently
    Sigle,                         \* the random part of a member's name
    MaxOra                         \* bound on the clock

ASSUME LockoutAssumption ==
    /\ Threshold \in Nat \ {0}
    /\ Window \in Nat \ {0}
    /\ Duration \in Nat
    /\ MaxOra \in Nat

VARIABLES
    ora,          \* Date.now(), and the clock of Redis
    attempts,     \* the sorted set: its members, each with its score
    scadeSet,     \* deadline of that key
    locked,       \* the lock is there until this time
    tentativo,    \* what each request is doing
    sbagliate     \* history: the wrong guesses since the last right one

lockoutVars == <<ora, attempts, scadeSet, locked, tentativo, sbagliate>>

Tempi == 0..MaxOra

\* A member `${now}-${random}` with score now; `di` says whose guess it is.
Membri == [di : Tentativi, quando : Tempi, sigla : Sigle]
Inattivo == [fase |-> "inattivo"]

LockoutInit ==
    /\ ora = 0
    /\ attempts = {}
    /\ scadeSet = 0
    /\ locked = 0
    /\ tentativo = [r \in Tentativi |-> Inattivo]
    /\ sbagliate = {}

Passa ==
    /\ ora < MaxOra
    /\ ora' = ora + 1
    /\ UNCHANGED <<attempts, scadeSet, locked, tentativo, sbagliate>>

Bloccato == locked > ora

\* checkLockout.
Controlla(r) ==
    /\ tentativo[r] = Inattivo
    /\ ~Bloccato
    /\ tentativo' = [tentativo EXCEPT ![r] = [fase |-> "verifica"]]
    /\ UNCHANGED <<ora, attempts, scadeSet, locked, sbagliate>>

\* argon2.verify says no: recordFailedAttempt, up to the pipeline.  Two
\* guesses of a millisecond draw different names.
Sbaglia(r) ==
    /\ tentativo[r].fase = "verifica"
    /\ \E s \in Sigle :
         LET membro == [di |-> r, quando |-> ora, sigla |-> s] IN
         /\ membro \notin attempts \cup sbagliate
         /\ tentativo' = [tentativo EXCEPT ![r] = [fase |-> "registra", membro |-> membro]]
         /\ sbagliate' = sbagliate \cup {membro}
    /\ UNCHANGED <<ora, attempts, scadeSet, locked>>

\* zadd (to the set that is there, if it has not expired), zremrangebyscore.
ConTentativo(membro) ==
    {m \in (IF scadeSet > ora THEN attempts ELSE {}) \cup {membro} :
        m.quando + Window > membro.quando}

\* Mutant: one more is allowed.
RaggiungeOltre(count) == count > Threshold

Raggiunge(count) == count >= Threshold

\* The pipeline, with zcard and pexpire.
Registra(r) ==
    LET insieme == ConTentativo(tentativo[r].membro) IN
    /\ tentativo[r].fase = "registra"
    /\ attempts' = insieme
    /\ scadeSet' = ora + Window
    /\ tentativo' = [tentativo EXCEPT ![r] =
         IF Raggiunge(Cardinality(insieme)) THEN [fase |-> "promuove"] ELSE Inattivo]
    /\ UNCHANGED <<ora, locked, sbagliate>>

Promuove(r) ==
    /\ tentativo[r].fase = "promuove"
    /\ locked' = ora + Duration
    /\ tentativo' = [tentativo EXCEPT ![r] = Inattivo]
    /\ UNCHANGED <<ora, attempts, scadeSet, sbagliate>>

\* The password is right: resetAttempts.
Azzera(r) ==
    /\ tentativo[r].fase = "verifica"
    /\ attempts' = {}
    /\ locked' = 0
    /\ tentativo' = [tentativo EXCEPT ![r] = Inattivo]
    /\ sbagliate' = {}
    /\ UNCHANGED <<ora, scadeSet>>

LockoutNext ==
    \/ Passa
    \/ \E r \in Tentativi :
         Controlla(r) \/ Sbaglia(r) \/ Registra(r) \/ Promuove(r) \/ Azzera(r)

LockoutSpec == LockoutInit /\ [][LockoutNext]_lockoutVars

-----------------------------------------------------------------------------
(* Properties.                                                             *)

\* Whoever guesses gets Threshold wrong answers in a Window, and one more for
\* each further request he has in flight, before he is locked out: guesses are
\* counted after they are checked, so parallel ones pass the lock together,
\* and a right password in between resets the count.  Needs a lock that lasts
\* a Window at least, as in the default configuration.
TentativiLimitati ==
    \A t \in Tempi :
        Cardinality({m \in sbagliate : m.quando <= t /\ t < m.quando + Window})
            <= Threshold + Cardinality(Tentativi) - 1
-----------------------------------------------------------------------------
(* The invariant of the proofs.                                            *)

Fasi == [fase : {"inattivo", "verifica", "promuove"}] \cup [fase : {"registra"}, membro : Membri]

LockTipi ==
    /\ ora \in Tempi
    /\ attempts \in SUBSET Membri /\ IsFiniteSet(attempts)
    /\ scadeSet \in Nat
    /\ locked \in Nat
    /\ sbagliate \in SUBSET Membri /\ IsFiniteSet(sbagliate)
    /\ tentativo \in [Tentativi -> Fasi]

InRegistra(r, m) == tentativo[r].fase = "registra" /\ tentativo[r].membro = m

\* Every guess that the sliding window still covers is in the set, whose key has
\* not expired, or on its way there.
NessunaPersa ==
    /\ \A m \in sbagliate \cup attempts : m.quando <= ora
    /\ \A r \in Tentativi, m \in Membri : InRegistra(r, m) => m.di = r /\ m.quando <= ora
    /\ \A m \in sbagliate : m.quando + Window > ora =>
         \/ m \in attempts /\ scadeSet >= m.quando + Window
         \/ \E r \in Tentativi : InRegistra(r, m)

\* The guesses of the window that Redis has counted.
Contate == {m \in sbagliate \cap attempts : m.quando + Window > ora}

\* Those of them that reached the threshold: one for each request, which is about
\* to lock the key or has locked it for as long as the guess counts.
Eccesso(S) ==
    /\ S \in SUBSET Contate
    /\ Cardinality(Contate \ S) <= Threshold - 1
    /\ \A m, n \in S : m.di = n.di => m = n
    /\ \A m \in S :
         \/ tentativo[m.di].fase = "promuove"
         \/ tentativo[m.di].fase = "inattivo" /\ locked >= m.quando + Window

LockInv ==
    /\ LockTipi
    /\ locked <= ora + Duration
    /\ NessunaPersa
    /\ TentativiLimitati
    /\ \E S \in SUBSET Contate : Eccesso(S)

=============================================================================
