------------------------------ MODULE CacheAccesso ------------------------------
(***************************************************************************)
(* What a guard remembers in Redis: TenantConsistencyGuard the tenant of   *)
(* the slug in the header, PermissionsGuard whether a user has the         *)
(* permission of the endpoint.  Both take the answer from Redis, or look   *)
(* it up in the database and set it with a time to live, a negative answer *)
(* too; nobody clears the key when roles or tenants change.  Here one key, *)
(* of either guard; the answer is whether it lets the request through.     *)
(*                                                                         *)
(* A command is a step; one that fails is a miss, or a set without effect. *)
(***************************************************************************)
EXTENDS Integers

CONSTANTS
    Controlli,    \* requests under the guard at the same time
    Ttl,          \* RBAC_CACHE_TTL_S, CACHE_TTL_SECONDS: both 60 s
    Pazienza      \* bound on the time from the get to the handler

ASSUME CacheAssumption == Ttl \in Nat \ {0} /\ Pazienza \in Nat

VARIABLES
    vale,         \* in the database: the tenant is active, the permission given
    cache,        \* the answer, and the time it has left
    controllo,    \* what each request is doing, and since when
    eta           \* history: time since each answer was last the true one

cacheVars == <<vale, cache, controllo, eta>>

\* An answer is gone at the Ttl-th tick after it has been set.
Limite == Ttl - 1 + 2 * Pazienza

Fuori == [fase |-> "fuori", da |-> 0]
InGuardia(r) == controllo[r].fase # "fuori"

CacheInit ==
    /\ vale \in BOOLEAN
    /\ cache = [valore |-> FALSE, resta |-> 0]
    /\ controllo = [r \in Controlli |-> Fuori]
    /\ eta = [b \in BOOLEAN |-> IF b = vale THEN 0 ELSE Limite + 1]

\* A unit of time.
Trascorre ==
    /\ \A r \in Controlli : InGuardia(r) => controllo[r].da < Pazienza
    /\ controllo' = [r \in Controlli |->
         IF InGuardia(r) THEN [controllo[r] EXCEPT !.da = @ + 1] ELSE controllo[r]]
    /\ cache' = [cache EXCEPT !.resta = IF @ = 0 THEN 0 ELSE @ - 1]
    /\ eta' = [b \in BOOLEAN |-> IF b = vale \/ eta[b] > Limite THEN eta[b] ELSE eta[b] + 1]
    /\ UNCHANGED vale

\* Somebody changes roles, or suspends or restores the tenant.
Cambia ==
    /\ vale' = ~vale
    /\ eta' = [eta EXCEPT ![~vale] = 0]
    /\ UNCHANGED <<cache, controllo>>

\* The get: it finds the answer, and the guard lets the request through or
\* refuses it, or it does not.
Trova(r) ==
    /\ ~InGuardia(r)
    /\ cache.resta > 0
    /\ controllo' = [controllo EXCEPT ![r] =
         [fase |-> "risposta", da |-> 0, valore |-> cache.valore]]
    /\ UNCHANGED <<vale, cache, eta>>

NonTrova(r) ==
    /\ ~InGuardia(r)
    /\ controllo' = [controllo EXCEPT ![r].fase = "cerca"]
    /\ UNCHANGED <<vale, cache, eta>>

\* findUnique of the tenant, hasPermission of the user.
Cerca(r) ==
    /\ controllo[r].fase = "cerca"
    /\ controllo' = [controllo EXCEPT ![r] =
         [fase |-> "imposta", da |-> @.da, valore |-> vale]]
    /\ UNCHANGED <<vale, cache, eta>>

\* Mutant: the time to live is given in milliseconds.
VoceNuovaInMillisecondi(r) == [valore |-> controllo[r].valore, resta |-> 1000 * Ttl]

\* set ... EX ttl.
VoceNuova(r) == [valore |-> controllo[r].valore, resta |-> Ttl]

Imposta(r) ==
    /\ controllo[r].fase = "imposta"
    /\ cache' \in {cache, VoceNuova(r)}
    /\ controllo' = [controllo EXCEPT ![r].fase = "risposta"]
    /\ UNCHANGED <<vale, eta>>

\* The request has reached the handler, or has been refused.
Esce(r) ==
    /\ controllo[r].fase = "risposta"
    /\ controllo' = [controllo EXCEPT ![r] = Fuori]
    /\ UNCHANGED <<vale, cache, eta>>

CacheNext ==
    \/ Trascorre \/ Cambia
    \/ \E r \in Controlli : Trova(r) \/ NonTrova(r) \/ Cerca(r) \/ Imposta(r) \/ Esce(r)

CacheSpec == CacheInit /\ [][CacheNext]_cacheVars

-----------------------------------------------------------------------------
(* Properties.                                                             *)

\* No guard acts on an answer that was not the true one at some time in the
\* last Ttl and twice what a request may take: a permission taken away, a
\* suspended tenant and a permission given all count after that time at most,
\* although an answer looked up before the change may be set after it, and
\* over a newer one.
RispostaRecente ==
    \A r \in Controlli : controllo[r].fase = "risposta" => eta[controllo[r].valore] <= Limite

-----------------------------------------------------------------------------
(* The invariant from which it follows.                                    *)

Controllo ==
    [fase : {"fuori"}, da : {0}] \cup [fase : {"cerca"}, da : 0..Pazienza]
        \cup [fase : {"imposta", "risposta"}, da : 0..Pazienza, valore : BOOLEAN]

CacheTipi ==
    /\ vale \in BOOLEAN
    /\ cache \in [valore : BOOLEAN, resta : 0..Ttl]
    /\ controllo \in [Controlli -> Controllo]
    /\ eta \in [BOOLEAN -> 0..(Limite + 1)]

\* An answer looked up was true after the get; the one in Redis, a request
\* before it was set; the one a guard acts on, a Ttl before that at most.
CacheInv ==
    /\ CacheTipi
    /\ eta[vale] = 0
    /\ cache.resta > 0 => eta[cache.valore] <= Pazienza + Ttl - cache.resta
    /\ \A r \in Controlli :
         /\ controllo[r].fase = "imposta" =>
              eta[controllo[r].valore] <= controllo[r].da
         /\ controllo[r].fase = "risposta" =>
              eta[controllo[r].valore] <= Pazienza + Ttl - 1 + controllo[r].da
=============================================================================
