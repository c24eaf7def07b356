------------------------------ MODULE CatalogoRuoli ------------------------------
(***************************************************************************)
(* How a permission reaches the roles of the tenants: the catalogue in the *)
(* code (packages/db/prisma/rbac-catalog.ts), the production seed          *)
(* (prisma/seed.ts), the bootstrap of a tenant (tenants.service.ts of      *)
(* packages/auth) and the gate with its remedy                             *)
(* (packages/db/scripts/check-role-permissions-drift.ts).                  *)
(*                                                                         *)
(* The seed commits row by row, the bootstrap and the remedy as a whole.   *)
(* No table loses a row, so the reads of one gate are one step, as are the *)
(* two queries of the bootstrap.  A catalogue is a function from the names *)
(* of its templates to sets of codes; the permissions are those it names.  *)
(***************************************************************************)
EXTENDS Righe, Functions

CONSTANTS
    Versioni,     \* the catalogues that releases of the code have
    Studi         \* tenants

ASSUME VersioniAssumption ==
    \A v \in Versioni : "Super Admin" \in DOMAIN v

VARIABLES
    codice,       \* the catalogue of the release that is deployed
    permessi,     \* permissions
    modelli,      \* system_role_templates and their mappings, a catalogue too
    ruoli,        \* roles and role_permissions of a tenant, Nessuno before its birth
    seed,         \* the seed in progress
    nascita,      \* per tenant, the templates its bootstrap has read
    stampato,     \* some gate has printed the SQL of the remedy
    verde,        \* history: a gate was green, and nothing has been released since
    inVolo        \* history: tenants whose bootstrap had read before that gate

catalogoVars == <<codice, permessi, modelli, ruoli, seed, nascita, stampato, verde,
                  inVolo>>

Codici(catalogo) == UNION Range(catalogo)
NessunCatalogo == [n \in {} |-> {}]

\* All names, all codes, and the catalogues made of them.
Nomi == UNION {DOMAIN v : v \in Versioni}
Tutti == UNION {Codici(v) : v \in Versioni}
Catalogo == UNION {[nomi -> SUBSET Tutti] : nomi \in SUBSET Nomi}

ASSUME CatalogoAssumption == Nessuno \notin Catalogo

SeedFermo == [fase |-> "fermo"]

Nati == {t \in Studi : Esiste(ruoli, t)}

\* What a catalogue gives to a name.
Di(catalogo, nome) == IF nome \in DOMAIN catalogo THEN catalogo[nome] ELSE {}
Coppie(catalogo) == {x \in (DOMAIN catalogo) \X Codici(catalogo) : x[2] \in catalogo[x[1]]}

CatalogoInit ==
    /\ codice \in Versioni
    /\ permessi = {}
    /\ modelli = NessunCatalogo
    /\ ruoli = [t \in Studi |-> Nessuno]
    /\ seed = SeedFermo
    /\ nascita = [t \in Studi |-> Nessuno]
    /\ stampato = FALSE
    /\ verde = FALSE
    /\ inVolo = {}

-----------------------------------------------------------------------------
(* Releases and the seed.                                                  *)

Rilascia(v) ==
    /\ v # codice
    /\ codice' = v
    /\ verde' = FALSE
    /\ inVolo' = {}
    /\ UNCHANGED <<permessi, modelli, ruoli, seed, nascita, stampato>>

\* main() with NODE_ENV=production, of the release of the moment.
SeedParte ==
    /\ seed = SeedFermo
    /\ seed' = [fase |-> "permessi", catalogo |-> codice, fatti |-> {}]
    /\ UNCHANGED <<codice, permessi, modelli, ruoli, nascita, stampato, verde, inVolo>>

Avanza(da, tutti, a) ==
    /\ seed.fase = da
    /\ seed.fatti = tutti
    /\ seed' = IF a = "fermo" THEN SeedFermo ELSE [seed EXCEPT !.fase = a, !.fatti = {}]
    /\ UNCHANGED <<codice, permessi, modelli, ruoli, nascita, stampato, verde, inVolo>>

\* An upsert of a permission.
SeedPermesso(p) ==
    /\ seed.fase = "permessi"
    /\ p \in Codici(seed.catalogo) \ seed.fatti
    /\ permessi' = permessi \cup {p}
    /\ seed' = [seed EXCEPT !.fatti = @ \cup {p}]
    /\ UNCHANGED <<codice, modelli, ruoli, nascita, stampato, verde, inVolo>>

\* Of a template.
SeedModello(n) ==
    /\ seed.fase = "modelli"
    /\ n \in DOMAIN seed.catalogo \ seed.fatti
    /\ modelli' = [m \in DOMAIN modelli \cup {n} |-> Di(modelli, m)]
    /\ seed' = [seed EXCEPT !.fatti = @ \cup {n}]
    /\ UNCHANGED <<codice, permessi, ruoli, nascita, stampato, verde, inVolo>>

\* Of a mapping; what the code no longer has is not removed.
SeedCoppia(n, p) ==
    /\ seed.fase = "coppie"
    /\ <<n, p>> \in Coppie(seed.catalogo) \ seed.fatti
    /\ modelli' = [modelli EXCEPT ![n] = @ \cup {p}]
    /\ seed' = [seed EXCEPT !.fatti = @ \cup {<<n, p>>}]
    /\ UNCHANGED <<codice, permessi, ruoli, nascita, stampato, verde, inVolo>>

SeedPasso ==
    /\ seed # SeedFermo
    /\ \/ \E p \in Codici(seed.catalogo) : SeedPermesso(p)
       \/ \E n \in DOMAIN seed.catalogo : SeedModello(n)
       \/ \E x \in Coppie(seed.catalogo) : SeedCoppia(x[1], x[2])
       \/ Avanza("permessi", Codici(seed.catalogo), "modelli")
       \/ Avanza("modelli", DOMAIN seed.catalogo, "coppie")
       \/ Avanza("coppie", Coppie(seed.catalogo), "fermo")

SeedSiFerma ==
    /\ seed # SeedFermo
    /\ seed' = SeedFermo
    /\ UNCHANGED <<codice, permessi, modelli, ruoli, nascita, stampato, verde, inVolo>>

-----------------------------------------------------------------------------
(* createTenant.                                                           *)

NascitaLegge(t) ==
    /\ ~Esiste(ruoli, t)
    /\ nascita[t] = Nessuno
    /\ nascita' = [nascita EXCEPT ![t] = modelli]
    /\ inVolo' = inVolo \ {t}
    /\ UNCHANGED <<codice, permessi, modelli, ruoli, seed, stampato, verde>>

\* The roles, the admin and the commit; without 'Super Admin' it throws.
NascitaConferma(t) ==
    /\ Esiste(nascita, t)
    /\ ruoli' = IF "Super Admin" \in DOMAIN nascita[t]
                  THEN [ruoli EXCEPT ![t] = nascita[t]] ELSE ruoli
    /\ nascita' = [nascita EXCEPT ![t] = Nessuno]
    /\ UNCHANGED <<codice, permessi, modelli, seed, stampato, verde, inVolo>>

NascitaFallisce(t) ==
    /\ Esiste(nascita, t)
    /\ nascita' = [nascita EXCEPT ![t] = Nessuno]
    /\ UNCHANGED <<codice, permessi, modelli, ruoli, seed, stampato, verde, inVolo>>

-----------------------------------------------------------------------------
(* The gate.                                                               *)

\* Mutant: permissions and templates are compared, mappings are not.
C1SenzaCoppie(c) == Codici(c) \subseteq permessi /\ DOMAIN c \subseteq DOMAIN modelli

\* The catalogue in the database has all that is in the code.
C1(c) ==
    /\ Codici(c) \subseteq permessi
    /\ DOMAIN c \subseteq DOMAIN modelli
    /\ \A n \in DOMAIN c : c[n] \subseteq Di(modelli, n)

\* C1-bis is not blocking: what is left of earlier releases.
Residui(c) == permessi \ Codici(c) # {} \/ \E n \in DOMAIN modelli : ~(modelli[n] \subseteq Di(c, n))

\* Roles examined, and the other ones (C4); all are is_system.
Esaminati(c) == {x \in Nati \X (DOMAIN c) : x[2] \in DOMAIN ruoli[x[1]]}
C4(c) == \A t \in Nati : DOMAIN ruoli[t] \subseteq DOMAIN c

C2(c) == \A x \in Esaminati(c) : c[x[2]] \subseteq ruoli[x[1]][x[2]]
C3(c) == \A x \in Esaminati(c) : ruoli[x[1]][x[2]] \subseteq c[x[2]]

Verde(c) == C1(c) /\ C2(c) /\ C3(c) /\ C4(c) /\ Esaminati(c) # {}

DelRilascio(s) == s # SeedFermo => s.catalogo = codice

\* Green counts if nothing is left over and no seed of another release is
\* running.  The SQL that an earlier run printed stays with who has it.
Gate ==
    /\ stampato' = (stampato \/ ~C2(codice))
    /\ verde' = (verde \/ (Verde(codice) /\ ~Residui(codice) /\ DelRilascio(seed)))
    /\ inVolo' = IF verde' /\ ~verde THEN {t \in Studi : Esiste(nascita, t)} ELSE inVolo
    /\ UNCHANGED <<codice, permessi, modelli, ruoli, seed, nascita>>

\* The INSERT ... SELECT it prints, run by an operator as often as he likes:
\* the templates it joins are those of the database.
Rimedio ==
    /\ stampato
    /\ ruoli' = [t \in Studi |->
         IF t \in Nati THEN [n \in DOMAIN ruoli[t] |-> ruoli[t][n] \cup Di(modelli, n)]
                       ELSE Nessuno]
    /\ UNCHANGED <<codice, permessi, modelli, seed, nascita, stampato, verde, inVolo>>

CatalogoNext ==
    \/ \E v \in Versioni : Rilascia(v)
    \/ SeedParte \/ SeedPasso \/ SeedSiFerma
    \/ \E t \in Studi : NascitaLegge(t) \/ NascitaConferma(t) \/ NascitaFallisce(t)
    \/ Gate \/ Rimedio

CatalogoSpec == CatalogoInit /\ [][CatalogoNext]_catalogoVars

-----------------------------------------------------------------------------
(* Properties.                                                             *)

\* After a gate that was green with nothing left over and no seed of another
\* release running, the roles of every tenant, of those born since too, have the
\* permissions of the code until the next release: neither a seed, in progress
\* at the gate or run again, that stops half-way, nor a bootstrap, nor the SQL
\* an earlier gate printed, run again, changes that.  A tenant whose bootstrap
\* had read the templates before the gate, and commits after it, is outside.
VerdeDura ==
    verde => \A t \in Nati \ inVolo : \A n \in DOMAIN ruoli[t] : ruoli[t][n] = Di(codice, n)

-----------------------------------------------------------------------------
(* The invariant from which it follows.                                    *)

InSeed ==
    [fase : {"permessi"}, catalogo : Versioni, fatti : SUBSET Tutti]
        \cup [fase : {"modelli"}, catalogo : Versioni, fatti : SUBSET Nomi]
        \cup [fase : {"coppie"}, catalogo : Versioni, fatti : SUBSET (Nomi \X Tutti)]

CatalogoTipi ==
    /\ codice \in Versioni
    /\ permessi \subseteq Tutti
    /\ modelli \in Catalogo
    /\ ruoli \in [Studi -> Catalogo \cup {Nessuno}]
    /\ seed \in InSeed \cup {SeedFermo}
    /\ nascita \in [Studi -> Catalogo \cup {Nessuno}]
    /\ stampato \in BOOLEAN
    /\ verde \in BOOLEAN
    /\ inVolo \subseteq Studi

\* A catalogue gives each of its names what the code gives it.
Concorde(catalogo) == \A n \in DOMAIN catalogo : catalogo[n] = Di(codice, n)

\* Whatever may still write roles has what the code says: the templates, the
\* seed in progress and, but for the tenants in flight at the gate, the roles that
\* are there and those about to be born.
CatalogoInv ==
    /\ CatalogoTipi
    /\ verde =>
         /\ DOMAIN codice \subseteq DOMAIN modelli
         /\ Concorde(modelli)
         /\ \A t \in Studi \ inVolo : Esiste(ruoli, t) => Concorde(ruoli[t])
         /\ \A t \in Studi \ inVolo : Esiste(nascita, t) => Concorde(nascita[t])
         /\ seed # SeedFermo => seed.catalogo = codice
=============================================================================
