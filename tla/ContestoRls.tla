------------------------------ MODULE ContestoRls ------------------------------
(***************************************************************************)
(* How a query gets its tenant: packages/db/src/rls.ts, with the client of *)
(* index.ts, the soft-delete extension and the row-level policies.         *)
(*                                                                         *)
(* A flow is the chain of calls of a request of one tenant.  Its frames    *)
(* are what AsyncLocalStorage shows to the calls inside: contexts, and     *)
(* transactions with the connection they hold.  A connection of the pool   *)
(* has the settings app.tenant_id and app.is_super_admin, that SET LOCAL   *)
(* gives it until the end of the transaction.  Any step may fail instead,  *)
(* and the whole request with it.                                          *)
(***************************************************************************)
EXTENDS Righe, Sequences, Naturals

CONSTANTS
    Flussi, Connessioni, Tenant,
    TenantDi,       \* the tenant of a flow
    Profondita      \* bound on the frames of a flow

ASSUME FlussiAssumption == TenantDi \in [Flussi -> Tenant]
ASSUME RlsNessunoAssumption == Nessuno \notin Flussi \cup Tenant

VARIABLES
    pila,           \* the frames of each flow, the innermost last
    connessione     \* di: the flow that holds it; tenant, sa: the settings

rlsVars == <<pila, connessione>>

SenzaSettings == [di |-> Nessuno, tenant |-> Nessuno, sa |-> FALSE]

RlsInit ==
    /\ pila = [f \in Flussi |-> <<>>]
    /\ connessione = [c \in Connessioni |-> SenzaSettings]

-----------------------------------------------------------------------------
Cornici(f) == {pila[f][i] : i \in DOMAIN pila[f]}
Cima(f) == pila[f][Len(pila[f])]
Dentro(f, tipi) == pila[f] # <<>> /\ Cima(f).tipo \in tipi

\* inflightStorage: a context opened inside keeps it.
Inflight(f) == \E x \in Cornici(f) : x.tipo \in {"atomica", "operazione"}

\* getTenantContext: the innermost one, if there is one.
Contesti == {"contesto", "atomica"}
Contesto(f) ==
    {pila[f][i] : i \in {j \in DOMAIN pila[f] :
        /\ pila[f][j].tipo \in Contesti
        /\ \A k \in DOMAIN pila[f] : k > j => pila[f][k].tipo \notin Contesti}}

\* The policies <table>_tenant_isolation.
Visibili(c) ==
    IF connessione[c].sa THEN Tenant ELSE {connessione[c].tenant} \cap Tenant

\* Where a query of a flow may run now: on a connection of its transactions
\* (tx.<model>.<operation>, tx.$queryRaw); on a free one if nobody wraps it (a
\* raw query, a call on the base client inside an atomic transaction, the
\* update that the soft-delete extension makes of a delete).
Interrogabili(f) ==
    {c \in Connessioni : connessione[c].di = Nessuno}
        \cup {x.conn : x \in {y \in Cornici(f) :
                 y.tipo = "transazione" \/ (y.tipo \in {"atomica", "operazione"} /\ y.pronta)}}

\* All rows inside a system context, those of the tenant otherwise.
Ammesse(f) ==
    IF \E x \in Cornici(f) : x.tipo \in Contesti /\ x.sa
      THEN Tenant ELSE {TenantDi[f]}

Spinge(f, cornice) ==
    /\ Len(pila[f]) < Profondita
    /\ pila' = [pila EXCEPT ![f] = Append(@, cornice)]

Prende(f, c) ==
    /\ connessione[c].di = Nessuno
    /\ connessione' = [connessione EXCEPT ![c].di = f]

\* Mutant: SET in place of SET LOCAL.
RilasciataComEra(c) == [connessione[c] EXCEPT !.di = Nessuno]

\* COMMIT or ROLLBACK.
Rilasciata(c) == SenzaSettings

-----------------------------------------------------------------------------
\* runInTenantContext with the tenant of the request; withSystemContext.
RunInContext(f, sa) ==
    /\ ~Dentro(f, {"operazione"})
    /\ Spinge(f, [tipo |-> "contesto", tenant |-> IF sa THEN Nessuno ELSE TenantDi[f],
                  sa |-> sa])
    /\ UNCHANGED connessione

EsceDalContesto(f) ==
    /\ Dentro(f, {"contesto"})
    /\ pila' = [pila EXCEPT ![f] = SubSeq(@, 1, Len(@) - 1)]
    /\ UNCHANGED connessione

\* withTenantContextAtomicTx, withSystemContextAtomicTx, up to BEGIN.
ApreAtomica(f, c, sa) ==
    /\ ~Dentro(f, {"operazione"})
    /\ Prende(f, c)
    /\ Spinge(f, [tipo |-> "atomica", tenant |-> IF sa THEN Nessuno ELSE TenantDi[f],
                  sa |-> sa, conn |-> c, pronta |-> FALSE])

\* prisma.$transaction(fn): not a model operation, no SET LOCAL.
ApreTransazione(f, c) ==
    /\ ~Dentro(f, {"operazione"})
    /\ Prende(f, c)
    /\ Spinge(f, [tipo |-> "transazione", conn |-> c])

\* $allOperations on a model: without a context it throws; otherwise BEGIN, on
\* a connection of its own even inside a plain transaction.
ApreOperazione(f, c) ==
    /\ ~Inflight(f)
    /\ Prende(f, c)
    /\ \E x \in Contesto(f) :
         Spinge(f, [tipo |-> "operazione", tenant |-> x.tenant, sa |-> x.sa,
                    conn |-> c, pronta |-> FALSE])

\* The two SET LOCAL.
SetLocal(f) ==
    LET x == Cima(f) IN
    /\ Dentro(f, {"atomica", "operazione"})
    /\ ~x.pronta
    /\ connessione' = [connessione EXCEPT ![x.conn].tenant = x.tenant, ![x.conn].sa = x.sa]
    /\ pila' = [pila EXCEPT ![f][Len(pila[f])].pronta = TRUE]

Chiude(f) ==
    /\ Dentro(f, {"atomica", "transazione", "operazione"})
    /\ connessione' = [connessione EXCEPT ![Cima(f).conn] = Rilasciata(Cima(f).conn)]
    /\ pila' = [pila EXCEPT ![f] = SubSeq(@, 1, Len(@) - 1)]

\* An error nobody catches, the time-outs of Prisma on a connection or on a
\* transaction among them: what is open rolls back.
FlussoFallisce(f) ==
    /\ pila[f] # <<>>
    /\ pila' = [pila EXCEPT ![f] = <<>>]
    /\ connessione' = [c \in Connessioni |->
         IF connessione[c].di = f THEN Rilasciata(c) ELSE connessione[c]]

RlsNext ==
    \E f \in Flussi :
        \/ \E sa \in BOOLEAN : RunInContext(f, sa) \/ \E c \in Connessioni : ApreAtomica(f, c, sa)
        \/ \E c \in Connessioni :
             ApreTransazione(f, c) \/ ApreOperazione(f, c)
        \/ EsceDalContesto(f) \/ SetLocal(f) \/ Chiude(f) \/ FlussoFallisce(f)

RlsSpec == RlsInit /\ [][RlsNext]_rlsVars

-----------------------------------------------------------------------------
(* Properties.                                                             *)

\* No query of a request sees rows of another tenant outside a system
\* context, whatever it nests, whatever fails, and whoever has used its
\* connection before: a query that no transaction gives a tenant sees none.
SoloIlProprioTenant ==
    \A f \in Flussi : \A c \in Interrogabili(f) : Visibili(c) \subseteq Ammesse(f)

-----------------------------------------------------------------------------
(* The invariant from which it follows.                                    *)

ConConnessione == {"atomica", "transazione", "operazione"}

Cornice ==
    [tipo : {"contesto"}, tenant : Tenant \cup {Nessuno}, sa : BOOLEAN]
        \cup [tipo : {"transazione"}, conn : Connessioni]
        \cup [tipo : {"atomica", "operazione"}, tenant : Tenant \cup {Nessuno}, sa : BOOLEAN,
              conn : Connessioni, pronta : BOOLEAN]

RlsTipi ==
    /\ pila \in [Flussi -> Seq(Cornice)]
    /\ connessione \in [Connessioni ->
          [di : Flussi \cup {Nessuno}, tenant : Tenant \cup {Nessuno}, sa : BOOLEAN]]

\* The connection `k` that a frame holds has its settings, or none.
Impostata(k, f, x) ==
    /\ k.di = f
    /\ IF x.tipo # "transazione" /\ x.pronta
         THEN k.tenant = x.tenant /\ k.sa = x.sa
         ELSE k.tenant = Nessuno /\ k.sa = FALSE

\* The i-th of the frames `s` of a flow, with the connections as in `k`: of its
\* tenant or of the system; an operation is inside a context that allows as
\* much; no frame below holds its connection.
InOrdine(k, f, s, i) ==
    /\ s[i].tipo # "transazione" =>
         s[i].tenant = IF s[i].sa THEN Nessuno ELSE TenantDi[f]
    /\ s[i].tipo = "operazione" =>
         \E j \in 1..(i - 1) : s[j].tipo \in Contesti /\ s[j].sa = s[i].sa
    /\ s[i].tipo \in ConConnessione =>
         /\ Impostata(k[s[i].conn], f, s[i])
         /\ \A j \in 1..(i - 1) : s[j].tipo \in ConConnessione => s[j].conn # s[i].conn

Ordinate(k, f, s) == \A i \in 1..Len(s) : InOrdine(k, f, s, i)

RlsInv ==
    /\ RlsTipi
    /\ \A f \in Flussi : Ordinate(connessione, f, pila[f])
    /\ \A c \in Connessioni : connessione[c].di = Nessuno => connessione[c] = SenzaSettings
=============================================================================
