-------------------------------- MODULE Circolari --------------------------------
(***************************************************************************)
(* Circulars and their reading by clients: circolari.service.ts of         *)
(* apps/accountant-api/src/circolari, for one tenant.                      *)
(*                                                                         *)
(* A change by the studio reads the state of the circular and then updates *)
(* it by id, in another transaction.  A client request reads what he may   *)
(* see and then writes his reading.  Recipients are the set of companies   *)
(* they reach ('tutti' is all of them).  The client users and their        *)
(* companies do not change.                                                *)
(***************************************************************************)
EXTENDS Righe

CONSTANTS
    Circolare,            \* ids
    Utenti,               \* client users
    AziendaDi,            \* the company of a client user
    Studio, Portale       \* requests of operators, of clients

ASSUME AziendaAssumption == AziendaDi \in [Utenti -> Aziende]

VARIABLES
    circolare,   \* stato, destinatari, conferma (richiede_conferma), viva
    lettura,     \* per circular and user: nothing, or confermata
    studio,      \* requests of the studio between read and update
    portale,     \* requests of clients between read and upsert
    ritoccate    \* history: circulars published between the read of an edit
                 \* and its write

circolariVars == <<circolare, lettura, studio, portale, ritoccate>>

Operazioni == {"modifica", "pubblica", "archivia", "elimina"}
StatiCircolare == {"bozza", "pubblicata", "archiviata"}
CircolareRiga ==
    [stato : StatiCircolare, destinatari : SUBSET Aziende, conferma : BOOLEAN, viva : BOOLEAN]
LetturaRiga == [confermata : BOOLEAN]

ASSUME CircolariAssumption == Nessuno \notin CircolareRiga \cup LetturaRiga

Libera == [fase |-> "libera"]

CircolariInit ==
    /\ circolare = [c \in Circolare |-> Nessuno]
    /\ lettura = [c \in Circolare |-> [u \in Utenti |-> Nessuno]]
    /\ studio = [s \in Studio |-> Libera]
    /\ portale = [p \in Portale |-> Libera]
    /\ ritoccate = {}

-----------------------------------------------------------------------------
(* The studio.                                                             *)

CircolareCrea(c, dest, conf) ==
    /\ ~Esiste(circolare, c)
    /\ circolare' = [circolare EXCEPT ![c] =
         [stato |-> "bozza", destinatari |-> dest, conferma |-> conf, viva |-> TRUE]]
    /\ UNCHANGED <<lettura, studio, portale, ritoccate>>

\* Mutant: whatever the state.
StatoRichiestoQualsiasi(op, stato) == TRUE

StatoRichiesto(op, stato) == stato = IF op = "archivia" THEN "pubblicata" ELSE "bozza"

\* The read of update, publish, archive, softDelete.
StudioLegge(s, c, op) ==
    /\ studio[s] = Libera
    /\ Esiste(circolare, c)
    /\ circolare[c].viva
    /\ StatoRichiesto(op, circolare[c].stato)
    /\ studio' = [studio EXCEPT ![s] = [fase |-> op, circolare |-> c, letto |-> circolare[c].stato]]
    /\ UNCHANGED <<circolare, lettura, portale, ritoccate>>

\* The update by id; that of a draft replaces header and recipients in one
\* transaction.
StudioScrive(s, dest, conf) ==
    LET c == studio[s].circolare
        op == studio[s].fase
    IN
    /\ studio[s] # Libera
    /\ circolare' = [circolare EXCEPT ![c] =
         CASE op = "modifica" -> [@ EXCEPT !.destinatari = dest, !.conferma = conf]
           [] op = "pubblica" -> [@ EXCEPT !.stato = "pubblicata"]
           [] op = "archivia" -> [@ EXCEPT !.stato = "archiviata"]
           [] op = "elimina"  -> [@ EXCEPT !.viva = FALSE]]
    /\ ritoccate' = IF /\ op = "modifica"
                        /\ studio[s].letto = "bozza" /\ circolare[c].stato # "bozza"
                      THEN ritoccate \cup {c} ELSE ritoccate
    /\ studio' = [studio EXCEPT ![s] = Libera]
    /\ UNCHANGED <<lettura, portale>>

-----------------------------------------------------------------------------
(* Clients.                                                                *)

\* clienteWhere.
Visibile(c, u) ==
    /\ Esiste(circolare, c)
    /\ circolare[c].viva
    /\ circolare[c].stato = "pubblicata"
    /\ AziendaDi[u] \in circolare[c].destinatari

\* getForCliente, the read.
ClienteApre(p, u, c) ==
    /\ portale[p] = Libera
    /\ Visibile(c, u)
    /\ portale' = [portale EXCEPT ![p] = [fase |-> "apre", utente |-> u, circolare |-> c]]
    /\ UNCHANGED <<circolare, lettura, studio, ritoccate>>

\* markLetta: an upsert that changes nothing when the reading is there.
ClienteSegna(p) ==
    LET c == portale[p].circolare
        u == portale[p].utente
    IN
    /\ portale[p].fase = "apre"
    /\ lettura' = IF Esiste(lettura[c], u) THEN lettura
                    ELSE [lettura EXCEPT ![c][u] = [confermata |-> FALSE]]
    /\ portale' = [portale EXCEPT ![p] = Libera]
    /\ UNCHANGED <<circolare, studio, ritoccate>>

\* confermaCliente, its two reads: a confirmation found ends the request, and
\* is not undone between the reads.
ConfermaLegge(p, u, c) ==
    /\ portale[p] = Libera
    /\ Visibile(c, u)
    /\ circolare[c].conferma
    /\ ~(Esiste(lettura[c], u) /\ lettura[c][u].confermata)
    /\ portale' = [portale EXCEPT ![p] = [fase |-> "conferma", utente |-> u, circolare |-> c]]
    /\ UNCHANGED <<circolare, lettura, studio, ritoccate>>

\* The upsert.
ConfermaScrive(p) ==
    /\ portale[p].fase = "conferma"
    /\ lettura' = [lettura EXCEPT ![portale[p].circolare][portale[p].utente] =
                     [confermata |-> TRUE]]
    /\ portale' = [portale EXCEPT ![p] = Libera]
    /\ UNCHANGED <<circolare, studio, ritoccate>>

\* A request stops before its write.
CircolariFallisce ==
    /\ \/ \E s \in Studio : studio[s] # Libera /\ studio' = [studio EXCEPT ![s] = Libera]
                            /\ UNCHANGED portale
       \/ \E p \in Portale : portale[p] # Libera /\ portale' = [portale EXCEPT ![p] = Libera]
                            /\ UNCHANGED studio
    /\ UNCHANGED <<circolare, lettura, ritoccate>>

CircolariNext ==
    \/ \E c \in Circolare, conf \in BOOLEAN :
         \/ \E dest \in SUBSET Aziende : CircolareCrea(c, dest, conf)
         \/ \E s \in Studio, op \in Operazioni : StudioLegge(s, c, op)
         \/ \E p \in Portale, u \in Utenti : ClienteApre(p, u, c) \/ ConfermaLegge(p, u, c)
    \/ \E s \in Studio, dest \in SUBSET Aziende, conf \in BOOLEAN : StudioScrive(s, dest, conf)
    \/ \E p \in Portale : ClienteSegna(p) \/ ConfermaScrive(p)
    \/ CircolariFallisce

CircolariSpec == CircolariInit /\ [][CircolariNext]_circolariVars

-----------------------------------------------------------------------------
(* Properties.                                                             *)

\* getReport counts readings against the recipients that the circular has
\* now, and takes it that "le letture esistono solo per utenti nel set ...
\* niente orfani da gestire": a reading, written after the check of what the
\* client may see, is of a user the circular reaches, and of one no longer a
\* draft.  Two operators can break it, one way only: one publishes while the
\* other's edit, which has read a draft, is still to be written.
LettureNelSet ==
    \A c \in Circolare, u \in Utenti :
        Esiste(lettura[c], u) =>
            /\ circolare[c].stato # "bozza"
            /\ AziendaDi[u] \in circolare[c].destinatari \/ c \in ritoccate

-----------------------------------------------------------------------------
(* The invariant from which it follows.                                    *)

InStudio == [fase : Operazioni, circolare : Circolare, letto : StatiCircolare]
InPortale == [fase : {"apre", "conferma"}, utente : Utenti, circolare : Circolare]

CircolariTipi ==
    /\ circolare \in [Circolare -> CircolareRiga \cup {Nessuno}]
    /\ lettura \in [Circolare -> [Utenti -> LetturaRiga \cup {Nessuno}]]
    /\ studio \in [Studio -> InStudio \cup {Libera}]
    /\ portale \in [Portale -> InPortale \cup {Libera}]
    /\ ritoccate \subseteq Circolare

\* A client has seen the circular: no draft, and one of his unless an edit has
\* met its publication.
HaVisto(c, u) ==
    /\ Esiste(circolare, c)
    /\ circolare[c].stato # "bozza"
    /\ AziendaDi[u] \in circolare[c].destinatari \/ c \in ritoccate

\* What a request is to write, its user has seen; an edit has read a draft.
CircolariInv ==
    /\ CircolariTipi
    /\ \A c \in Circolare, u \in Utenti : Esiste(lettura[c], u) => HaVisto(c, u)
    /\ \A p \in Portale :
         portale[p] # Libera => HaVisto(portale[p].circolare, portale[p].utente)
    /\ \A s \in Studio :
         studio[s] # Libera => /\ Esiste(circolare, studio[s].circolare)
                               /\ StatoRichiesto(studio[s].fase, studio[s].letto)

\* What was read when it was no draft is no draft at the write: the update by
\* id that archives cannot archive one.
NonTornaBozza ==
    \A s \in Studio :
        studio[s] # Libera /\ studio[s].letto # "bozza" =>
            circolare[studio[s].circolare].stato # "bozza"

-----------------------------------------------------------------------------
(* What the report shows of it.                                            *)

StatoMostrato ==
    [c \in Circolare |-> IF Esiste(circolare, c) THEN circolare[c].stato ELSE "assente"]

LetturaMostrata(riga) ==
    IF riga = Nessuno THEN "nessuna" ELSE IF riga.confermata THEN "confermata" ELSE "letta"

\* Circulars and readings behave as RegistroLetture describes: the updates by id
\* that move the state and the upserts of clients are what is seen.
RegistroCir == INSTANCE RegistroLetture WITH
    stato <- StatoMostrato,
    letture <- [c \in Circolare |-> [u \in Utenti |-> LetturaMostrata(lettura[c][u])]]
RegistroLettureSpec == RegistroCir!LettureSpec
=============================================================================
