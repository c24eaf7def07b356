------------------------------ MODULE NoteSpese ------------------------------
(***************************************************************************)
(* Expense notes and their attachments: note-spese.service.ts and          *)
(* note-spese-allegati.service.ts of apps/accountant-api/src/note-spese,   *)
(* over the database and the file store.                                   *)
(*                                                                         *)
(* Calls outside withTenantContextAtomicTx are transactions of their own.  *)
(* Inside it PostgreSQL runs at READ COMMITTED: each statement sees what   *)
(* is committed when it starts, an updateMany re-evaluates its condition   *)
(* on the row it locks, and a row deleted by an open transaction is        *)
(* visible to readers and blocks writers until that transaction ends.      *)
(*                                                                         *)
(* A request of the author and one of an approver differ by the action     *)
(* they take; requests that fail before reading anything (permission,      *)
(* ownership, MIME type) change nothing and are left out.                  *)
(***************************************************************************)
EXTENDS Naturals, FiniteSets

CONSTANTS
    Note,           \* ids of notes
    Users,
    Tipi,           \* TipoAllegatoNotaSpesa: giustificativo, scontrino_pos
    Files,          \* storage keys
    Aziende, Mandati,
    AziendaOf,      \* mandato.aziendaId
    Requests,
    Nessuno,        \* null of every nullable column
    FaultPhases     \* where a handler may stop, or the database or storage fail

ASSUME AziendaOfAssumption == AziendaOf \in [Mandati -> Aziende]
ASSUME NessunoAssumption == Nessuno \notin Users \cup Files \cup Aziende \cup Mandati \cup Note \cup Tipi

VARIABLES
    stato, autore, decisaDa, motivo,   \* as in NotaLifecycle
    dovuti,     \* attachment types the note needs: giustificativo if totale > 0,
                \* scontrino_pos if metodoPagamento is a card
    commessa,   \* note_spese.azienda_id and mandato_id
    allegato,   \* note_spese_allegati: storage key per note and type (unique)
    stored,     \* keys of the files on the storage
    req,        \* what each request is doing, with what it has read
    superati    \* history: requests in progress overtaken by a write on their note

lifeVars == <<stato, autore, decisaDa, motivo>>
dataVars == <<dovuti, commessa>>
noteVars == <<lifeVars, dataVars, allegato, stored, req>>
vars == <<noteVars, superati>>

Modificabile == {"bozza", "respinta"}   \* EDITABLE_STATI and INVIABILE_STATI

Commessa == [azienda : Aziende \cup {Nessuno}, mandato : Mandati \cup {Nessuno}]

\* assertMandatoAzienda (D6)
Coerente(c) == c.mandato # Nessuno => c.azienda = AziendaOf[c.mandato]

Phases == {"idle", "modifica", "invia", "inviabile", "decidi",
           "elimina", "elencata", "cancella",
           "carica", "caricato", "orfano", "togli", "trovato", "tolto"}

ASSUME FaultsAssumption == FaultPhases \subseteq Phases \ {"idle"}

\* The DTO of an update: `campi` are the fields that it carries, the others
\* have no value.
Campi == {"dovuti", "azienda", "mandato"}
Interna == [azienda |-> Nessuno, mandato |-> Nessuno]
Patch == {p \in [campi : SUBSET Campi, dovuti : SUBSET Tipi, commessa : Commessa] :
            /\ "dovuti" \notin p.campi => p.dovuti = {}
            /\ "azienda" \notin p.campi => p.commessa.azienda = Nessuno
            /\ "mandato" \notin p.campi => p.commessa.mandato = Nessuno}
NoPatch == [campi |-> {}, dovuti |-> {}, commessa |-> Interna]

Idle == [pc |-> "idle", nota |-> Nessuno, user |-> Nessuno, esito |-> "approvata",
         patch |-> NoPatch, dovuti |-> {}, tipo |-> Nessuno, file |-> {}]

Init ==
    /\ stato = [n \in Note |-> "assente"]
    /\ autore = [n \in Note |-> Nessuno]
    /\ decisaDa = [n \in Note |-> Nessuno]
    /\ motivo = [n \in Note |-> FALSE]
    /\ dovuti = [n \in Note |-> {}]
    /\ commessa = [n \in Note |-> Interna]
    /\ allegato = [n \in Note |-> [t \in Tipi |-> Nessuno]]
    /\ stored = {}
    /\ req = [r \in Requests |-> Idle]
    /\ superati = {}

-----------------------------------------------------------------------------
(* Shared.                                                                 *)

Esiste(n) == stato[n] \notin {"assente", "eliminata"}
Presenti(n) == {t \in Tipi : allegato[n][t] # Nessuno}
FilesOf(n) == {allegato[n][t] : t \in Presenti(n)}
Referenced == UNION {FilesOf(n) : n \in Note}
Handled == UNION {req[r].file : r \in Requests}

Answer(r) == req' = [req EXCEPT ![r] = Idle]

Begin(r, pc, n) ==
    /\ req[r].pc = "idle"
    /\ req' = [req EXCEPT ![r] = [Idle EXCEPT !.pc = pc, !.nota = n]]
    /\ UNCHANGED <<lifeVars, dataVars, allegato, stored>>

\* Rows that a transaction still open has deleted.
NotaLocked(n) == \E r \in Requests : req[r].pc = "cancella" /\ req[r].nota = n
Blocca(r, n, t) ==
    /\ req[r].nota = n
    /\ req[r].pc = "cancella" \/ (req[r].pc = "tolto" /\ req[r].tipo = t)
RigaLocked(n, t) == \E r \in Requests : Blocca(r, n, t)

\* The files a request has stored and not yet put in a row, or taken away again.
Caricati(r) == IF req[r].pc \in {"caricato", "orfano"} THEN req[r].file ELSE {}
Custoditi == Referenced \cup UNION {Caricati(r) : r \in Requests}

-----------------------------------------------------------------------------
(* create: assertMandatoAzienda reads rows that do not change, so one step. *)

Crea(u, n, d, c) ==
    /\ stato[n] = "assente"
    /\ Coerente(c)
    /\ stato' = [stato EXCEPT ![n] = "bozza"]
    /\ autore' = [autore EXCEPT ![n] = u]
    /\ dovuti' = [dovuti EXCEPT ![n] = d]
    /\ commessa' = [commessa EXCEPT ![n] = c]
    /\ UNCHANGED <<decisaDa, motivo, allegato, stored, req>>

-----------------------------------------------------------------------------
(* update: assertOwnEditable and the D6 check on the row as read, then an  *)
(* update by id of the fields the DTO carries.                             *)

Applied(p, c) ==
    [azienda |-> IF "azienda" \in p.campi THEN p.commessa.azienda ELSE c.azienda,
     mandato |-> IF "mandato" \in p.campi THEN p.commessa.mandato ELSE c.mandato]

\* Mutants: the D6 check looks at the DTO alone; any state may be edited.
ModificaLeggiSoloDto(r, n, p) ==
    /\ req[r].pc = "idle"
    /\ stato[n] \in Modificabile
    /\ Coerente(Applied(p, Interna))
    /\ req' = [req EXCEPT ![r] = [Idle EXCEPT !.pc = "modifica", !.nota = n, !.patch = p]]
    /\ UNCHANGED <<lifeVars, dataVars, allegato, stored>>

ModificaLeggiSempre(r, n, p) ==
    /\ req[r].pc = "idle"
    /\ Esiste(n)
    /\ Coerente(Applied(p, commessa[n]))
    /\ req' = [req EXCEPT ![r] = [Idle EXCEPT !.pc = "modifica", !.nota = n, !.patch = p]]
    /\ UNCHANGED <<lifeVars, dataVars, allegato, stored>>

ModificaLeggi(r, n, p) ==
    /\ req[r].pc = "idle"
    /\ stato[n] \in Modificabile
    /\ Coerente(Applied(p, commessa[n]))
    /\ req' = [req EXCEPT ![r] = [Idle EXCEPT !.pc = "modifica", !.nota = n, !.patch = p]]
    /\ UNCHANGED <<lifeVars, dataVars, allegato, stored>>

ModificaScrivi(r) ==
    LET n == req[r].nota  p == req[r].patch IN
    /\ req[r].pc = "modifica"
    /\ ~NotaLocked(n)
    /\ IF Esiste(n)
         THEN /\ dovuti' = IF "dovuti" \in p.campi THEN [dovuti EXCEPT ![n] = p.dovuti] ELSE dovuti
              /\ commessa' = [commessa EXCEPT ![n] = Applied(p, @)]
         ELSE UNCHANGED dataVars   \* record to update not found
    /\ Answer(r)
    /\ UNCHANGED <<lifeVars, allegato, stored>>

-----------------------------------------------------------------------------
(* invia: read, gating on the attachments, conditional update; the three   *)
(* statements of one READ COMMITTED transaction.                           *)

InviaLeggi(r, n) ==
    /\ req[r].pc = "idle"
    /\ stato[n] \in Modificabile
    /\ req' = [req EXCEPT ![r] =
                 [Idle EXCEPT !.pc = "invia", !.nota = n, !.dovuti = dovuti[n]]]
    /\ UNCHANGED <<lifeVars, dataVars, allegato, stored>>

\* Mutant: a note that was refused is not checked again.
InviaControllaSoloBozza(r) ==
    /\ req[r].pc = "invia"
    /\ req' = IF stato[req[r].nota] # "bozza" \/ req[r].dovuti \subseteq Presenti(req[r].nota)
                THEN [req EXCEPT ![r].pc = "inviabile"]
                ELSE [req EXCEPT ![r] = Idle]
    /\ UNCHANGED <<lifeVars, dataVars, allegato, stored>>

\* 422 unless every attachment that is due is there.
InviaControlla(r) ==
    /\ req[r].pc = "invia"
    /\ req' = IF req[r].dovuti \subseteq Presenti(req[r].nota)
                THEN [req EXCEPT ![r].pc = "inviabile"]
                ELSE [req EXCEPT ![r] = Idle]
    /\ UNCHANGED <<lifeVars, dataVars, allegato, stored>>

\* Mutant: the fields of the last decision survive a new submission.
InviaScriviSenzaAzzerare(r) ==
    LET n == req[r].nota IN
    /\ req[r].pc = "inviabile"
    /\ ~NotaLocked(n)
    /\ stato' = IF stato[n] \in Modificabile THEN [stato EXCEPT ![n] = "inviata"] ELSE stato
    /\ Answer(r)
    /\ UNCHANGED <<autore, decisaDa, motivo, dataVars, allegato, stored>>

\* updateMany({ id, stato in INVIABILE_STATI }); count 0 is a 409.
InviaScrivi(r) ==
    LET n == req[r].nota IN
    /\ req[r].pc = "inviabile"
    /\ ~NotaLocked(n)
    /\ IF stato[n] \in Modificabile
         THEN /\ stato' = [stato EXCEPT ![n] = "inviata"]
              /\ decisaDa' = [decisaDa EXCEPT ![n] = Nessuno]
              /\ motivo' = [motivo EXCEPT ![n] = FALSE]
              /\ UNCHANGED autore
         ELSE UNCHANGED lifeVars
    /\ Answer(r)
    /\ UNCHANGED <<dataVars, allegato, stored>>

-----------------------------------------------------------------------------
(* approva, respingi: decidi, with the target.                             *)

DecidiLeggi(r, u, n, esito) ==
    /\ req[r].pc = "idle"
    /\ stato[n] = "inviata"
    /\ u # autore[n]
    /\ req' = [req EXCEPT ![r] =
                 [Idle EXCEPT !.pc = "decidi", !.nota = n, !.user = u, !.esito = esito]]
    /\ UNCHANGED <<lifeVars, dataVars, allegato, stored>>

\* Mutant: the update does not repeat the condition on the state.
DecidiScriviSempre(r) ==
    LET n == req[r].nota IN
    /\ req[r].pc = "decidi"
    /\ ~NotaLocked(n)
    /\ stato' = [stato EXCEPT ![n] = req[r].esito]
    /\ decisaDa' = [decisaDa EXCEPT ![n] = req[r].user]
    /\ motivo' = [motivo EXCEPT ![n] = (req[r].esito = "respinta")]
    /\ Answer(r)
    /\ UNCHANGED <<autore, dataVars, allegato, stored>>

DecidiScrivi(r) ==
    LET n == req[r].nota IN
    /\ req[r].pc = "decidi"
    /\ ~NotaLocked(n)
    /\ IF stato[n] = "inviata"
         THEN /\ stato' = [stato EXCEPT ![n] = req[r].esito]
              /\ decisaDa' = [decisaDa EXCEPT ![n] = req[r].user]
              /\ motivo' = [motivo EXCEPT ![n] = (req[r].esito = "respinta")]
              /\ UNCHANGED autore
         ELSE UNCHANGED lifeVars
    /\ Answer(r)
    /\ UNCHANGED <<dataVars, allegato, stored>>

-----------------------------------------------------------------------------
(* remove: the state as read, the storage keys, then in one transaction    *)
(* the delete (which cascades) and the files one by one.                   *)

EliminaLeggi(r, n) == stato[n] = "bozza" /\ Begin(r, "elimina", n)

\* Mutant: the cascade is trusted to clean the storage up.
EliminaElencaNulla(r) ==
    /\ req[r].pc = "elimina"
    /\ req' = [req EXCEPT ![r].pc = "elencata"]
    /\ UNCHANGED <<lifeVars, dataVars, allegato, stored>>

EliminaElenca(r) ==
    /\ req[r].pc = "elimina"
    /\ req' = [req EXCEPT ![r].pc = "elencata", ![r].file = FilesOf(req[r].nota)]
    /\ UNCHANGED <<lifeVars, dataVars, allegato, stored>>

EliminaRiga(r) ==
    LET n == req[r].nota IN
    /\ req[r].pc = "elencata"
    /\ ~NotaLocked(n) /\ \A t \in Tipi : ~RigaLocked(n, t)
    /\ req' = IF Esiste(n) THEN [req EXCEPT ![r].pc = "cancella"] ELSE [req EXCEPT ![r] = Idle]
    /\ UNCHANGED <<lifeVars, dataVars, allegato, stored>>

EliminaFile(r) ==
    /\ req[r].pc = "cancella"
    /\ \E f \in req[r].file :
         /\ stored' = stored \ {f}
         /\ req' = [req EXCEPT ![r].file = @ \ {f}]
    /\ UNCHANGED <<lifeVars, dataVars, allegato>>

EliminaCommit(r) ==
    LET n == req[r].nota IN
    /\ req[r].pc = "cancella"
    /\ req[r].file = {}
    /\ stato' = [stato EXCEPT ![n] = "eliminata"]
    /\ allegato' = [allegato EXCEPT ![n] = [t \in Tipi |-> Nessuno]]
    /\ Answer(r)
    /\ UNCHANGED <<autore, decisaDa, motivo, dataVars, stored>>

-----------------------------------------------------------------------------
(* upload: the file first, then the row; the file is removed again when    *)
(* the row cannot be created.                                              *)

CaricaLeggi(r, n, t) ==
    /\ req[r].pc = "idle"
    /\ stato[n] \in Modificabile
    /\ req' = [req EXCEPT ![r] = [Idle EXCEPT !.pc = "carica", !.nota = n, !.tipo = t]]
    /\ UNCHANGED <<lifeVars, dataVars, allegato, stored>>

\* storage.put: a key nobody has.
CaricaPut(r) ==
    /\ req[r].pc = "carica"
    /\ \E f \in Files \ (stored \cup Referenced \cup Handled) :
         /\ stored' = stored \cup {f}
         /\ req' = [req EXCEPT ![r].pc = "caricato", ![r].file = {f}]
    /\ UNCHANGED <<lifeVars, dataVars, allegato>>

CaricaRiga(r) ==
    LET n == req[r].nota  t == req[r].tipo IN
    /\ req[r].pc = "caricato"
    /\ ~RigaLocked(n, t)
    /\ IF Esiste(n) /\ t \notin Presenti(n)
         THEN /\ \E f \in req[r].file : allegato' = [allegato EXCEPT ![n][t] = f]
              /\ Answer(r)
         ELSE /\ req' = [req EXCEPT ![r].pc = "orfano"]   \* P2002 or P2003
              /\ UNCHANGED allegato
    /\ UNCHANGED <<lifeVars, dataVars, stored>>

CaricaPulisci(r) ==
    /\ req[r].pc = "orfano"
    /\ stored' = stored \ req[r].file
    /\ Answer(r)
    /\ UNCHANGED <<lifeVars, dataVars, allegato>>

-----------------------------------------------------------------------------
(* remove of an attachment: the note as read, the row as read, then in one *)
(* transaction the row and the file.                                       *)

TogliLeggi(r, n) == stato[n] \in Modificabile /\ Begin(r, "togli", n)

\* Mutant: the file goes first, before the row is locked.
TogliTrovaFilePrima(r) ==
    LET n == req[r].nota IN
    /\ req[r].pc = "togli"
    /\ \E t \in Presenti(n) :
         /\ stored' = stored \ {allegato[n][t]}
         /\ req' = [req EXCEPT ![r].pc = "trovato", ![r].tipo = t, ![r].file = {allegato[n][t]}]
    /\ UNCHANGED <<lifeVars, dataVars, allegato>>

TogliTrova(r) ==
    LET n == req[r].nota IN
    /\ req[r].pc = "togli"
    /\ \/ \E t \in Presenti(n) :
            req' = [req EXCEPT ![r].pc = "trovato", ![r].tipo = t, ![r].file = {allegato[n][t]}]
       \/ Answer(r)
    /\ UNCHANGED <<lifeVars, dataVars, allegato, stored>>

\* tx delete of the row by id, then storage.delete.
TogliFile(r) ==
    LET n == req[r].nota  t == req[r].tipo IN
    /\ req[r].pc = "trovato"
    /\ ~RigaLocked(n, t)
    /\ IF allegato[n][t] \in req[r].file
         THEN /\ stored' = stored \ req[r].file
              /\ req' = [req EXCEPT ![r].pc = "tolto"]
         ELSE Answer(r) /\ UNCHANGED stored   \* the row is gone
    /\ UNCHANGED <<lifeVars, dataVars, allegato>>

TogliCommit(r) ==
    /\ req[r].pc = "tolto"
    /\ allegato' = [allegato EXCEPT ![req[r].nota][req[r].tipo] = Nessuno]
    /\ Answer(r)
    /\ UNCHANGED <<lifeVars, dataVars, stored>>

-----------------------------------------------------------------------------

\* The process stops, the database or the storage fails: the transaction in
\* progress is rolled back, the files already written or deleted stay so.
Fault(r) ==
    /\ req[r].pc \in FaultPhases
    /\ Answer(r)
    /\ UNCHANGED <<lifeVars, dataVars, allegato, stored>>

Start(r) ==
    \E n \in Note :
        \/ \E p \in Patch : ModificaLeggi(r, n, p)
        \/ InviaLeggi(r, n)
        \/ \E u \in Users, esito \in {"approvata", "respinta"} : DecidiLeggi(r, u, n, esito)
        \/ EliminaLeggi(r, n)
        \/ \E t \in Tipi : CaricaLeggi(r, n, t)
        \/ TogliLeggi(r, n)

Proceed(r) ==
    \/ ModificaScrivi(r)
    \/ InviaControlla(r) \/ InviaScrivi(r)
    \/ DecidiScrivi(r)
    \/ EliminaElenca(r) \/ EliminaRiga(r) \/ EliminaFile(r) \/ EliminaCommit(r)
    \/ CaricaPut(r) \/ CaricaRiga(r) \/ CaricaPulisci(r)
    \/ TogliTrova(r) \/ TogliFile(r) \/ TogliCommit(r)

Operazione ==
    \/ \E u \in Users, n \in Note, d \in SUBSET Tipi, c \in Commessa : Crea(u, n, d, c)
    \/ \E r \in Requests : Start(r) \/ Proceed(r) \/ Fault(r)

\* What a request has read of its note is no longer so: another one has written
\* the state, the data or the attachments of the note in the meantime.
Scritta(n) ==
    stato'[n] # stato[n] \/ dovuti'[n] # dovuti[n] \/ commessa'[n] # commessa[n]
        \/ allegato'[n] # allegato[n]

Sorpasso ==
    superati' = {r \in Requests : /\ req[r].pc # "idle" /\ req'[r].pc # "idle"
                                  /\ r \in superati \/ Scritta(req[r].nota)}

Next == Operazione /\ Sorpasso

Spec == Init /\ [][Next]_vars

-----------------------------------------------------------------------------
(* Properties.                                                             *)

\* However submissions and decisions race, the decision fields agree with the
\* state: who decided is set exactly on decided notes, is never the author,
\* and a reason is there exactly on refused ones (DP-2, DP-3, 4.5).
DecisioneCoerente ==
    \A n \in Note : Esiste(n) =>
        /\ stato[n] \in {"approvata", "respinta"} <=> decisaDa[n] # Nessuno
        /\ decisaDa[n] # autore[n]
        /\ motivo[n] <=> stato[n] = "respinta"

\* Every handler step is a step of the note's life or leaves it alone.
Life == INSTANCE NotaLifecycle WITH
    Note <- Note, Users <- Users, Nessuno <- Nessuno,
    stato <- stato, autore <- autore, decisaDa <- decisaDa, motivo <- motivo
LifecycleSpec == Life!LifeSpec

\* A step of a request on note n, which another one has overtaken.
DiUnSuperato(n) == \E r \in superati : req[r].nota = n /\ req'[r] # req[r]

\* 4.1, 4.2 (invia): a note that is submitted has the attachments it needs.  With
\* any number of requests and whatever stops, a step can take that from it only
\* if it is of a request that another one has overtaken since it read the note:
\* the check and the update of invia are two statements, as are the reads of
\* update and of remove and their writes.
Completa(n) == stato[n] \in {"inviata", "approvata"} => dovuti[n] \subseteq Presenti(n)
InviataCompleta ==
    [][\A n \in Note : Completa(n) /\ ~Completa(n)' => DiUnSuperato(n)]_vars

\* 4.4: a submitted or approved note is immutable, fields and attachments.
Ferma(n) ==
    stato[n] \in {"inviata", "approvata"} /\ stato'[n] # "eliminata" =>
        dovuti'[n] = dovuti[n] /\ commessa'[n] = commessa[n] /\ allegato'[n] = allegato[n]
SempreImmutabile == [][\A n \in Note : Ferma(n)]_vars

\* Whoever changes a submitted note all the same had read it before it was
\* submitted (update, upload, remove): no request that starts later can, and none
\* that nobody has overtaken.
InviataImmutabile == [][\A n \in Note : Ferma(n) \/ DiUnSuperato(n)]_vars

\* D6 (4.7): a note with a mandate has that mandate's company.  Only a partial
\* update that another write has overtaken, checked on the row as it was, can
\* leave the mandate of one with the company of the other.
CommessaCoerente ==
    [][\A n \in Note : Coerente(commessa[n]) /\ ~Coerente(commessa[n])' => DiUnSuperato(n)]_vars

\* An attachment that is listed can be downloaded, unless a request is at that
\* moment removing it: what the comment "cleanup storage atomico" of remove
\* (note-spese.service.ts:236) says of a removal that fails.
Scaricabile(n, t) ==
    t \in Presenti(n) => allegato[n][t] \in stored \/ RigaLocked(n, t)
RigheScaricabili == \A n \in Note, t \in Tipi : Scaricabile(n, t)

\* (remove of a note, remove of an attachment) A listed row loses its file in one
\* way: the transaction that had locked it fails, and gives the row back and not
\* the file.  No upload, no other removal and no stop elsewhere does that.
RigaHaFile ==
    [][\A n \in Note, t \in Tipi : Scaricabile(n, t) /\ ~Scaricabile(n, t)' =>
          \E r \in Requests : Fault(r) /\ Blocca(r, n, t)]_vars

\* 5 (upload, remove): a file that has a row, or an upload that will give it one,
\* comes to have neither in two ways: the upload stops between the two, or its
\* row came after the remove of the note had listed the files.
NessunFileOrfano ==
    [][\A f \in stored \cap stored' :
          f \in Custoditi /\ f \notin Custoditi' =>
             \E r \in Requests : \/ Fault(r) /\ f \in Caricati(r)
                                 \/ EliminaCommit(r) /\ r \in superati]_vars

-----------------------------------------------------------------------------
(* The invariants from which the theorems of NoteSpeseProofs follow.       *)

Stati == {"assente", "bozza", "inviata", "approvata", "respinta", "eliminata"}

Request == [pc : Phases, nota : Note \cup {Nessuno}, user : Users \cup {Nessuno},
            esito : {"approvata", "respinta"}, patch : Patch, dovuti : SUBSET Tipi,
            tipo : Tipi \cup {Nessuno}, file : SUBSET Files]

TypeOK ==
    /\ stato \in [Note -> Stati]
    /\ autore \in [Note -> Users \cup {Nessuno}]
    /\ decisaDa \in [Note -> Users \cup {Nessuno}]
    /\ motivo \in [Note -> BOOLEAN]
    /\ dovuti \in [Note -> SUBSET Tipi]
    /\ commessa \in [Note -> Commessa]
    /\ allegato \in [Note -> [Tipi -> Files \cup {Nessuno}]]
    /\ stored \in SUBSET Files
    /\ req \in [Requests -> Request]

\* A note has an author, and nothing is decided before there is one.
VitaInv ==
    /\ DecisioneCoerente
    /\ \A n \in Note :
         IF stato[n] = "assente" THEN decisaDa[n] = Nessuno /\ ~motivo[n]
         ELSE autore[n] \in Users

\* A key that a request has written, or is to remove, is no other row's.
DiNessuno(q) == \A n \in Note, t \in Tipi : allegato[n][t] \notin q.file
DellaNota(q) == \A n \in Note, t \in Tipi : allegato[n][t] \in q.file => n = q.nota
DellaRiga(q) ==
    \A n \in Note, t \in Tipi : allegato[n][t] \in q.file => n = q.nota /\ t = q.tipo

\* What a request may rely on, q being what it has read.
Conosce(q) ==
    /\ q.pc # "idle" => q.nota \in Note /\ stato[q.nota] # "assente"
    /\ q.pc = "decidi" => q.user \in Users /\ q.user # autore[q.nota]
    /\ q.pc \in {"carica", "caricato", "orfano", "trovato", "tolto"} => q.tipo \in Tipi
    /\ q.pc \in {"caricato", "orfano"} => DiNessuno(q)
    /\ q.pc \in {"elencata", "cancella"} => DellaNota(q)
    /\ q.pc \in {"trovato", "tolto"} => DellaRiga(q)
    /\ q.pc = "cancella" => Esiste(q.nota)

\* Two requests hold the lock of one row.
Conflitto(p, q) ==
    /\ p.nota = q.nota
    /\ \/ p.pc = "cancella" /\ q.pc \in {"cancella", "tolto"}
       \/ p.pc = "tolto" /\ q.pc = "cancella"
       \/ p.pc = "tolto" /\ q.pc = "tolto" /\ p.tipo = q.tipo

\* A request has the key of a file just stored, and another one has it too.
Conteso(p, q) == p.pc \in {"caricato", "orfano"} /\ p.file \cap q.file # {}

ChiaviUniche ==
    \A n, m \in Note, t, u \in Tipi :
        allegato[n][t] = allegato[m][u] /\ allegato[n][t] # Nessuno => n = m /\ t = u

NoteInv ==
    /\ TypeOK
    /\ VitaInv
    /\ \A r \in Requests : Conosce(req[r])
    /\ \A r, s \in Requests :
         r # s => ~Conflitto(req[r], req[s]) /\ ~Conteso(req[r], req[s])
    /\ ChiaviUniche

\* Nobody has overtaken it: what it has read is still so.
Attuale(q) ==
    /\ q.pc \in {"modifica", "invia", "inviabile", "carica", "caricato", "orfano", "togli",
                 "trovato", "tolto"} => stato[q.nota] \in Modificabile
    /\ q.pc = "modifica" => Coerente(Applied(q.patch, commessa[q.nota]))
    /\ q.pc \in {"invia", "inviabile"} => q.dovuti = dovuti[q.nota]
    /\ q.pc = "inviabile" => q.dovuti \subseteq Presenti(q.nota)
    /\ q.pc = "elencata" => q.file = FilesOf(q.nota)
    /\ q.pc = "cancella" => FilesOf(q.nota) \cap stored \subseteq q.file

\* Types, locks and keys (NoteInv), and what every handler between two of its
\* statements has read: it is still so, unless another request has overtaken it.
AttualeInv ==
    /\ NoteInv
    /\ superati \subseteq Requests
    /\ \A r \in Requests \ superati : Attuale(req[r])

\* A key has its file when the row takes it, and no longer when the row, still
\* locked, is about to go.
FileInv ==
    \A r \in Requests :
        /\ req[r].pc = "caricato" => \E f \in stored : req[r].file = {f}
        /\ req[r].pc = "tolto" => allegato[req[r].nota][req[r].tipo] \notin stored
=============================================================================
