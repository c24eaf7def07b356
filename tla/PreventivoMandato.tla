--------------------------- MODULE PreventivoMandato ---------------------------
(***************************************************************************)
(* Quotes, the mandates they are converted to and the services recorded on *)
(* these: preventivi.service.ts, mandati.service.ts, prestazioni.service.ts *)
(* of apps/accountant-api/src.                                             *)
(*                                                                         *)
(* create and update of a quote and the conversion run in one READ         *)
(* COMMITTED transaction each (withTenantContextAtomicTx): what they write *)
(* is seen by others at their last step, and the row they have updated, or *)
(* the counter they have selected FOR UPDATE, is locked until then.  Every *)
(* other call is a transaction of its own.  An update by id does not look  *)
(* at deleted_at.                                                          *)
(***************************************************************************)
EXTENDS Naturals, FiniteSets

CONSTANTS
    Preventivi, Mandati, Prestazioni,   \* ids of the rows
    Voci,              \* sets of rows that one call inserts for a quote; the
                       \* element also stands for the total of these rows
    StatiPreventivo, StatiMandato,      \* the enums, or part of them
    Richieste,         \* HTTP requests served concurrently, each reusable
    Nessuno,           \* null; a row that is not there; a field the DTO leaves out
    Tolta              \* a row of a quote that has been deleted

ASSUME StatiAssumption ==
    /\ {"accettato", "convertito"} \subseteq StatiPreventivo
    /\ "in_corso" \in StatiMandato
ASSUME NessunoAssumption ==
    /\ Nessuno # Tolta
    /\ {Nessuno, Tolta} \cap
         (Preventivi \cup Mandati \cup Prestazioni \cup Voci
            \cup StatiPreventivo \cup StatiMandato) = {}

VARIABLES
    preventivo,   \* stato, totale, vivo (deleted_at is null)
    voce,         \* the quote that the rows belong to
    mandato,      \* preventivo, numero (of codice), importo, stato, vivo
    contatore,    \* rdl_counter.last_number of the year
    prestazione,  \* mandato, voce, vivo
    req,          \* what each request is doing, with what it has read
    offerti       \* history: the totals each quote had while it was accepted

tabelle == <<preventivo, voce, mandato, contatore, prestazione>>
vars == <<tabelle, req, offerti>>

Preventivo == [stato : StatiPreventivo, totale : Voci, vivo : BOOLEAN]
MandatoRiga == [preventivo : Preventivi, numero : Nat, importo : Voci,
                stato : StatiMandato, vivo : BOOLEAN]
PrestazioneRiga == [mandato : Mandati, voce : Voci \cup {Nessuno}, vivo : BOOLEAN]

\* What is nothing is not a row.
ASSUME RigheAssumption == Nessuno \notin Preventivo \cup MandatoRiga \cup PrestazioneRiga

Fasi == {"ferma",
         "modifica",                 \* PUT preventivo, past the header
         "converti", "numerato",     \* POST mandato, past the read, the counter
         "registra", "correggi"}     \* POST, PATCH prestazione

Richiesta == [fase : Fasi,
              preventivo : Preventivi \cup {Nessuno},
              mandato : Mandati \cup {Nessuno},
              prestazione : Prestazioni \cup {Nessuno},
              voce : Voci \cup {Nessuno},
              stato : StatiPreventivo \cup {Nessuno},
              righe : BOOLEAN,               \* the DTO of an update has rows
              totale : Voci \cup {Nessuno},  \* of the quote to convert, as read
              numero : Nat,
              tolte : SUBSET Voci]   \* rows its open transaction has deleted

Ferma == [fase |-> "ferma", preventivo |-> Nessuno, mandato |-> Nessuno,
          prestazione |-> Nessuno, voce |-> Nessuno, stato |-> Nessuno,
          righe |-> FALSE, totale |-> Nessuno, numero |-> 0, tolte |-> {}]

TypeOK ==
    /\ preventivo \in [Preventivi -> Preventivo \cup {Nessuno}]
    /\ voce \in [Voci -> Preventivi \cup {Nessuno, Tolta}]
    /\ mandato \in [Mandati -> MandatoRiga \cup {Nessuno}]
    /\ contatore \in Nat
    /\ prestazione \in [Prestazioni -> PrestazioneRiga \cup {Nessuno}]
    /\ req \in [Richieste -> Richiesta]
    /\ offerti \in [Preventivi -> SUBSET Voci]

Init ==
    /\ preventivo = [p \in Preventivi |-> Nessuno]
    /\ voce = [v \in Voci |-> Nessuno]
    /\ mandato = [m \in Mandati |-> Nessuno]
    /\ contatore = 0
    /\ prestazione = [x \in Prestazioni |-> Nessuno]
    /\ req = [r \in Richieste |-> Ferma]
    /\ offerti = [p \in Preventivi |-> {}]

-----------------------------------------------------------------------------
(* Shared.                                                                 *)

Vivo(tabella, k) == tabella[k] # Nessuno /\ tabella[k].vivo
Presente(v) == voce[v] \in Preventivi
VociDi(p) == {v \in Voci : voce[v] = p}

\* Mutants: the header of the quote is not updated before its rows; the
\* counter is read without FOR UPDATE.
TestataBloccataMai(p) == FALSE
ContatoreBloccatoMai == FALSE

\* Locks that open transactions hold.
TestataBloccata(p) == \E r \in Richieste : req[r].fase = "modifica" /\ req[r].preventivo = p
ContatoreBloccato == \E r \in Richieste : req[r].fase = "numerato"
VoceBloccata(v) == \E r \in Richieste : v \in req[r].tolte

\* The answer, or the failure, of a request; a transaction not committed
\* leaves nothing.
Rispondi(r) == req' = [req EXCEPT ![r] = Ferma]

Inizia(r, richiesta) ==
    /\ req[r].fase = "ferma"
    /\ req' = [req EXCEPT ![r] = richiesta]
    /\ UNCHANGED <<tabelle, offerti>>

\* A committed write on the header of a quote.
ScriviPreventivo(p, riga) ==
    /\ preventivo' = [preventivo EXCEPT ![p] = riga]
    /\ offerti' = IF riga.stato = "accettato"
                    THEN [offerti EXCEPT ![p] = @ \cup {riga.totale}]
                    ELSE offerti

-----------------------------------------------------------------------------
(* Quotes.                                                                 *)

\* create: header and rows in one transaction nobody can see half of.
PreventivoCrea(p, v, s) ==
    /\ preventivo[p] = Nessuno
    /\ voce[v] = Nessuno
    /\ ScriviPreventivo(p, [stato |-> s, totale |-> v, vivo |-> TRUE])
    /\ voce' = [voce EXCEPT ![v] = p]
    /\ UNCHANGED <<mandato, contatore, prestazione, req>>

\* update, up to deleteMany.  The read decides only that the quote is there;
\* the UPDATE of the header waits for the row and then holds it, so the rows
\* that deleteMany finds are those of this moment.
ModificaInizia(r, p, s, righe) ==
    /\ preventivo[p] # Nessuno
    /\ ~TestataBloccata(p)
    /\ Inizia(r, [Ferma EXCEPT !.fase = "modifica", !.preventivo = p,
                               !.stato = s, !.righe = righe,
                               !.tolte = IF righe THEN VociDi(p) ELSE {}])

\* Mutant: a field the DTO leaves out is written as null.
StatoScrittoNullo(r) == req[r].stato

\* The columns that the DTO leaves out are not written.
StatoScritto(r) ==
    IF req[r].stato = Nessuno THEN preventivo[req[r].preventivo].stato ELSE req[r].stato

\* createMany and commit; the services that name a deleted row lose the
\* reference (ON DELETE SET NULL).
ModificaConferma(r) ==
    LET p == req[r].preventivo
        via == req[r].tolte
        stato == StatoScritto(r)
        restano == [v \in Voci |-> IF v \in via THEN Tolta ELSE voce[v]]
    IN
    /\ req[r].fase = "modifica"
    /\ \/ /\ ~req[r].righe
          /\ ScriviPreventivo(p, [preventivo[p] EXCEPT !.stato = stato])
          /\ voce' = voce
       \/ /\ req[r].righe
          /\ \E v \in Voci :
               /\ voce[v] = Nessuno
               /\ voce' = [restano EXCEPT ![v] = p]
               /\ ScriviPreventivo(p, [preventivo[p] EXCEPT !.stato = stato, !.totale = v])
    /\ prestazione' = [x \in Prestazioni |->
         IF prestazione[x] # Nessuno /\ prestazione[x].voce \in via
           THEN [prestazione[x] EXCEPT !.voce = Nessuno]
           ELSE prestazione[x]]
    /\ Rispondi(r)
    /\ UNCHANGED <<mandato, contatore>>

\* softDelete: findFirst, then an update by id.  Only that the quote was there
\* once comes from the read, so the two are one step that a quote deleted or
\* edited in between does not refuse.
PreventivoElimina(p) ==
    /\ preventivo[p] # Nessuno
    /\ ~TestataBloccata(p)
    /\ preventivo' = [preventivo EXCEPT ![p].vivo = FALSE]
    /\ UNCHANGED <<voce, mandato, contatore, prestazione, req, offerti>>

-----------------------------------------------------------------------------
(* createFromPreventivo.                                                   *)

\* Mutant: the state of the quote is not checked.
ConvertibileSeVivo(p) == Vivo(preventivo, p)

Convertibile(p) == Vivo(preventivo, p) /\ preventivo[p].stato = "accettato"

ConvertiLeggi(r, p) ==
    /\ Convertibile(p)
    /\ Inizia(r, [Ferma EXCEPT !.fase = "converti", !.preventivo = p,
                               !.totale = preventivo[p].totale])

\* SELECT ... FOR UPDATE, then the increment.
ConvertiNumera(r) ==
    /\ req[r].fase = "converti"
    /\ ~ContatoreBloccato
    /\ req' = [req EXCEPT ![r].fase = "numerato", ![r].numero = contatore + 1]
    /\ UNCHANGED <<tabelle, offerti>>

\* Mutant: there is no unique index.
GiaConvertitoMai(p) == FALSE

\* mandati_preventivo_id_unique, partial on deleted_at.
GiaConvertito(p) ==
    \E m \in Mandati : Vivo(mandato, m) /\ mandato[m].preventivo = p

\* The insert violates it: 409, and the number is rolled back.
ConvertiRifiuta(r) ==
    /\ req[r].fase = "numerato"
    /\ GiaConvertito(req[r].preventivo)
    /\ Rispondi(r)
    /\ UNCHANGED <<tabelle, offerti>>

\* mandato.create; the quote becomes 'convertito', whatever has become of it, and commit.
ConvertiConferma(r, m) ==
    LET p == req[r].preventivo IN
    /\ req[r].fase = "numerato"
    /\ ~GiaConvertito(p)
    /\ mandato[m] = Nessuno
    /\ ~TestataBloccata(p)
    /\ mandato' = [mandato EXCEPT ![m] =
         [preventivo |-> p, numero |-> req[r].numero, importo |-> req[r].totale,
          stato |-> "in_corso", vivo |-> TRUE]]
    /\ contatore' = req[r].numero
    /\ ScriviPreventivo(p, [preventivo[p] EXCEPT !.stato = "convertito"])
    /\ Rispondi(r)
    /\ UNCHANGED <<voce, prestazione>>

-----------------------------------------------------------------------------
(* Mandates: findOne, then an update by id; one step, as above.            *)

MandatoAggiorna(m, s) ==
    /\ mandato[m] # Nessuno
    /\ mandato' = [mandato EXCEPT ![m].stato = s]
    /\ UNCHANGED <<preventivo, voce, contatore, prestazione, req, offerti>>

\* Mutant: the row is deleted for good.
MandatoCancella(m) ==
    /\ mandato[m] # Nessuno
    /\ mandato' = [mandato EXCEPT ![m] = Nessuno]
    /\ UNCHANGED <<preventivo, voce, contatore, prestazione, req, offerti>>

MandatoElimina(m) ==
    /\ mandato[m] # Nessuno
    /\ mandato' = [mandato EXCEPT ![m].vivo = FALSE]
    /\ UNCHANGED <<preventivo, voce, contatore, prestazione, req, offerti>>

-----------------------------------------------------------------------------
(* Services recorded on a mandate.                                         *)

\* assertVoceDelMandato, when a row is given.
VoceDelMandato(v, m) == v # Nessuno => v \in VociDi(mandato[m].preventivo)

\* create: checks on what is read now; the row of the quote may be replaced,
\* and the mandate closed, before the insert.
RegistraLeggi(r, m, v) ==
    /\ Vivo(mandato, m)
    /\ mandato[m].stato = "in_corso"
    /\ VoceDelMandato(v, m)
    /\ Inizia(r, [Ferma EXCEPT !.fase = "registra", !.mandato = m, !.voce = v])

\* Mutant: the row named is not checked again by the database.
ChiaveEsternaMai(v) == TRUE

\* The foreign key waits for the transaction that is deleting the row and
\* then fails, a 500.
ChiaveEsterna(v) == v # Nessuno => Presente(v)

RegistraScrivi(r) ==
    LET v == req[r].voce IN
    /\ req[r].fase = "registra"
    /\ ~VoceBloccata(v)
    /\ IF ChiaveEsterna(v)
         THEN \E x \in Prestazioni :
                /\ prestazione[x] = Nessuno
                /\ prestazione' = [prestazione EXCEPT ![x] =
                                     [mandato |-> req[r].mandato, voce |-> v, vivo |-> TRUE]]
         ELSE prestazione' = prestazione
    /\ Rispondi(r)
    /\ UNCHANGED <<preventivo, voce, mandato, contatore, offerti>>

\* update: no check on the state of the mandate, and none on the row of the
\* quote once the mandate is deleted.
CorreggiLeggi(r, x, v) ==
    /\ Vivo(prestazione, x)
    /\ IF Vivo(mandato, prestazione[x].mandato)
         THEN VoceDelMandato(v, prestazione[x].mandato)
         ELSE Presente(v)
    /\ Inizia(r, [Ferma EXCEPT !.fase = "correggi", !.prestazione = x, !.voce = v])

CorreggiScrivi(r) ==
    LET v == req[r].voce IN
    /\ req[r].fase = "correggi"
    /\ ~VoceBloccata(v)
    /\ prestazione' = IF ChiaveEsterna(v)
                        THEN [prestazione EXCEPT ![req[r].prestazione].voce = v]
                        ELSE prestazione
    /\ Rispondi(r)
    /\ UNCHANGED <<preventivo, voce, mandato, contatore, offerti>>

\* softDelete.
PrestazioneElimina(x) ==
    /\ Vivo(prestazione, x)
    /\ prestazione' = [prestazione EXCEPT ![x].vivo = FALSE]
    /\ UNCHANGED <<preventivo, voce, mandato, contatore, req, offerti>>

-----------------------------------------------------------------------------
\* A stop, a time-out, a database error: the open transaction rolls back.
Interrompi(r) ==
    /\ req[r].fase # "ferma"
    /\ Rispondi(r)
    /\ UNCHANGED <<tabelle, offerti>>

PassoPreventivo(r) ==
    \/ \E p \in Preventivi, s \in StatiPreventivo \cup {Nessuno}, righe \in BOOLEAN :
         ModificaInizia(r, p, s, righe)
    \/ ModificaConferma(r)

Conversione(r) ==
    \/ \E p \in Preventivi : ConvertiLeggi(r, p)
    \/ ConvertiNumera(r) \/ ConvertiRifiuta(r)
    \/ \E m \in Mandati : ConvertiConferma(r, m)

PassoPrestazione(r) ==
    \/ \E m \in Mandati, v \in Voci \cup {Nessuno} : RegistraLeggi(r, m, v)
    \/ \E x \in Prestazioni, v \in Voci : CorreggiLeggi(r, x, v)
    \/ RegistraScrivi(r) \/ CorreggiScrivi(r)

Next ==
    \/ \E p \in Preventivi, v \in Voci, s \in StatiPreventivo :
         PreventivoCrea(p, v, s)
    \/ \E p \in Preventivi : PreventivoElimina(p)
    \/ \E m \in Mandati : MandatoElimina(m) \/ \E s \in StatiMandato : MandatoAggiorna(m, s)
    \/ \E x \in Prestazioni : PrestazioneElimina(x)
    \/ \E r \in Richieste :
         PassoPreventivo(r) \/ Conversione(r) \/ PassoPrestazione(r) \/ Interrompi(r)

Spec == Init /\ [][Next]_vars

-----------------------------------------------------------------------------
(* Properties.                                                             *)

Emessi == {m \in Mandati : mandato[m] # Nessuno}

\* Whatever conversions run at the same time, fail or are rolled back, the
\* codes RDL-<anno>-<NNNN> given out are 1, 2, ... without holes or
\* repetitions (mandati.service.ts, counter under FOR UPDATE in the
\* transaction of the insert).
NumeriSenzaBuchi ==
    /\ {mandato[m].numero : m \in Emessi} = 1..contatore
    /\ Cardinality(Emessi) = contatore

\* A quote has one mandate that is not deleted at most, although two
\* conversions may both have read it as accepted and an edit may accept it
\* again after a conversion.
UnMandatoVivo ==
    \A m, n \in Mandati :
        Vivo(mandato, m) /\ Vivo(mandato, n) /\ mandato[m].preventivo = mandato[n].preventivo
            => m = n

\* The total of a quote is that of its rows, once each: concurrent edits
\* replace the rows one after the other because each has updated the header
\* first (preventivi.service.ts update).
TotaleDelleVoci ==
    \A p \in Preventivi : preventivo[p] # Nessuno => VociDi(p) = {preventivo[p].totale}

\* The amount of a mandate is one that the client had accepted: at some time
\* the quote was 'accettato' with that total, even if it has been edited
\* between the check and the commit.
ImportoAccettato ==
    \A m \in Emessi : mandato[m].importo \in offerti[mandato[m].preventivo]

\* A service on a mandate that is not deleted names a row of the quote of that
\* mandate, or none: replacing the rows of a quote leaves no dangling
\* reference and no edit brings in the row of another quote.
VoceDelPreventivo ==
    \A x \in Prestazioni :
        LET y == prestazione[x] IN
        y # Nessuno /\ Vivo(mandato, y.mandato) => VoceDelMandato(y.voce, y.mandato)

\* What a request in progress may rely on, whatever has been committed since
\* it has read: the rows it names are there, its number is the next one, the
\* rows it deletes are all those of its quote, the row of a service is still
\* of the right quote or is deleted.
Sa(q) ==
    /\ q.fase \in {"modifica", "converti", "numerato"} =>
         q.preventivo \in Preventivi /\ preventivo[q.preventivo] # Nessuno
    /\ q.fase = "modifica" => q.tolte = IF q.righe THEN VociDi(q.preventivo) ELSE {}
    /\ q.fase \in {"converti", "numerato"} => q.totale \in offerti[q.preventivo]
    /\ q.fase = "numerato" => q.numero = contatore + 1
    /\ q.fase = "registra" =>
         /\ q.mandato \in Mandati /\ mandato[q.mandato] # Nessuno
         /\ q.voce # Nessuno => voce[q.voce] \in {mandato[q.mandato].preventivo, Tolta}
    /\ q.fase = "correggi" =>
         /\ q.prestazione \in Prestazioni /\ prestazione[q.prestazione] # Nessuno
         /\ q.voce \in Voci
         /\ LET m == prestazione[q.prestazione].mandato
            IN  Vivo(mandato, m) => voce[q.voce] \in {mandato[m].preventivo, Tolta}

\* A header, and the counter, is in the hands of one transaction.
LucchettiEsclusivi ==
    \A r, s \in Richieste :
        /\ req[r].fase = req[s].fase
        /\ \/ req[r].fase = "numerato"
           \/ req[r].fase = "modifica" /\ req[r].preventivo = req[s].preventivo
        => r = s

RigheCollegate ==
    /\ \A v \in Voci : Presente(v) => preventivo[voce[v]] # Nessuno
    /\ \A x \in Prestazioni :
         prestazione[x] # Nessuno => mandato[prestazione[x].mandato] # Nessuno

AccettatiOfferti ==
    \A p \in Preventivi :
        preventivo[p] # Nessuno /\ preventivo[p].stato = "accettato"
            => preventivo[p].totale \in offerti[p]

\* The inductive invariant: the properties above, and what they rest on.
ContrattiInv ==
    /\ TypeOK
    /\ \A r \in Richieste : Sa(req[r])
    /\ LucchettiEsclusivi
    /\ RigheCollegate
    /\ AccettatiOfferti
    /\ IsFiniteSet(Emessi)
    /\ NumeriSenzaBuchi
    /\ UnMandatoVivo
    /\ TotaleDelleVoci
    /\ ImportoAccettato
    /\ VoceDelPreventivo

\* What RegistroMandati sees of a mandate.
MandatiEmessi ==
    [m \in Mandati |->
        IF mandato[m] = Nessuno THEN Nessuno
        ELSE [preventivo |-> mandato[m].preventivo, numero |-> mandato[m].numero,
              importo |-> mandato[m].importo, vivo |-> mandato[m].vivo]]

\* The mandates behave as RegistroMandati describes.
Registro == INSTANCE RegistroMandati WITH
    registro <- MandatiEmessi, ultimo <- contatore, Importi <- Voci
RegistroMandatiSpec == Registro!RegistroSpec

ASSUME RegistroAssumption == Nessuno \notin Registro!Mandato
=============================================================================
