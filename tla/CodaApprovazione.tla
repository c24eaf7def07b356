---------------------------- MODULE CodaApprovazione ----------------------------
(***************************************************************************)
(* The page where the management decides on expense notes:                 *)
(* approvazione-spese/page.tsx of apps/accountant-web, with its dialogs,   *)
(* in one browser.  The server is the set of the notes to decide, which    *)
(* colleagues change too (NoteSpese is the server).                        *)
(*                                                                         *)
(* An event of the page is a step, and so is the answer of a call: answers *)
(* arrive in any order and none is cancelled.  The state filter stands for *)
(* the three filters of the list.                                          *)
(***************************************************************************)
EXTENDS Righe, FiniteSets

CONSTANTS
    Note,          \* notes of colleagues, submitted or decided
    Chiamata       \* bound on the calls in flight

VARIABLES
    daDecidere,   \* on the server: the notes that are 'inviata'
    filtro,       \* filtroStato
    items,        \* the rows of the list: note, decidibile (its stato is 'inviata')
    isLoading, loadError,
    volo,         \* the calls in flight, and what the server has answered
    dettaglio,    \* the note open below the list
    dialogo,      \* confermaApprova, apriRespingi: the dialog on top of it
    azione,       \* the decision in progress (azioneInCorso)
    azioneError, esito,
    decisa        \* history: how the last decision ended

codaVars == <<daDecidere, filtro, items, isLoading, loadError, volo, dettaglio, dialogo,
              azione, azioneError, esito, decisa>>

Filtri == {"inviata", "tutte"}
Quiete == [tipo |-> "quiete"]

\* load() sends its request with the filter of the render it belongs to.
Carica(f) == [tipo |-> "lista", filtro |-> f]

RigheDi(f) ==
    {[nota |-> n, decidibile |-> n \in daDecidere] :
        n \in IF f = "inviata" THEN daDecidere ELSE Note}

CodaInit ==
    /\ daDecidere = Note
    /\ filtro = "inviata"
    /\ items = {}
    /\ volo = [[x \in Chiamata |-> Quiete] EXCEPT ![CHOOSE c \in Chiamata : TRUE] = Carica("inviata")]
    /\ dettaglio = Nessuno
    /\ dialogo = Nessuno
    /\ azione = Nessuno
    /\ isLoading = TRUE /\ loadError = FALSE /\ azioneError = FALSE /\ esito = FALSE
    /\ decisa = Nessuno

\* A colleague decides a note, or its author submits it again.
Altri(n) ==
    /\ daDecidere' = IF n \in daDecidere THEN daDecidere \ {n} ELSE daDecidere \cup {n}
    /\ UNCHANGED <<filtro, items, isLoading, loadError, volo, dettaglio, dialogo, azione, azioneError,
                   esito, decisa>>

\* A change of filter, or the button that tries again: load().  Not under a
\* dialog, which is modal.
Filtra(f, c) ==
    /\ dialogo = Nessuno
    /\ volo[c] = Quiete
    /\ filtro' = f
    /\ isLoading' = TRUE
    /\ loadError' = FALSE
    /\ volo' = [volo EXCEPT ![c] = Carica(f)]
    /\ UNCHANGED <<daDecidere, items, dettaglio, dialogo, azione, azioneError, esito, decisa>>

\* apriDettaglio.
Apri(n, c) ==
    /\ dialogo = Nessuno
    /\ ~isLoading
    /\ \E x \in items : x.nota = n
    /\ volo[c] = Quiete
    /\ loadError' = FALSE
    /\ volo' = [volo EXCEPT ![c] = [tipo |-> "nota", nota |-> n]]
    /\ UNCHANGED <<daDecidere, filtro, items, isLoading, dettaglio, dialogo, azione,
                   azioneError, esito, decisa>>

\* The server reads.
Legge(c) ==
    /\ \/ /\ volo[c].tipo = "lista"
          /\ volo' = [volo EXCEPT ![c] = [tipo |-> "listaLetta", righe |-> RigheDi(@.filtro)]]
       \/ /\ volo[c].tipo = "nota"
          /\ volo' = [volo EXCEPT ![c] =
               [tipo |-> "notaLetta", nota |-> @.nota, decidibile |-> @.nota \in daDecidere]]
    /\ UNCHANGED <<daDecidere, filtro, items, isLoading, loadError, dettaglio, dialogo, azione,
                   azioneError, esito, decisa>>

\* The answer arrives, or the call fails.
Arriva(c) ==
    /\ \/ /\ volo[c].tipo = "listaLetta"
          /\ items' = volo[c].righe
          /\ UNCHANGED <<dettaglio, loadError>>
       \/ /\ volo[c].tipo = "notaLetta"
          /\ dettaglio' = [nota |-> volo[c].nota, decidibile |-> volo[c].decidibile]
          /\ UNCHANGED <<items, loadError>>
       \/ /\ volo[c] # Quiete
          /\ loadError' = TRUE
          /\ UNCHANGED <<items, dettaglio>>
    /\ isLoading' = (isLoading /\ volo[c].tipo \notin {"lista", "listaLetta"})
    /\ volo' = [volo EXCEPT ![c] = Quiete]
    /\ UNCHANGED <<daDecidere, filtro, dialogo, azione, azioneError, esito, decisa>>

\* scarica of an attachment.
ScaricaFallisce ==
    /\ dettaglio # Nessuno
    /\ loadError' = TRUE
    /\ UNCHANGED <<daDecidere, filtro, items, isLoading, volo, dettaglio, dialogo, azione,
                   azioneError, esito, decisa>>

Chiudi ==
    /\ dialogo = Nessuno
    /\ dettaglio # Nessuno
    /\ dettaglio' = Nessuno
    /\ UNCHANGED <<daDecidere, filtro, items, isLoading, loadError, volo, dialogo, azione, azioneError,
                   esito, decisa>>

\* The buttons 'approva' and 'respingi'.
ApriDialogo(d) ==
    /\ dialogo = Nessuno
    /\ dettaglio # Nessuno
    /\ dettaglio.decidibile
    /\ azione = Nessuno
    /\ dialogo' = d
    /\ UNCHANGED <<daDecidere, filtro, items, isLoading, loadError, volo, dettaglio, azione, azioneError,
                   esito, decisa>>

\* onOpenChange, that is Escape, also while a decision is in progress.
ChiudiDialogo ==
    /\ dialogo # Nessuno
    /\ dialogo' = Nessuno
    /\ UNCHANGED <<daDecidere, filtro, items, isLoading, loadError, volo, dettaglio, azione, azioneError,
                   esito, decisa>>

\* onConfirm and the start of eseguiDecisione: the note is the one that
\* `dettaglio` is in this render, the load at the end the one of this filter.
Conferma ==
    /\ dialogo # Nessuno
    /\ azione = Nessuno
    /\ dettaglio # Nessuno
    /\ azione' = [nota |-> dettaglio.nota, decidibile |-> dettaglio.decidibile,
                  filtro |-> filtro]
    /\ azioneError' = FALSE
    /\ esito' = FALSE
    /\ decisa' = Nessuno
    /\ UNCHANGED <<daDecidere, filtro, items, isLoading, loadError, volo, dettaglio, dialogo>>

\* Mutant: the error goes to loadError, which load() clears in the same step.
AzioneRifiutataInLoad == UNCHANGED <<azioneError, esito, dettaglio>>

AzioneRifiutata == azioneError' = TRUE /\ UNCHANGED <<esito, dettaglio>>

AzioneAccettata == dettaglio' = Nessuno /\ esito' = TRUE /\ UNCHANGED azioneError

\* The server decides on a note that is 'inviata', or refuses,
\* or its answer is lost; then `finally` closes the dialogs and calls load().
Decide(c) ==
    /\ azione # Nessuno
    /\ volo[c] = Quiete
    /\ \/ /\ azione.nota \in daDecidere
          /\ daDecidere' = daDecidere \ {azione.nota}
          /\ AzioneAccettata
          /\ decisa' = "accettata"
       \/ /\ daDecidere' \in {daDecidere, daDecidere \ {azione.nota}}
          /\ AzioneRifiutata
          /\ decisa' = "rifiutata"
    /\ azione' = Nessuno
    /\ dialogo' = Nessuno
    /\ isLoading' = TRUE
    /\ loadError' = FALSE
    /\ volo' = [volo EXCEPT ![c] = Carica(azione.filtro)]
    /\ UNCHANGED <<filtro, items>>

CodaNext ==
    \/ \E n \in Note : Altri(n) \/ \E c \in Chiamata : Apri(n, c)
    \/ \E c \in Chiamata :
         Legge(c) \/ Arriva(c) \/ Decide(c) \/ \E f \in Filtri : Filtra(f, c)
    \/ ScaricaFallisce \/ Chiudi \/ ChiudiDialogo \/ Conferma
    \/ \E d \in {"approva", "respingi"} : ApriDialogo(d)

-----------------------------------------------------------------------------
(* Properties.                                                             *)

\* How the last decision has ended stays on the page until the next one,
\* whatever loads follow it and in whatever order they end: a refusal, as a
\* success, is never silent.
EsitoVisibile ==
    /\ decisa = "rifiutata" => azioneError
    /\ decisa = "accettata" => esito /\ ~azioneError

-----------------------------------------------------------------------------
(* The specification, and the inductive invariant from which the theorems  *)
(* of BrowserProofs follow.                                                *)

CodaSpec == CodaInit /\ [][CodaNext]_codaVars

\* The initial load is a call; null is not the end of a decision, nor a row.
RigaCoda == [nota : Note, decidibile : BOOLEAN]
InAzione == [nota : Note, decidibile : BOOLEAN, filtro : Filtri]

ASSUME CodaAssumption ==
    /\ Chiamata # {}
    /\ Nessuno \notin RigaCoda \cup InAzione \cup {"accettata", "rifiutata"}

InVolo == {Quiete} \cup [tipo : {"lista"}, filtro : Filtri]
                   \cup [tipo : {"listaLetta"}, righe : SUBSET RigaCoda]
                   \cup [tipo : {"nota"}, nota : Note]
                   \cup [tipo : {"notaLetta"}, nota : Note, decidibile : BOOLEAN]

CodaTipi ==
    /\ daDecidere \in SUBSET Note
    /\ filtro \in Filtri
    /\ items \in SUBSET RigaCoda
    /\ volo \in [Chiamata -> InVolo]
    /\ dettaglio \in RigaCoda \cup {Nessuno}
    /\ dialogo \in {Nessuno, "approva", "respingi"}
    /\ azione \in InAzione \cup {Nessuno}
    /\ isLoading \in BOOLEAN /\ loadError \in BOOLEAN
    /\ azioneError \in BOOLEAN /\ esito \in BOOLEAN

\* A decision in progress has wiped the outcome of the one before; a dialog is
\* on top of a note; the list that is loading is in flight.
CodaInv ==
    /\ CodaTipi
    /\ EsitoVisibile
    /\ azione # Nessuno => ~azioneError /\ ~esito /\ decisa = Nessuno
    /\ dialogo # Nessuno => dettaglio # Nessuno
    /\ isLoading => \E c \in Chiamata : volo[c].tipo \in {"lista", "listaLetta"}
=============================================================================
