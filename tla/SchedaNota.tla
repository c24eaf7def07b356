------------------------------- MODULE SchedaNota -------------------------------
(***************************************************************************)
(* The page where an operator writes expense notes: note-spese/page.tsx of *)
(* apps/accountant-web with NotaSpesaForm, in one browser; the server is   *)
(* the table of the operator's notes (NoteSpese).                          *)
(*                                                                         *)
(* The list stays below the form, and its rows can be clicked.  The form   *)
(* takes its fields from the note when it is mounted and keeps them until  *)
(* it is closed; it has no key.  A call that has been sent goes on when    *)
(* the form is closed.  The fields are abstracted to the note they are of, *)
(* attachments and the reload of the list are left out.                    *)
(***************************************************************************)
EXTENDS Righe, Naturals

CONSTANTS
    Scritte,       \* ids of notes
    InCorso        \* bound on the calls in flight

VARIABLES
    nota,          \* on the server: the stato of each note, "eliminata"
                   \* when its row is gone
    corrente,      \* the note the page takes for open, as last loaded
    scheda,        \* the mounted form: campi, the note its fields are of; invio
                   \* (submitting); create, how many creations it knows of
    elimina,       \* pendingDelete
    invii          \* the calls in flight

schedaVars == <<nota, corrente, scheda, elimina, invii>>

NessunInvio == [tipo |-> "nessuno"]

\* The form of a note, or of a new one, when it is mounted.
Montata(n) == [campi |-> n, invio |-> FALSE, create |-> 0]
Vista(n) == [nota |-> n, stato |-> nota[n]]

SchedaInit ==
    /\ nota \in [Scritte -> {Nessuno, "bozza"}]
    /\ corrente = Nessuno
    /\ scheda = Nessuno
    /\ elimina = FALSE
    /\ invii = [c \in InCorso |-> NessunInvio]

Aperta == scheda # Nessuno
IdCorrente == IF corrente = Nessuno THEN Nessuno ELSE corrente.nota
SolaLettura == corrente # Nessuno /\ corrente.stato = "inviata"

\* Calls of the form go on without it.
Smonta == [c \in InCorso |->
    IF invii[c] = NessunInvio THEN NessunInvio ELSE [invii[c] EXCEPT !.montata = FALSE]]

Spedisce(c, tipo, n) ==
    /\ invii[c] = NessunInvio
    /\ invii' = [invii EXCEPT ![c] =
         [tipo |-> tipo, nota |-> n, montata |-> Aperta, servita |-> FALSE, riga |-> Nessuno,
          campi |-> IF Aperta THEN scheda.campi ELSE Nessuno]]

-----------------------------------------------------------------------------
(* The user.                                                               *)

\* apriNota, from a row of the list or of the day.
ApriNota(n, c) ==
    /\ ~elimina
    /\ nota[n] \in {"bozza", "inviata"}
    /\ Spedisce(c, "apri", n)
    /\ UNCHANGED <<nota, corrente, scheda, elimina>>

ApriNuova ==
    /\ ~Aperta
    /\ corrente' = Nessuno
    /\ scheda' = Montata(Nessuno)
    /\ UNCHANGED <<nota, elimina, invii>>

\* onCancel.
ChiudiForm ==
    /\ Aperta /\ ~elimina
    /\ corrente' = Nessuno
    /\ scheda' = Nessuno
    /\ invii' = Smonta
    /\ UNCHANGED <<nota, elimina>>

\* handleSubmit and handleSave: an update of the note that is open, the
\* creation of one if none is.
Salva(c) ==
    /\ Aperta /\ ~elimina
    /\ ~SolaLettura
    /\ ~scheda.invio
    /\ Spedisce(c, IF corrente = Nessuno THEN "crea" ELSE "aggiorna", IdCorrente)
    /\ scheda' = [scheda EXCEPT !.invio = TRUE]
    /\ UNCHANGED <<nota, corrente, elimina>>

\* handleInvia.
InviaNota(c) ==
    /\ Aperta /\ ~elimina
    /\ corrente # Nessuno /\ ~SolaLettura
    /\ ~scheda.invio
    /\ Spedisce(c, "invia", IdCorrente)
    /\ scheda' = [scheda EXCEPT !.invio = TRUE]
    /\ UNCHANGED <<nota, corrente, elimina>>

\* handleUpload and handleDeleteAllegato: whatever happens to the attachment,
\* the note is loaded again.
Allega(c) ==
    /\ Aperta /\ ~elimina
    /\ corrente # Nessuno /\ ~SolaLettura
    /\ Spedisce(c, "rileggi", IdCorrente)
    /\ UNCHANGED <<nota, corrente, scheda, elimina>>

\* The button 'elimina', and ConfirmDialog.
ChiedeElimina ==
    /\ Aperta
    /\ corrente # Nessuno /\ corrente.stato = "bozza"
    /\ elimina' = TRUE
    /\ UNCHANGED <<nota, corrente, scheda, invii>>

RinunciaElimina ==
    /\ elimina
    /\ elimina' = FALSE
    /\ UNCHANGED <<nota, corrente, scheda, invii>>

\* handleConfirmDelete; isDeleting lets it start once.
ConfermaElimina(c) ==
    /\ elimina
    /\ corrente # Nessuno
    /\ \A d \in InCorso : invii[d].tipo # "elimina"
    /\ Spedisce(c, "elimina", IdCorrente)
    /\ UNCHANGED <<nota, corrente, scheda, elimina>>

-----------------------------------------------------------------------------
(* The server, and the answers.                                            *)

\* What the server makes of a call on note n (NoteSpese has the handlers).
Ammessa(tipo, n) ==
    CASE tipo = "crea"                               -> nota[n] = Nessuno
      [] tipo \in {"aggiorna", "invia", "elimina"} -> nota[n] = "bozza"
      [] tipo \in {"apri", "rileggi"}              -> nota[n] \in {"bozza", "inviata"}

Serve(c, n) ==
    LET x == invii[c]
        dopo == CASE x.tipo = "crea"    -> "bozza"
                  [] x.tipo = "invia"   -> "inviata"
                  [] x.tipo = "elimina" -> "eliminata"
                  [] OTHER              -> nota[n]
    IN
    /\ x # NessunInvio /\ ~x.servita
    /\ x.nota \in {n, Nessuno}
    /\ Ammessa(x.tipo, n)
    /\ nota' = [nota EXCEPT ![n] = dopo]
    /\ invii' = [invii EXCEPT ![c].servita = TRUE, ![c].riga = [nota |-> n, stato |-> dopo]]
    /\ UNCHANGED <<corrente, scheda, elimina>>

\* Mutant: the page keeps no note after a creation.
DopoScritturaSenzaNota(c) ==
    LET x == invii[c] IN
    /\ corrente' = IF x.tipo = "crea" THEN corrente ELSE x.riga
    /\ scheda' = IF ~x.montata THEN scheda
                 ELSE [scheda EXCEPT !.invio = FALSE,
                                     !.create = IF x.tipo = "crea" THEN @ + 1 ELSE @]

\* setCorrente and, in the form that made the call if it is still there,
\* setSubmitting(false).
DopoScrittura(c) ==
    LET x == invii[c] IN
    /\ corrente' = x.riga
    /\ scheda' = IF ~x.montata THEN scheda
                 ELSE [scheda EXCEPT !.invio = FALSE,
                                     !.campi = IF x.tipo = "crea" THEN x.riga.nota ELSE @,
                                     !.create = IF x.tipo = "crea" THEN @ + 1 ELSE @]

Risponde(c) ==
    LET x == invii[c]
        resto == [invii EXCEPT ![c] = NessunInvio]
    IN
    /\ x # NessunInvio /\ x.servita
    /\ \/ /\ x.tipo = "apri"
          /\ corrente' = x.riga
          /\ scheda' = IF Aperta THEN scheda ELSE Montata(x.nota)
          /\ invii' = resto
          /\ UNCHANGED elimina
       \/ /\ x.tipo = "rileggi"
          /\ corrente' = x.riga
          /\ invii' = resto
          /\ UNCHANGED <<scheda, elimina>>
       \/ /\ x.tipo \in {"crea", "aggiorna", "invia"}
          /\ DopoScrittura(c)
          /\ invii' = resto
          /\ UNCHANGED elimina
       \/ /\ x.tipo = "elimina"
          /\ corrente' = Nessuno
          /\ scheda' = Nessuno
          /\ elimina' = FALSE
          /\ invii' = [Smonta EXCEPT ![c] = NessunInvio]
    /\ UNCHANGED nota

\* A refusal, or an answer that is lost: an error is shown.
Errore(c) ==
    LET x == invii[c] IN
    /\ x # NessunInvio
    /\ invii' = [invii EXCEPT ![c] = NessunInvio]
    /\ scheda' = IF x.montata /\ x.tipo \in {"crea", "aggiorna", "invia"}
                   THEN [scheda EXCEPT !.invio = FALSE] ELSE scheda
    /\ elimina' = (elimina /\ x.tipo # "elimina")
    /\ UNCHANGED <<nota, corrente>>

SchedaNext ==
    \/ ApriNuova \/ ChiudiForm \/ ChiedeElimina \/ RinunciaElimina
    \/ \E c \in InCorso :
         \/ \E n \in Scritte : ApriNota(n, c) \/ Serve(c, n)
         \/ Salva(c) \/ InviaNota(c) \/ Allega(c) \/ ConfermaElimina(c)
         \/ Risponde(c) \/ Errore(c)

-----------------------------------------------------------------------------
(* Properties.                                                             *)

\* A form creates one note: once it knows of the note it has created, saving
\* again updates it, whatever other calls of the page end meanwhile.
UnaNotaPerScheda == Aperta => scheda.create <= 1

\* "Modifica nota spese ... Salva modifiche": an update sent for a note has
\* the fields of that note, as edited in the form.
CampiDellaNota ==
    \A c \in InCorso : invii[c].tipo = "aggiorna" => invii[c].campi = invii[c].nota

-----------------------------------------------------------------------------
(* The specification, and the inductive invariant from which the theorems  *)
(* of BrowserProofs follow.                                                *)

SchedaSpec == SchedaInit /\ [][SchedaNext]_schedaVars

\* The calls that the form makes, and those of the page around it.
TipiForm == {"crea", "aggiorna", "invia"}
TipiPagina == {"apri", "rileggi", "elimina"}

NotaVista == [nota : Scritte, stato : {"bozza", "inviata", "eliminata"}]
SchedaRiga == [campi : Scritte \cup {Nessuno}, invio : BOOLEAN, create : 0..1]
Invio == [tipo : TipiForm \cup TipiPagina, nota : Scritte \cup {Nessuno},
          montata : BOOLEAN, servita : BOOLEAN, riga : NotaVista \cup {Nessuno},
          campi : Scritte \cup {Nessuno}]

\* Null is not a row.
ASSUME SchedaAssumption == Nessuno \notin SchedaRiga \cup NotaVista

SchedaTipi ==
    /\ nota \in [Scritte -> {Nessuno, "bozza", "inviata", "eliminata"}]
    /\ corrente \in NotaVista \cup {Nessuno}
    /\ scheda \in SchedaRiga \cup {Nessuno}
    /\ elimina \in BOOLEAN
    /\ invii \in [InCorso -> Invio \cup {NessunInvio}]

\* A call of the form that is still mounted.
DellaScheda(c) == invii[c].tipo \in TipiForm /\ invii[c].montata

\* The form waits for its call, which is the only one, and creates only if it
\* has not yet; once it has, the page has a note open.
SchedaInv ==
    /\ SchedaTipi
    /\ Aperta => (scheda.create = 1 => corrente # Nessuno)
    /\ \A c \in InCorso :
         /\ invii[c] # NessunInvio /\ invii[c].servita => invii[c].riga # Nessuno
         /\ DellaScheda(c) =>
              /\ Aperta /\ scheda.invio
              /\ invii[c].tipo = "crea" => scheda.create = 0
              /\ \A d \in InCorso : DellaScheda(d) => d = c
=============================================================================
