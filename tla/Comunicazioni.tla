------------------------------ MODULE Comunicazioni ------------------------------
(***************************************************************************)
(* Threads between the studio and a client company, and their messages:    *)
(* comunicazioni.service.ts of apps/accountant-api/src/comunicazioni, for  *)
(* one tenant and one company.                                             *)
(*                                                                         *)
(* A thread is opened in one READ COMMITTED transaction that holds the     *)
(* tenant's counter.  A reply, of either side, reads the header, inserts   *)
(* the message and updates the header by id, one transaction each, and     *)
(* writes back the `urgente` it has read so that updated_at moves.         *)
(* Assignee, subject and read flags are left out: the updates that only    *)
(* touch them are Tocca.  Attachments are left out.                        *)
(***************************************************************************)
EXTENDS Righe, Naturals, FiniteSets

CONSTANTS
    Thread, Messaggi,    \* ids
    Chiamate             \* requests served concurrently, each reusable

VARIABLES
    thread,      \* numero, urgente, chiusa, vivo; coperti: the messages not
                 \* younger than updated_at
    messaggio,   \* the thread of a message
    ultimoCom,   \* com_counter.last_number
    chiamata,    \* what each request is doing, with what it has read
    interrotti   \* history: messages whose request stopped before the update

comunicazioniVars == <<thread, messaggio, ultimoCom, chiamata, interrotti>>

Riposo == [fase |-> "riposo"]
ThreadRiga ==
    [numero : Nat, urgente : BOOLEAN, chiusa : BOOLEAN, vivo : BOOLEAN, coperti : SUBSET Messaggi]

ASSUME ComunicazioniAssumption == Nessuno \notin Thread \cup ThreadRiga \cup Nat

ComunicazioniInit ==
    /\ thread = [t \in Thread |-> Nessuno]
    /\ messaggio = [m \in Messaggi |-> Nessuno]
    /\ ultimoCom = 0
    /\ chiamata = [r \in Chiamate |-> Riposo]
    /\ interrotti = {}

MessaggiDi(t) == {m \in Messaggi : messaggio[m] = t}
Aperti == {t \in Thread : Esiste(thread, t)}

\* Mutant: the counter is read without FOR UPDATE.
CounterBloccatoMai == FALSE

CounterBloccato == \E r \in Chiamate : chiamata[r].fase = "numerato"

\* Mutant: the counter is updated in a transaction of its own.
ApreNumeraSubito(r) ==
    /\ chiamata[r] = Riposo
    /\ ~CounterBloccato
    /\ chiamata' = [chiamata EXCEPT ![r] = [fase |-> "numerato", numero |-> ultimoCom + 1]]
    /\ ultimoCom' = ultimoCom + 1
    /\ UNCHANGED <<thread, messaggio, interrotti>>

\* create, up to the number.
ApreNumera(r) ==
    /\ chiamata[r] = Riposo
    /\ ~CounterBloccato
    /\ chiamata' = [chiamata EXCEPT ![r] = [fase |-> "numerato", numero |-> ultimoCom + 1]]
    /\ UNCHANGED <<thread, messaggio, ultimoCom, interrotti>>

\* The inserts and the commit.
ApreConferma(r, t, m, urgente) ==
    /\ chiamata[r].fase = "numerato"
    /\ ~Esiste(thread, t)
    /\ ~Esiste(messaggio, m)
    /\ thread' = [thread EXCEPT ![t] =
         [numero |-> chiamata[r].numero, urgente |-> urgente, chiusa |-> FALSE,
          vivo |-> TRUE, coperti |-> {m}]]
    /\ messaggio' = [messaggio EXCEPT ![m] = t]
    /\ ultimoCom' = chiamata[r].numero
    /\ chiamata' = [chiamata EXCEPT ![r] = Riposo]
    /\ UNCHANGED interrotti

\* addMessaggio, replyCliente: the header as read.
RispondeLegge(r, t) ==
    /\ chiamata[r] = Riposo
    /\ Esiste(thread, t)
    /\ thread[t].vivo
    /\ ~thread[t].chiusa
    /\ chiamata' = [chiamata EXCEPT ![r] =
         [fase |-> "letto", thread |-> t, urgente |-> thread[t].urgente]]
    /\ UNCHANGED <<thread, messaggio, ultimoCom, interrotti>>

\* The insert.
RispondeScrive(r, m) ==
    /\ chiamata[r].fase = "letto"
    /\ ~Esiste(messaggio, m)
    /\ messaggio' = [messaggio EXCEPT ![m] = chiamata[r].thread]
    /\ chiamata' = [chiamata EXCEPT ![r] = [fase |-> "scritto", messaggio |-> m,
                      thread |-> @.thread, urgente |-> @.urgente]]
    /\ UNCHANGED <<thread, ultimoCom, interrotti>>

\* Mutant: the update names no column, so updated_at stays as it is.
RispondeSenzaBump(r) ==
    /\ chiamata[r].fase = "scritto"
    /\ chiamata' = [chiamata EXCEPT ![r] = Riposo]
    /\ UNCHANGED <<thread, messaggio, ultimoCom, interrotti>>

\* The update that moves updated_at, with the `urgente` of the first read.
RispondeBump(r) ==
    LET t == chiamata[r].thread IN
    /\ chiamata[r].fase = "scritto"
    /\ thread' = [thread EXCEPT ![t].urgente = chiamata[r].urgente,
                                ![t].coperti = MessaggiDi(t)]
    /\ chiamata' = [chiamata EXCEPT ![r] = Riposo]
    /\ UNCHANGED <<messaggio, ultimoCom, interrotti>>

\* update of `urgente` or `chiusa`; Nessuno is a field the DTO leaves out.
\* The read decides only that the thread is there.
Aggiorna(t, urgente, chiusa) ==
    LET riga == thread[t] IN
    /\ Esiste(thread, t)
    /\ thread' = [thread EXCEPT ![t] =
         [riga EXCEPT !.urgente = IF urgente = Nessuno THEN @ ELSE urgente,
                      !.chiusa = IF chiusa = Nessuno THEN @ ELSE chiusa,
                      !.coperti = MessaggiDi(t)]]
    /\ UNCHANGED <<messaggio, ultimoCom, chiamata, interrotti>>

\* prendiInCarico, and an update of assignee or subject.
Tocca(t) ==
    /\ Esiste(thread, t)
    /\ thread' = [thread EXCEPT ![t].coperti = MessaggiDi(t)]
    /\ UNCHANGED <<messaggio, ultimoCom, chiamata, interrotti>>

ThreadElimina(t) ==
    /\ Esiste(thread, t)
    /\ thread' = [thread EXCEPT ![t].vivo = FALSE, ![t].coperti = MessaggiDi(t)]
    /\ UNCHANGED <<messaggio, ultimoCom, chiamata, interrotti>>

\* A stop or an error of the database; an open transaction rolls back.
ChiamataFallisce(r) ==
    /\ chiamata[r] # Riposo
    /\ interrotti' = IF chiamata[r].fase = "scritto"
                       THEN interrotti \cup {chiamata[r].messaggio} ELSE interrotti
    /\ chiamata' = [chiamata EXCEPT ![r] = Riposo]
    /\ UNCHANGED <<thread, messaggio, ultimoCom>>

ComunicazioniNext ==
    \/ \E r \in Chiamate :
         \/ ApreNumera(r)
         \/ \E t \in Thread, m \in Messaggi, u \in BOOLEAN : ApreConferma(r, t, m, u)
         \/ \E t \in Thread : RispondeLegge(r, t)
         \/ \E m \in Messaggi : RispondeScrive(r, m)
         \/ RispondeBump(r)
         \/ ChiamataFallisce(r)
    \/ \E t \in Thread :
         \/ \E u, c \in BOOLEAN \cup {Nessuno} : Aggiorna(t, u, c)
         \/ Tocca(t) \/ ThreadElimina(t)

ComunicazioniSpec == ComunicazioniInit /\ [][ComunicazioniNext]_comunicazioniVars

-----------------------------------------------------------------------------
(* Properties.                                                             *)

\* The codes COM-0001, COM-0002, ... given out have no holes or repetitions,
\* and the number an opening holds before its commit is the next one, so the
\* unique index on codice never refuses an opening, whatever openings run at
\* the same time or are rolled back.
CodiciSenzaBuchi ==
    /\ {thread[t].numero : t \in Aperti} = 1..ultimoCom
    /\ Cardinality(Aperti) = ultimoCom
    /\ \A r \in Chiamate : chiamata[r].fase = "numerato" => chiamata[r].numero = ultimoCom + 1

\* The inbox is ordered by updated_at: a message younger than the updated_at
\* of its thread belongs to a request that is still to update it, or that was
\* stopped before it could.
AttivitaRegistrata ==
    \A m \in Messaggi :
        Esiste(messaggio, m) =>
            \/ m \in thread[messaggio[m]].coperti
            \/ m \in interrotti
            \/ \E r \in Chiamate : chiamata[r].fase = "scritto" /\ chiamata[r].messaggio = m

-----------------------------------------------------------------------------
(* The invariant from which it follows.                                    *)

InChiamata ==
    [fase : {"numerato"}, numero : Nat]
        \cup [fase : {"letto"}, thread : Thread, urgente : BOOLEAN]
        \cup [fase : {"scritto"}, messaggio : Messaggi, thread : Thread, urgente : BOOLEAN]

ComunicazioniTipi ==
    /\ thread \in [Thread -> ThreadRiga \cup {Nessuno}]
    /\ messaggio \in [Messaggi -> Thread \cup {Nessuno}]
    /\ ultimoCom \in Nat
    /\ chiamata \in [Chiamate -> InChiamata \cup {Riposo}]
    /\ interrotti \subseteq Messaggi

\* Messages and replies are of threads that are there; the lock of the counter
\* is one opening's.
ComunicazioniInv ==
    /\ ComunicazioniTipi
    /\ IsFiniteSet(Aperti)
    /\ CodiciSenzaBuchi
    /\ AttivitaRegistrata
    /\ \A m \in Messaggi : Esiste(messaggio, m) => Esiste(thread, messaggio[m])
    /\ \A r \in Chiamate : chiamata[r].fase \in {"letto", "scritto"} => Esiste(thread, chiamata[r].thread)
    /\ \A r \in Chiamate :
         chiamata[r].fase = "scritto" => messaggio[chiamata[r].messaggio] = chiamata[r].thread
    /\ \A r, q \in Chiamate :
         chiamata[r].fase = "numerato" /\ chiamata[q].fase = "numerato" => r = q

-----------------------------------------------------------------------------
(* What both sides see of it.                                              *)

NumeriDati == [t \in Thread |-> IF Esiste(thread, t) THEN thread[t].numero ELSE Nessuno]

\* The threads behave as RegistroThread describes: the commit of an opening and
\* the insert of a reply are what is seen.
RegistroCom == INSTANCE RegistroThread WITH
    numeri <- NumeriDati, contenuto <- messaggio, ultimo <- ultimoCom
RegistroThreadSpec == RegistroCom!ThreadSpec
=============================================================================
