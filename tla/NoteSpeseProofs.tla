--------------------------- MODULE NoteSpeseProofs ---------------------------
(***************************************************************************)
(* Theorems about NoteSpese, for every set of notes, users, attachment     *)
(* types, files and requests, with any number of requests in progress and  *)
(* whatever handler stops where.  They come from three invariants:         *)
(* NoteInv (no two requests hold one lock, no two rows share a key),       *)
(* FileInv (files and the rows about to take or to lose them) and          *)
(* AttualeInv (what a request has read is still so unless another one has  *)
(* written its note since: the requests of `superati`).                    *)
(***************************************************************************)
EXTENDS NoteSpese, TLAPS

\* No step takes a note away or gives it to somebody else.
VitaResta ==
    \A n \in Note : stato[n] # "assente" => stato'[n] # "assente" /\ autore'[n] = autore[n]

TipiVita ==
    /\ stato \in [Note -> Stati]
    /\ autore \in [Note -> Users \cup {Nessuno}]
    /\ decisaDa \in [Note -> Users \cup {Nessuno}]
    /\ motivo \in [Note -> BOOLEAN]

-----------------------------------------------------------------------------
(* The life of the notes.                                                  *)

LEMMA VitaSiConserva ==
  ASSUME TipiVita, VitaInv, [Life!LifeNext]_lifeVars
  PROVE  TipiVita' /\ VitaInv' /\ VitaResta
<1> USE DEF TipiVita, VitaInv, VitaResta, DecisioneCoerente, Esiste, Stati
<1>1. CASE UNCHANGED lifeVars
  BY <1>1 DEF lifeVars
<1>2. ASSUME NEW n \in Note, NEW u \in Users, Life!Crea(n, u)
      PROVE  TipiVita' /\ VitaInv' /\ VitaResta
  BY <1>2, NessunoAssumption DEF Life!Crea
<1>3. ASSUME NEW n \in Note, Life!Invia(n)
      PROVE  TipiVita' /\ VitaInv' /\ VitaResta
  BY <1>3, NessunoAssumption DEF Life!Invia
<1>4. ASSUME NEW n \in Note, NEW u \in Users, NEW esito \in {"approvata", "respinta"},
             Life!Decidi(n, u, esito)
      PROVE  TipiVita' /\ VitaInv' /\ VitaResta
  BY <1>4, NessunoAssumption DEF Life!Decidi
<1>5. ASSUME NEW n \in Note, Life!Elimina(n)
      PROVE  TipiVita' /\ VitaInv' /\ VitaResta
  BY <1>5, NessunoAssumption DEF Life!Elimina
<1>6. QED
  BY <1>1, <1>2, <1>3, <1>4, <1>5 DEF Life!LifeNext

\* Every handler step is a step of the note's life or leaves it alone.
LEMMA PassoDiVita ==
  ASSUME NoteInv, [Operazione]_noteVars
  PROVE  [Life!LifeNext]_lifeVars
<1> USE DEF lifeVars
<1>1. CASE UNCHANGED noteVars
  BY <1>1 DEF noteVars
<1>2. ASSUME NEW u \in Users, NEW n \in Note, NEW d \in SUBSET Tipi, NEW c \in Commessa,
             Crea(u, n, d, c)
      PROVE  Life!LifeNext
  BY <1>2 DEF Crea, Life!Crea, Life!LifeNext
<1>3. ASSUME NEW r \in Requests, Start(r) \/ Fault(r) PROVE UNCHANGED lifeVars
  BY <1>3 DEF Start, Fault, Begin, ModificaLeggi, InviaLeggi, DecidiLeggi, EliminaLeggi,
     CaricaLeggi, TogliLeggi
<1>4. ASSUME NEW r \in Requests, Proceed(r) PROVE Life!LifeNext \/ UNCHANGED lifeVars
  <2>1. Conosce(req[r]) /\ req[r] \in Request
    BY DEF NoteInv, TypeOK
  <2>2. CASE InviaScrivi(r)
    BY <2>1, <2>2 DEF InviaScrivi, Conosce, Modificabile, Life!Invia, Life!LifeNext
  <2>3. CASE DecidiScrivi(r)
    <3>1. req[r].esito \in {"approvata", "respinta"}
      BY <2>1 DEF Request
    <3>2. QED
      BY <2>1, <2>3, <3>1 DEF DecidiScrivi, Conosce, Life!Decidi, Life!LifeNext
  <2>4. CASE EliminaCommit(r)
    BY <2>1, <2>4 DEF EliminaCommit, Conosce, Esiste, Life!Elimina, Life!LifeNext
  <2>5. CASE ~(InviaScrivi(r) \/ DecidiScrivi(r) \/ EliminaCommit(r))
    BY <1>4, <2>5 DEF Proceed, ModificaScrivi, InviaControlla, EliminaElenca, EliminaRiga,
       EliminaFile, CaricaPut, CaricaRiga, CaricaPulisci, TogliTrova, TogliFile, TogliCommit
  <2>6. QED
    BY <2>2, <2>3, <2>4, <2>5
<1>5. QED
  BY <1>1, <1>2, <1>3, <1>4 DEF Operazione

LEMMA VitaDelPasso ==
  ASSUME NoteInv, [Operazione]_noteVars
  PROVE  TipiVita' /\ VitaInv' /\ VitaResta
BY PassoDiVita, VitaSiConserva DEF NoteInv, TypeOK, TipiVita

-----------------------------------------------------------------------------
(* The requests.                                                           *)

\* Whoever holds a lock against another is held by it.
LEMMA ConflittoSimmetrico ==
  ASSUME NEW p \in Request, NEW q \in Request
  PROVE  Conflitto(p, q) <=> Conflitto(q, p)
BY DEF Conflitto

\* What a request may rely on stays so while another one works, if no row
\* comes to hold one of its files and nobody takes away the row it locks.
LEMMA ConosceResta ==
  ASSUME VitaResta, NEW q \in Request, Conosce(q),
         \A n \in Note, t \in Tipi : allegato'[n][t] \in q.file => allegato[n][t] \in q.file,
         q.pc = "cancella" => stato'[q.nota] \notin {"assente", "eliminata"}
  PROVE  Conosce(q)'
BY DEF VitaResta, Conosce, DiNessuno, DellaNota, DellaRiga, Esiste

\* A step that moves request r, which is then q.
LEMMA RichiestaMuove ==
  ASSUME NoteInv, [Operazione]_noteVars, NEW r \in Requests, NEW q \in Request,
         req' = [req EXCEPT ![r] = q], Conosce(q)',
         dovuti' \in [Note -> SUBSET Tipi], commessa' \in [Note -> Commessa],
         allegato' \in [Note -> [Tipi -> Files \cup {Nessuno}]], stored' \in SUBSET Files,
         ChiaviUniche',
         \A s \in Requests : s # r =>
            /\ ~Conflitto(q, req[s]) /\ ~Conteso(q, req[s]) /\ ~Conteso(req[s], q)
            /\ req[s].pc = "cancella" => stato'[req[s].nota] \notin {"assente", "eliminata"}
            /\ \A n \in Note, t \in Tipi :
                  allegato'[n][t] \in req[s].file => allegato[n][t] \in req[s].file
  PROVE  NoteInv'
<1>1. TipiVita' /\ VitaInv' /\ VitaResta
  BY VitaDelPasso
<1>2. req \in [Requests -> Request] /\ \A s \in Requests : Conosce(req[s])
  BY DEF NoteInv, TypeOK
<1>3. req' \in [Requests -> Request]
  BY <1>2
<1>4. TypeOK'
  BY <1>1, <1>3 DEF TypeOK, TipiVita
<1>5. ASSUME NEW s \in Requests PROVE Conosce(req[s])'
  <2>1. PICK p \in Request : p = req'[s]
    BY <1>3
  <2>2. CASE s = r
    BY <1>2, <2>2 DEF Conosce, DiNessuno, DellaNota, DellaRiga, Esiste
  <2>3. CASE s # r
    <3>1. p = req[s]
      BY <1>2, <2>1, <2>3
    <3>2. Conosce(p)'
      BY <1>1, <1>2, <2>3, <3>1, ConosceResta
    <3>3. QED
      BY <2>1, <3>2 DEF Conosce, DiNessuno, DellaNota, DellaRiga, Esiste
  <2>4. QED
    BY <2>2, <2>3
<1>6. ASSUME NEW s \in Requests, NEW p \in Requests, s # p
      PROVE  (~Conflitto(req[s], req[p]) /\ ~Conteso(req[s], req[p]))'
  <2>1. ~Conflitto(req'[s], req'[p]) /\ ~Conteso(req'[s], req'[p])
    <3>1. CASE s # r /\ p # r
      BY <1>2, <1>6, <3>1 DEF NoteInv
    <3>2. CASE s = r
      BY <1>2, <1>6, <3>2
    <3>3. CASE p = r
      BY <1>2, <1>6, <3>3, ConflittoSimmetrico
    <3>4. QED
      BY <3>1, <3>2, <3>3
  <2>2. QED
    BY <2>1 DEF Conflitto, Conteso
<1>7. QED
  BY <1>1, <1>4, <1>5, <1>6 DEF NoteInv

\* A step that touches neither the notes' life nor the attachment rows.
LEMMA RichiestaLegge ==
  ASSUME NoteInv, [Operazione]_noteVars, NEW r \in Requests, NEW q \in Request,
         req' = [req EXCEPT ![r] = q], Conosce(q)',
         dovuti' \in [Note -> SUBSET Tipi], commessa' \in [Note -> Commessa],
         UNCHANGED <<stato, allegato>>, stored' \in SUBSET Files,
         \A s \in Requests : s # r =>
            ~Conflitto(q, req[s]) /\ ~Conteso(q, req[s]) /\ ~Conteso(req[s], q)
  PROVE  NoteInv'
<1>1. \A s \in Requests : req[s].pc = "cancella" =>
          stato[req[s].nota] \notin {"assente", "eliminata"}
  BY DEF NoteInv, Conosce, Esiste
<1>2. allegato' \in [Note -> [Tipi -> Files \cup {Nessuno}]] /\ ChiaviUniche'
  BY DEF NoteInv, TypeOK, ChiaviUniche
<1>3. QED
  BY <1>1, <1>2, RichiestaMuove

\* A request without files and without locks.
LEMMA SenzaFile ==
  ASSUME NEW p \in Request, NEW q \in Request, q.file = {}, q.pc \notin {"cancella", "tolto"}
  PROVE  ~Conflitto(q, p) /\ ~Conteso(q, p) /\ ~Conteso(p, q)
BY DEF Conflitto, Conteso

LEMMA IdleOk ==
  /\ Idle \in Request /\ Idle.pc = "idle" /\ Idle.nota = Nessuno /\ Idle.file = {}
  /\ Idle.tipo = Nessuno /\ Conosce(Idle)'
<1>1. Interna \in Commessa
  BY DEF Interna, Commessa
<1>2. NoPatch \in Patch
  BY <1>1 DEF NoPatch, Patch, Campi, Interna
<1>3. QED
  BY <1>2 DEF Idle, Request, Phases, Conosce

\* What every step may use of the invariant.
LEMMA Noto ==
  ASSUME NoteInv
  PROVE  /\ dovuti \in [Note -> SUBSET Tipi] /\ commessa \in [Note -> Commessa]
         /\ allegato \in [Note -> [Tipi -> Files \cup {Nessuno}]] /\ stored \in SUBSET Files
         /\ stato \in [Note -> Stati]
         /\ req \in [Requests -> Request]
         /\ \A s \in Requests : req[s] \in Request /\ Conosce(req[s])
BY DEF NoteInv, TypeOK

\* A request moves nobody else's.
LEMMA AltriFermi ==
  ASSUME NoteInv, NEW r \in Requests, Start(r) \/ Proceed(r) \/ Fault(r)
  PROVE  \A s \in Requests : s # r => req'[s] = req[s]
<1> USE Noto
<1>1. CASE Start(r)
  BY <1>1 DEF Start, Begin, ModificaLeggi, InviaLeggi, DecidiLeggi, EliminaLeggi, CaricaLeggi,
     TogliLeggi
<1>2. CASE Proceed(r)
  <2>1. CASE ModificaScrivi(r) \/ InviaControlla(r) \/ InviaScrivi(r) \/ DecidiScrivi(r)
    BY <2>1 DEF ModificaScrivi, InviaControlla, InviaScrivi, DecidiScrivi, Answer
  <2>2. CASE EliminaElenca(r) \/ EliminaRiga(r) \/ EliminaFile(r) \/ EliminaCommit(r)
    BY <2>2 DEF EliminaElenca, EliminaRiga, EliminaFile, EliminaCommit, Answer
  <2>3. CASE CaricaPut(r) \/ CaricaRiga(r) \/ CaricaPulisci(r)
    BY <2>3 DEF CaricaPut, CaricaRiga, CaricaPulisci, Answer
  <2>4. CASE TogliTrova(r) \/ TogliFile(r) \/ TogliCommit(r)
    BY <2>4 DEF TogliTrova, TogliFile, TogliCommit, Answer
  <2>5. QED
    BY <1>2, <2>1, <2>2, <2>3, <2>4 DEF Proceed
<1>3. CASE Fault(r)
  BY <1>3 DEF Fault, Answer
<1>4. QED
  BY <1>1, <1>2, <1>3

LEMMA NessunoSenzaFile ==
  ASSUME NoteInv
  PROVE  \A s \in Requests : Nessuno \notin req[s].file
<1> SUFFICES ASSUME NEW s \in Requests PROVE Nessuno \notin req[s].file
  OBVIOUS
<1>1. req[s].file \subseteq Files
  BY Noto DEF Request
<1>2. QED
  BY <1>1, NessunoAssumption

-----------------------------------------------------------------------------
(* One lemma per handler.                                                  *)

\* A request that is answered having changed no row but those of the data.
LEMMA PassoRisponde ==
  ASSUME NoteInv, [Operazione]_noteVars, NEW r \in Requests, Answer(r), UNCHANGED <<stato, allegato>>,
         dovuti' \in [Note -> SUBSET Tipi], commessa' \in [Note -> Commessa],
         stored' \in SUBSET Files
  PROVE  NoteInv'
<1>1. PICK q \in Request : q = Idle
  BY IdleOk
<1>2. /\ q.file = {} /\ q.pc = "idle" /\ Conosce(q)'
      /\ req' = [req EXCEPT ![r] = q]
  BY <1>1, IdleOk DEF Answer, Conosce
<1>3. QED
  BY <1>2, Noto, SenzaFile, RichiestaLegge

LEMMA PassoCrea ==
  ASSUME NoteInv, [Operazione]_noteVars, NEW u \in Users, NEW n \in Note, NEW d \in SUBSET Tipi,
         NEW c \in Commessa, Crea(u, n, d, c)
  PROVE  NoteInv'
<1>1. TipiVita' /\ VitaInv' /\ VitaResta
  BY VitaDelPasso
<1>2. TypeOK' /\ ChiaviUniche'
  BY <1>1, Noto DEF Crea, TypeOK, TipiVita, ChiaviUniche, NoteInv
<1>3. ASSUME NEW s \in Requests PROVE Conosce(req[s])'
  <2>1. PICK q \in Request : q = req[s]
    BY Noto
  <2>2. Conosce(q)'
    BY <1>1, <2>1, Noto, ConosceResta DEF Crea, Conosce, Esiste
  <2>3. QED
    BY <2>1, <2>2 DEF Crea, Conosce, DiNessuno, DellaNota, DellaRiga, Esiste
<1>4. QED
  BY <1>1, <1>2, <1>3 DEF NoteInv, Crea, Conflitto, Conteso

\* A request that has just read the note it is about.
Iniziata(r) ==
    \E q \in Request :
        /\ req' = [req EXCEPT ![r] = q]
        /\ q.file = {} /\ q.pc \notin {"idle", "caricato", "cancella", "tolto"}
        /\ Conosce(q)' /\ Attuale(q)'
        /\ UNCHANGED <<lifeVars, dataVars, allegato, stored>>

LEMMA Inizio ==
  ASSUME NoteInv, NEW r \in Requests, Start(r)
  PROVE  Iniziata(r)
<1>1. PICK n \in Note :
         \/ \E p \in Patch : ModificaLeggi(r, n, p)
         \/ InviaLeggi(r, n)
         \/ \E u \in Users, esito \in {"approvata", "respinta"} : DecidiLeggi(r, u, n, esito)
         \/ EliminaLeggi(r, n)
         \/ \E t \in Tipi : CaricaLeggi(r, n, t)
         \/ TogliLeggi(r, n)
  BY DEF Start
<1> USE IdleOk, Noto
<1>2. CASE \E p \in Patch : ModificaLeggi(r, n, p)
  <2>1. PICK p \in Patch : ModificaLeggi(r, n, p)
    BY <1>2
  <2> DEFINE a == [Idle EXCEPT !.pc = "modifica", !.nota = n, !.patch = p]
  <2>2. a \in Request /\ a.file = {} /\ a.pc = "modifica" /\ a.nota = n /\ a.patch = p
    BY DEF Request, Phases
  <2>3. /\ req' = [req EXCEPT ![r] = a] /\ stato[n] \in Modificabile
        /\ Coerente(Applied(p, commessa[n]))
        /\ UNCHANGED <<lifeVars, dataVars, allegato, stored>>
    BY <2>1 DEF ModificaLeggi
  <2> HIDE DEF a
  <2>4. PICK q \in Request : q = a
    BY <2>2
  <2>5. Conosce(q)' /\ Attuale(q)'
    BY <2>2, <2>3, <2>4 DEF Conosce, Attuale, Modificabile, lifeVars, dataVars
  <2>6. QED
    BY <2>2, <2>3, <2>4, <2>5 DEF Iniziata
<1>3. CASE InviaLeggi(r, n)
  <2> DEFINE a == [Idle EXCEPT !.pc = "invia", !.nota = n, !.dovuti = dovuti[n]]
  <2>2. a \in Request /\ a.file = {} /\ a.pc = "invia" /\ a.nota = n /\ a.dovuti = dovuti[n]
    BY DEF Request, Phases
  <2>3. req' = [req EXCEPT ![r] = a] /\ stato[n] \in Modificabile
        /\ UNCHANGED <<lifeVars, dataVars, allegato, stored>>
    BY <1>3 DEF InviaLeggi
  <2> HIDE DEF a
  <2>4. PICK q \in Request : q = a
    BY <2>2
  <2>5. Conosce(q)' /\ Attuale(q)'
    BY <2>2, <2>3, <2>4 DEF Conosce, Attuale, Modificabile, lifeVars, dataVars
  <2>6. QED
    BY <2>2, <2>3, <2>4, <2>5 DEF Iniziata
<1>4. CASE \E u \in Users, esito \in {"approvata", "respinta"} : DecidiLeggi(r, u, n, esito)
  <2>1. PICK u \in Users, esito \in {"approvata", "respinta"} : DecidiLeggi(r, u, n, esito)
    BY <1>4
  <2> DEFINE a == [Idle EXCEPT !.pc = "decidi", !.nota = n, !.user = u, !.esito = esito]
  <2>2. a \in Request /\ a.file = {} /\ a.pc = "decidi" /\ a.nota = n /\ a.user = u
    BY DEF Request, Phases
  <2>3. /\ req' = [req EXCEPT ![r] = a] /\ stato[n] # "assente" /\ u # autore[n]
        /\ UNCHANGED <<lifeVars, dataVars, allegato, stored>>
    BY <2>1 DEF DecidiLeggi
  <2> HIDE DEF a
  <2>4. PICK q \in Request : q = a
    BY <2>2
  <2>5. Conosce(q)' /\ Attuale(q)'
    BY <2>2, <2>3, <2>4 DEF Conosce, Attuale, Modificabile, lifeVars, dataVars
  <2>6. QED
    BY <2>2, <2>3, <2>4, <2>5 DEF Iniziata
<1>5. CASE \E t \in Tipi : CaricaLeggi(r, n, t)
  <2>1. PICK t \in Tipi : CaricaLeggi(r, n, t)
    BY <1>5
  <2> DEFINE a == [Idle EXCEPT !.pc = "carica", !.nota = n, !.tipo = t]
  <2>2. a \in Request /\ a.file = {} /\ a.pc = "carica" /\ a.nota = n /\ a.tipo = t
    BY DEF Request, Phases
  <2>3. req' = [req EXCEPT ![r] = a] /\ stato[n] \in Modificabile
        /\ UNCHANGED <<lifeVars, dataVars, allegato, stored>>
    BY <2>1 DEF CaricaLeggi
  <2> HIDE DEF a
  <2>4. PICK q \in Request : q = a
    BY <2>2
  <2>5. Conosce(q)' /\ Attuale(q)'
    BY <2>2, <2>3, <2>4 DEF Conosce, Attuale, Modificabile, lifeVars, dataVars
  <2>6. QED
    BY <2>2, <2>3, <2>4, <2>5 DEF Iniziata
<1>6. ASSUME NEW pc \in {"elimina", "togli"}, Begin(r, pc, n),
             IF pc = "elimina" THEN stato[n] = "bozza" ELSE stato[n] \in Modificabile
      PROVE  Iniziata(r)
  <2> DEFINE a == [Idle EXCEPT !.pc = pc, !.nota = n]
  <2>2. a \in Request /\ a.file = {} /\ a.pc = pc /\ a.nota = n
    BY DEF Request, Phases
  <2>3. req' = [req EXCEPT ![r] = a] /\ UNCHANGED <<lifeVars, dataVars, allegato, stored>>
    BY <1>6 DEF Begin
  <2> HIDE DEF a
  <2>4. PICK q \in Request : q = a
    BY <2>2
  <2>5. Conosce(q)' /\ Attuale(q)'
    BY <1>6, <2>2, <2>3, <2>4 DEF Conosce, Attuale, Modificabile, lifeVars, dataVars
  <2>6. QED
    BY <2>2, <2>3, <2>4, <2>5 DEF Iniziata
<1>7. QED
  BY <1>1, <1>2, <1>3, <1>4, <1>5, <1>6 DEF EliminaLeggi, TogliLeggi

LEMMA PassoInizia ==
  ASSUME NoteInv, [Operazione]_noteVars, NEW r \in Requests, Start(r)
  PROVE  NoteInv'
BY Inizio, Noto, SenzaFile, RichiestaLegge DEF Iniziata, lifeVars, dataVars

LEMMA PassoModifica ==
  ASSUME NoteInv, [Operazione]_noteVars, NEW r \in Requests, ModificaScrivi(r)
  PROVE  NoteInv'
<1>1. ASSUME NEW p \in Patch, NEW c \in Commessa PROVE Applied(p, c) \in Commessa
  BY DEF Patch, Commessa, Applied
<1>2. req[r].patch \in Patch /\ (Esiste(req[r].nota) => req[r].nota \in Note)
  BY Noto DEF ModificaScrivi, Request, Conosce
<1>3. dovuti' \in [Note -> SUBSET Tipi] /\ commessa' \in [Note -> Commessa]
  <2>1. CASE Esiste(req[r].nota)
    <3>1. req[r].patch.dovuti \in SUBSET Tipi
      BY <1>2 DEF Patch
    <3>2. Applied(req[r].patch, commessa[req[r].nota]) \in Commessa
      BY <1>1, <1>2, <2>1, Noto
    <3>3. QED
      BY <1>2, <2>1, <3>1, <3>2, Noto DEF ModificaScrivi
  <2>2. CASE ~Esiste(req[r].nota)
    BY <2>2, Noto DEF ModificaScrivi, dataVars
  <2>3. QED
    BY <2>1, <2>2
<1>4. QED
  BY <1>3, Noto, PassoRisponde DEF ModificaScrivi, lifeVars

\* A request that only moves on: it keeps its note and its files, or fewer.
LEMMA PassoAvanza ==
  ASSUME NoteInv, [Operazione]_noteVars, NEW r \in Requests, NEW q \in Request,
         req' = [req EXCEPT ![r] = q], q.file \subseteq req[r].file, Conosce(q)',
         UNCHANGED <<stato, dataVars, allegato>>, stored' \in SUBSET Files,
         q.pc \in {"caricato", "orfano"} => req[r].pc \in {"caricato", "orfano"},
         \A s \in Requests : s # r => ~Conflitto(q, req[s])
  PROVE  NoteInv'
<1>1. ASSUME NEW s \in Requests, s # r
      PROVE  ~Conteso(q, req[s]) /\ ~Conteso(req[s], q)
  BY <1>1 DEF NoteInv, Conteso
<1>2. QED
  BY <1>1, Noto, RichiestaLegge DEF dataVars

LEMMA PassoInvia ==
  ASSUME NoteInv, [Operazione]_noteVars, NEW r \in Requests, InviaControlla(r) \/ InviaScrivi(r)
  PROVE  NoteInv'
<1>1. CASE InviaControlla(r) /\ Answer(r)
  BY <1>1, Noto, PassoRisponde DEF InviaControlla, lifeVars, dataVars
<1>2. CASE InviaControlla(r) /\ ~Answer(r)
  <2> DEFINE a == [req[r] EXCEPT !.pc = "inviabile"]
  <2>1. /\ a \in Request /\ a.pc = "inviabile" /\ a.nota = req[r].nota
        /\ a.file = req[r].file
    BY Noto DEF Request, Phases
  <2>2. PICK q \in Request : q = a
    BY <2>1
  <2>3. /\ req' = [req EXCEPT ![r] = q] /\ req[r].pc = "invia"
        /\ UNCHANGED <<lifeVars, dataVars, allegato, stored>>
    BY <1>2, <2>2, Noto DEF InviaControlla, Answer
  <2> HIDE DEF a
  <2>4. Conosce(q)'
    BY <2>1, <2>2, <2>3, Noto DEF Conosce, lifeVars
  <2>5. QED
    BY <2>1, <2>2, <2>3, <2>4, Noto, PassoAvanza DEF Conflitto, lifeVars
<1>3. CASE InviaScrivi(r)
  <2>1. PICK q \in Request : q = Idle
    BY IdleOk
  <2>2. /\ q.file = {} /\ q.pc = "idle" /\ Conosce(q)' /\ req' = [req EXCEPT ![r] = q]
        /\ UNCHANGED <<dataVars, allegato, stored>>
    BY <1>3, <2>1, IdleOk DEF InviaScrivi, Answer, Conosce
  <2>3. \A n \in Note : stato'[n] \in {stato[n], "inviata"}
    BY <1>3, Noto DEF InviaScrivi, lifeVars
  <2>4. \A s \in Requests : req[s].pc = "cancella" =>
            stato'[req[s].nota] \notin {"assente", "eliminata"}
    BY <2>3, Noto DEF Conosce, Esiste
  <2>5. ChiaviUniche'
    BY <2>2 DEF NoteInv, ChiaviUniche
  <2>6. QED
    BY <2>2, <2>4, <2>5, Noto, SenzaFile, RichiestaMuove DEF dataVars
<1>4. QED
  BY <1>1, <1>2, <1>3

LEMMA PassoDecidi ==
  ASSUME NoteInv, [Operazione]_noteVars, NEW r \in Requests, DecidiScrivi(r)
  PROVE  NoteInv'
<1>1. PICK q \in Request : q = Idle
  BY IdleOk
<1>2. /\ q.file = {} /\ q.pc = "idle" /\ Conosce(q)' /\ req' = [req EXCEPT ![r] = q]
      /\ UNCHANGED <<dataVars, allegato, stored>>
  BY <1>1, IdleOk DEF DecidiScrivi, Answer, Conosce
<1>3. req[r].esito \in {"approvata", "respinta"}
  BY Noto DEF Request
<1>4. \A n \in Note : stato'[n] \in {stato[n], "approvata", "respinta"}
  BY <1>3, Noto DEF DecidiScrivi, lifeVars
<1>5. \A s \in Requests : req[s].pc = "cancella" =>
          stato'[req[s].nota] \notin {"assente", "eliminata"}
  BY <1>4, Noto DEF Conosce, Esiste
<1>6. ChiaviUniche'
  BY <1>2 DEF NoteInv, ChiaviUniche
<1>7. QED
  BY <1>2, <1>5, <1>6, Noto, SenzaFile, RichiestaMuove DEF dataVars

\* The keys listed are those of the note: no row of another note has them.
LEMMA PassoElenca ==
  ASSUME NoteInv, [Operazione]_noteVars, NEW r \in Requests, EliminaElenca(r)
  PROVE  NoteInv'
<1> DEFINE a == [req[r] EXCEPT !.pc = "elencata", !.file = FilesOf(req[r].nota)]
<1>1. req[r].nota \in Note /\ stato[req[r].nota] # "assente"
  BY Noto DEF EliminaElenca, Conosce
<1>2. FilesOf(req[r].nota) \in SUBSET Files
  BY <1>1, Noto DEF FilesOf, Presenti
<1>3. /\ a \in Request /\ a.pc = "elencata" /\ a.nota = req[r].nota
      /\ a.file = FilesOf(req[r].nota)
  BY <1>2, Noto DEF Request, Phases
<1>4. PICK q \in Request : q = a
  BY <1>3
<1>5. req' = [req EXCEPT ![r] = q] /\ UNCHANGED <<lifeVars, dataVars, allegato, stored>>
  BY <1>4, Noto DEF EliminaElenca
<1> HIDE DEF a
<1>6. Conosce(q)'
  <2>1. DellaNota(q)'
    BY <1>1, <1>3, <1>4, <1>5 DEF DellaNota, FilesOf, Presenti, NoteInv, ChiaviUniche
  <2>2. QED
    BY <1>1, <1>3, <1>4, <1>5, <2>1 DEF Conosce, lifeVars
<1>7. ASSUME NEW s \in Requests, s # r
      PROVE  ~Conflitto(q, req[s]) /\ ~Conteso(q, req[s]) /\ ~Conteso(req[s], q)
  <2>1. Conosce(req[s])
    BY Noto
  <2>2. QED
    BY <1>1, <1>3, <1>4, <2>1 DEF Conflitto, Conteso, Conosce, DiNessuno, FilesOf, Presenti
<1>8. QED
  BY <1>5, <1>6, <1>7, Noto, RichiestaLegge DEF lifeVars, dataVars

\* The row is locked: nobody else has it, nor one of its attachments.
LEMMA PassoBlocca ==
  ASSUME NoteInv, [Operazione]_noteVars, NEW r \in Requests, EliminaRiga(r)
  PROVE  NoteInv'
<1>1. CASE ~Esiste(req[r].nota)
  BY <1>1, Noto, PassoRisponde DEF EliminaRiga, Answer, lifeVars, dataVars
<1>2. CASE Esiste(req[r].nota)
  <2> DEFINE a == [req[r] EXCEPT !.pc = "cancella"]
  <2>1. a \in Request /\ a.pc = "cancella" /\ a.nota = req[r].nota /\ a.file = req[r].file
    BY Noto DEF Request, Phases
  <2>2. PICK q \in Request : q = a
    BY <2>1
  <2>3. /\ req' = [req EXCEPT ![r] = q] /\ req[r].pc = "elencata"
        /\ UNCHANGED <<lifeVars, dataVars, allegato, stored>>
    BY <1>2, <2>2, Noto DEF EliminaRiga
  <2> HIDE DEF a
  <2>4. Conosce(q)'
    BY <1>2, <2>1, <2>2, <2>3, Noto DEF Conosce, DellaNota, Esiste, lifeVars
  <2>5. ASSUME NEW s \in Requests, s # r PROVE ~Conflitto(q, req[s])
    BY <2>1, <2>2, Noto DEF EliminaRiga, Blocca, RigaLocked, NotaLocked, Conflitto, Conosce
  <2>6. QED
    BY <2>1, <2>2, <2>3, <2>4, <2>5, Noto, PassoAvanza DEF lifeVars
<1>3. QED
  BY <1>1, <1>2

LEMMA PassoFile ==
  ASSUME NoteInv, [Operazione]_noteVars, NEW r \in Requests, EliminaFile(r)
  PROVE  NoteInv'
<1>1. PICK f \in req[r].file :
         stored' = stored \ {f} /\ req' = [req EXCEPT ![r].file = @ \ {f}]
  BY DEF EliminaFile
<1> DEFINE a == [req[r] EXCEPT !.file = @ \ {f}]
<1>2. /\ a \in Request /\ a.pc = "cancella" /\ a.nota = req[r].nota /\ a.file \subseteq req[r].file
  BY Noto DEF Request, EliminaFile
<1>3. PICK q \in Request : q = a
  BY <1>2
<1>4. /\ req' = [req EXCEPT ![r] = q] /\ req[r].pc = "cancella" /\ stored' \in SUBSET Files
      /\ UNCHANGED <<lifeVars, dataVars, allegato>>
  BY <1>1, <1>3, Noto DEF EliminaFile
<1> HIDE DEF a
<1>5. Conosce(q)'
  BY <1>2, <1>3, <1>4, Noto DEF Conosce, DellaNota, Esiste, lifeVars
<1>6. ASSUME NEW s \in Requests, s # r PROVE ~Conflitto(q, req[s])
  BY <1>2, <1>3, <1>4, <1>6 DEF Conflitto, NoteInv
<1>7. QED
  BY <1>2, <1>3, <1>4, <1>5, <1>6, PassoAvanza DEF lifeVars

\* The note goes, and its rows; a lock held by others is on another note.
LEMMA PassoElimina ==
  ASSUME NoteInv, [Operazione]_noteVars, NEW r \in Requests, EliminaCommit(r)
  PROVE  NoteInv'
<1>1. PICK q \in Request : q = Idle
  BY IdleOk
<1>2. /\ q.file = {} /\ q.pc = "idle" /\ Conosce(q)' /\ req' = [req EXCEPT ![r] = q]
      /\ UNCHANGED <<dataVars, stored>>
  BY <1>1, IdleOk DEF EliminaCommit, Answer, Conosce
<1>3. /\ allegato' = [allegato EXCEPT ![req[r].nota] = [t \in Tipi |-> Nessuno]]
      /\ stato' = [stato EXCEPT ![req[r].nota] = "eliminata"]
      /\ req[r].pc = "cancella" /\ req[r].nota \in Note
  BY Noto DEF EliminaCommit, Conosce
<1>4. ASSUME NEW s \in Requests, s # r, req[s].pc = "cancella"
      PROVE  stato'[req[s].nota] \notin {"assente", "eliminata"}
  BY <1>3, <1>4, Noto DEF NoteInv, Conflitto, Conosce, Esiste
<1>5. allegato' \in [Note -> [Tipi -> Files \cup {Nessuno}]]
  BY <1>3, Noto
<1>6. \A n \in Note, t \in Tipi : allegato'[n][t] \in {allegato[n][t], Nessuno}
  BY <1>3, Noto
<1>7. ChiaviUniche'
  BY <1>6 DEF NoteInv, ChiaviUniche
<1>8. \A s \in Requests, n \in Note, t \in Tipi :
          allegato'[n][t] \in req[s].file => allegato[n][t] \in req[s].file
  BY <1>6, NessunoSenzaFile
<1>9. QED
  BY <1>2, <1>4, <1>5, <1>7, <1>8, Noto, SenzaFile, RichiestaMuove DEF dataVars

\* The key is fresh: it is in no row and in nobody's hands.
LEMMA PassoPut ==
  ASSUME NoteInv, [Operazione]_noteVars, NEW r \in Requests, CaricaPut(r)
  PROVE  NoteInv'
<1>1. PICK f \in Files \ (stored \cup Referenced \cup Handled) :
         stored' = stored \cup {f} /\ req' = [req EXCEPT ![r].pc = "caricato", ![r].file = {f}]
  BY DEF CaricaPut
<1> DEFINE a == [req[r] EXCEPT !.pc = "caricato", !.file = {f}]
<1>2. /\ a \in Request /\ a.pc = "caricato" /\ a.nota = req[r].nota /\ a.tipo = req[r].tipo
      /\ a.file = {f}
  BY <1>1, Noto DEF Request, Phases
<1>3. PICK q \in Request : q = a
  BY <1>2
<1>4. /\ req' = [req EXCEPT ![r] = q] /\ req[r].pc = "carica" /\ stored' \in SUBSET Files
      /\ UNCHANGED <<lifeVars, dataVars, allegato>>
  BY <1>1, <1>3, Noto DEF CaricaPut
<1> HIDE DEF a
<1>5. /\ \A n \in Note, t \in Tipi : allegato[n][t] # f
      /\ \A s \in Requests : f \notin req[s].file
  BY <1>1, Noto, NessunoAssumption DEF Referenced, Handled, FilesOf, Presenti
<1>6. Conosce(q)'
  BY <1>2, <1>3, <1>4, <1>5, Noto DEF Conosce, DiNessuno, lifeVars
<1>7. ASSUME NEW s \in Requests
      PROVE  ~Conflitto(q, req[s]) /\ ~Conteso(q, req[s]) /\ ~Conteso(req[s], q)
  BY <1>2, <1>3, <1>5 DEF Conflitto, Conteso
<1>8. QED
  BY <1>4, <1>6, <1>7, Noto, RichiestaLegge DEF lifeVars, dataVars

\* The row takes the key, or the insert fails and the file has to go again.
LEMMA PassoRiga ==
  ASSUME NoteInv, [Operazione]_noteVars, NEW r \in Requests, CaricaRiga(r)
  PROVE  NoteInv'
<1>1. /\ req[r].pc = "caricato" /\ req[r].nota \in Note /\ req[r].tipo \in Tipi
      /\ DiNessuno(req[r])
      /\ UNCHANGED <<lifeVars, dataVars, stored>>
  BY Noto DEF CaricaRiga, Conosce
<1>2. CASE Esiste(req[r].nota) /\ req[r].tipo \notin Presenti(req[r].nota)
  <2>1. PICK f \in req[r].file : allegato' = [allegato EXCEPT ![req[r].nota][req[r].tipo] = f]
    BY <1>2 DEF CaricaRiga
  <2>2. PICK q \in Request : q = Idle
    BY IdleOk
  <2>3. q.file = {} /\ q.pc = "idle" /\ Conosce(q)' /\ req' = [req EXCEPT ![r] = q]
    BY <1>2, <2>2, IdleOk DEF CaricaRiga, Answer, Conosce
  <2>4. f \in Files
    BY <2>1, Noto DEF Request
  <2>5. allegato' \in [Note -> [Tipi -> Files \cup {Nessuno}]]
    BY <1>1, <2>1, <2>4, Noto
  <2>6. \A n \in Note, t \in Tipi :
            allegato'[n][t] = IF n = req[r].nota /\ t = req[r].tipo THEN f ELSE allegato[n][t]
    BY <1>1, <2>1, Noto
  <2>7. ChiaviUniche'
    BY <1>1, <2>1, <2>6 DEF NoteInv, ChiaviUniche, DiNessuno
  <2>8. ASSUME NEW s \in Requests, s # r
        PROVE  \A n \in Note, t \in Tipi :
                  allegato'[n][t] \in req[s].file => allegato[n][t] \in req[s].file
    <3>1. f \notin req[s].file
      BY <1>1, <2>1, <2>8 DEF NoteInv, Conteso
    <3>2. QED
      BY <2>6, <3>1
  <2>9. \A s \in Requests : req[s].pc = "cancella" =>
            stato'[req[s].nota] \notin {"assente", "eliminata"}
    BY <1>1, Noto DEF Conosce, Esiste, lifeVars
  <2>10. QED
    BY <1>1, <2>3, <2>5, <2>7, <2>8, <2>9, Noto, SenzaFile, RichiestaMuove DEF dataVars
<1>3. CASE ~(Esiste(req[r].nota) /\ req[r].tipo \notin Presenti(req[r].nota))
  <2> DEFINE a == [req[r] EXCEPT !.pc = "orfano"]
  <2>1. /\ a \in Request /\ a.pc = "orfano" /\ a.nota = req[r].nota /\ a.tipo = req[r].tipo
        /\ a.file = req[r].file
    BY Noto DEF Request, Phases
  <2>2. PICK q \in Request : q = a
    BY <2>1
  <2>3. req' = [req EXCEPT ![r] = q] /\ UNCHANGED allegato
    BY <1>3, <2>2, Noto DEF CaricaRiga
  <2> HIDE DEF a
  <2>4. Conosce(q)'
    BY <1>1, <2>1, <2>2, <2>3, Noto DEF Conosce, DiNessuno, lifeVars
  <2>5. QED
    BY <1>1, <2>1, <2>2, <2>3, <2>4, Noto, PassoAvanza DEF Conflitto, lifeVars
<1>4. QED
  BY <1>2, <1>3

LEMMA PassoTrova ==
  ASSUME NoteInv, [Operazione]_noteVars, NEW r \in Requests, TogliTrova(r)
  PROVE  NoteInv'
<1>1. CASE Answer(r)
  BY <1>1, Noto, PassoRisponde DEF TogliTrova, lifeVars, dataVars
<1>2. CASE ~Answer(r)
  <2>1. PICK t \in Presenti(req[r].nota) :
           req' = [req EXCEPT ![r].pc = "trovato", ![r].tipo = t,
                              ![r].file = {allegato[req[r].nota][t]}]
    BY <1>2 DEF TogliTrova
  <2>2. /\ req[r].nota \in Note /\ t \in Tipi /\ allegato[req[r].nota][t] # Nessuno
        /\ allegato[req[r].nota][t] \in Files /\ stato[req[r].nota] # "assente"
    BY <2>1, Noto DEF TogliTrova, Conosce, Presenti
  <2> DEFINE a == [req[r] EXCEPT !.pc = "trovato", !.tipo = t,
                                 !.file = {allegato[req[r].nota][t]}]
  <2>3. /\ a \in Request /\ a.pc = "trovato" /\ a.nota = req[r].nota /\ a.tipo = t
        /\ a.file = {allegato[req[r].nota][t]}
    BY <2>2, Noto DEF Request, Phases
  <2>4. PICK q \in Request : q = a
    BY <2>3
  <2>5. req' = [req EXCEPT ![r] = q] /\ UNCHANGED <<lifeVars, dataVars, allegato, stored>>
    BY <2>1, <2>4, Noto DEF TogliTrova
  <2> HIDE DEF a
  <2>6. Conosce(q)'
    <3>1. DellaRiga(q)'
      BY <2>2, <2>3, <2>4, <2>5 DEF DellaRiga, NoteInv, ChiaviUniche
    <3>2. QED
      BY <2>2, <2>3, <2>4, <2>5, <3>1 DEF Conosce, lifeVars
  <2>7. ASSUME NEW s \in Requests, s # r
        PROVE  ~Conflitto(q, req[s]) /\ ~Conteso(q, req[s]) /\ ~Conteso(req[s], q)
    <3>1. Conosce(req[s])
      BY Noto
    <3>2. QED
      BY <2>2, <2>3, <2>4, <3>1 DEF Conflitto, Conteso, Conosce, DiNessuno
  <2>8. QED
    BY <2>5, <2>6, <2>7, Noto, RichiestaLegge DEF lifeVars, dataVars
<1>3. QED
  BY <1>1, <1>2

LEMMA PassoTogli ==
  ASSUME NoteInv, [Operazione]_noteVars, NEW r \in Requests, TogliFile(r)
  PROVE  NoteInv'
<1>1. CASE Answer(r)
  <2>1. stored' \in SUBSET Files
    BY Noto DEF TogliFile
  <2>2. QED
    BY <1>1, <2>1, Noto, PassoRisponde DEF TogliFile, lifeVars, dataVars
<1>2. CASE ~Answer(r)
  <2> DEFINE a == [req[r] EXCEPT !.pc = "tolto"]
  <2>1. /\ a \in Request /\ a.pc = "tolto" /\ a.nota = req[r].nota /\ a.tipo = req[r].tipo
        /\ a.file = req[r].file
    BY Noto DEF Request, Phases
  <2>2. PICK q \in Request : q = a
    BY <2>1
  <2>3. /\ req' = [req EXCEPT ![r] = q] /\ req[r].pc = "trovato" /\ stored' \in SUBSET Files
        /\ UNCHANGED <<lifeVars, dataVars, allegato>>
    BY <1>2, <2>2, Noto DEF TogliFile
  <2> HIDE DEF a
  <2>4. Conosce(q)'
    BY <2>1, <2>2, <2>3, Noto DEF Conosce, DellaRiga, lifeVars
  <2>5. ASSUME NEW s \in Requests, s # r PROVE ~Conflitto(q, req[s])
    BY <2>1, <2>2, Noto DEF TogliFile, Blocca, RigaLocked, NotaLocked, Conflitto
  <2>6. QED
    BY <2>1, <2>2, <2>3, <2>4, <2>5, PassoAvanza DEF lifeVars
<1>3. QED
  BY <1>1, <1>2

LEMMA PassoTolto ==
  ASSUME NoteInv, [Operazione]_noteVars, NEW r \in Requests, TogliCommit(r)
  PROVE  NoteInv'
<1>1. PICK q \in Request : q = Idle
  BY IdleOk
<1>2. /\ q.file = {} /\ q.pc = "idle" /\ Conosce(q)' /\ req' = [req EXCEPT ![r] = q]
      /\ UNCHANGED <<lifeVars, dataVars, stored>>
  BY <1>1, IdleOk DEF TogliCommit, Answer, Conosce
<1>3. \A n \in Note, t \in Tipi : allegato'[n][t] \in {allegato[n][t], Nessuno}
  BY Noto DEF TogliCommit
<1>4. allegato' \in [Note -> [Tipi -> Files \cup {Nessuno}]]
  BY Noto DEF TogliCommit
<1>5. ChiaviUniche'
  BY <1>3 DEF NoteInv, ChiaviUniche
<1>6. \A s \in Requests, n \in Note, t \in Tipi :
          allegato'[n][t] \in req[s].file => allegato[n][t] \in req[s].file
  BY <1>3, NessunoSenzaFile
<1>7. \A s \in Requests : req[s].pc = "cancella" =>
          stato'[req[s].nota] \notin {"assente", "eliminata"}
  BY <1>2, Noto DEF Conosce, Esiste, lifeVars
<1>8. QED
  BY <1>2, <1>4, <1>5, <1>6, <1>7, Noto, SenzaFile, RichiestaMuove DEF dataVars

-----------------------------------------------------------------------------

LEMMA InitVale == Init => NoteInv
<1> SUFFICES ASSUME Init PROVE NoteInv
  OBVIOUS
<1>1. \A r \in Requests : req[r] = Idle
  BY DEF Init
<1>2. Interna \in Commessa
  BY DEF Interna, Commessa
<1>3. TypeOK
  BY <1>2, IdleOk DEF Init, TypeOK, Stati
<1>4. VitaInv
  BY DEF Init, VitaInv, DecisioneCoerente, Esiste
<1>5. ChiaviUniche
  BY DEF Init, ChiaviUniche
<1>6. QED
  BY <1>1, <1>3, <1>4, <1>5, IdleOk DEF NoteInv, Conosce, Conflitto, Conteso

LEMMA PassoRisolve ==
  ASSUME NoteInv, [Operazione]_noteVars, NEW r \in Requests, CaricaPulisci(r) \/ Fault(r)
  PROVE  NoteInv'
BY Noto, PassoRisponde DEF CaricaPulisci, Fault, lifeVars, dataVars

LEMMA Passo == NoteInv /\ [Operazione]_noteVars => NoteInv'
<1> SUFFICES ASSUME NoteInv, [Operazione]_noteVars PROVE NoteInv'
  OBVIOUS
<1>1. CASE UNCHANGED noteVars
  BY <1>1 DEF noteVars, lifeVars, dataVars, NoteInv, TypeOK, VitaInv, DecisioneCoerente, Esiste,
     Conosce, DiNessuno, DellaNota, DellaRiga, Conflitto, Conteso, ChiaviUniche
<1>2. CASE \E u \in Users, n \in Note, d \in SUBSET Tipi, c \in Commessa : Crea(u, n, d, c)
  BY <1>2, PassoCrea
<1>3. ASSUME NEW r \in Requests, Proceed(r) PROVE NoteInv'
  BY <1>3, PassoModifica, PassoInvia, PassoDecidi, PassoElenca, PassoBlocca, PassoFile,
     PassoElimina, PassoPut, PassoRiga, PassoRisolve, PassoTrova, PassoTogli, PassoTolto
     DEF Proceed
<1>4. QED
  BY <1>1, <1>2, <1>3, PassoInizia, PassoRisolve DEF Operazione

\* A step of the specification is an operation, or changes nothing but the history.
LEMMA PassoNoto == [Next]_vars => [Operazione]_noteVars
  BY DEF Next, vars

\* The invariant of the notes, whoever races with whom and whatever stops:
\* types, the decision fields, one row per key, one holder per lock.
THEOREM InvarianteDelleNote == Spec => []NoteInv
  BY InitVale, Passo, PassoNoto, PTL DEF Spec

\* The decision fields agree with the state (invia, decidi): who decided is
\* set exactly on decided notes and is not the author.
THEOREM DecisioniCoerenti == Spec => []DecisioneCoerente
<1>1. NoteInv => DecisioneCoerente
  BY DEF NoteInv, VitaInv
<1>2. QED
  BY <1>1, InvarianteDelleNote, PTL

\* The service implements the life of a note as its readers know it.
THEOREM ServizioSegueLaVita == Spec => LifecycleSpec
<1>1. Init => Life!LifeInit
  BY DEF Init, Life!LifeInit
<1>2. NoteInv /\ [Operazione]_noteVars => [Life!LifeNext]_(Life!lifeVars)
  BY PassoDiVita DEF lifeVars, Life!lifeVars
<1>3. QED
  BY <1>1, <1>2, PassoNoto, InvarianteDelleNote, PTL DEF Spec, LifecycleSpec, Life!LifeSpec

-----------------------------------------------------------------------------
(* Rows and files.                                                         *)

InRiga(f) == \E n \in Note, t \in Tipi : allegato[n][t] = f

\* Rows that can be downloaded still can, or are locked.
RestanoScaricabili == \A n \in Note, t \in Tipi : Scaricabile(n, t) => Scaricabile(n, t)'

\* A step that takes no file, gives no lock back and stores no file of a row.
LEMMA FileResta ==
  ASSUME NoteInv, FileInv, NEW r \in Requests, UNCHANGED allegato, stored \subseteq stored',
         \A f \in stored' \ stored : ~InRiga(f),
         \A s \in Requests : s # r => req'[s] = req[s],
         req[r].pc \notin {"cancella", "tolto"}, req'[r].pc # "tolto",
         req'[r].pc = "caricato" => \E f \in stored' : req'[r].file = {f}
  PROVE  FileInv' /\ RestanoScaricabili
<1>1. ASSUME NEW n \in Note, NEW t \in Tipi, RigaLocked(n, t) PROVE RigaLocked(n, t)'
  BY <1>1 DEF RigaLocked, Blocca
<1>2. RestanoScaricabili
  BY <1>1 DEF RestanoScaricabili, Scaricabile, Presenti
<1>3. ASSUME NEW s \in Requests, req'[s].pc = "tolto"
      PROVE  allegato'[req'[s].nota][req'[s].tipo] \notin stored'
  <2>1. s # r /\ req'[s] = req[s]
    BY <1>3
  <2>2. allegato[req[s].nota][req[s].tipo] \notin stored
    BY <1>3, <2>1 DEF FileInv
  <2>3. req[s].nota \in Note /\ req[s].tipo \in Tipi
    BY <1>3, <2>1, Noto DEF Conosce
  <2>4. QED
    BY <2>1, <2>2, <2>3 DEF InRiga
<1>4. ASSUME NEW s \in Requests, req'[s].pc = "caricato"
      PROVE  \E f \in stored' : req'[s].file = {f}
  BY <1>4 DEF FileInv
<1>5. QED
  BY <1>2, <1>3, <1>4 DEF FileInv

\* A step that takes files of rows which it keeps locked.
LEMMA FileTolti ==
  ASSUME NoteInv, FileInv, NEW r \in Requests, NEW T \in SUBSET req[r].file,
         UNCHANGED allegato, stored' = stored \ T,
         \A s \in Requests : s # r => req'[s] = req[s],
         req'[r].nota = req[r].nota, req'[r].tipo = req[r].tipo,
         \/ req[r].pc = "cancella" /\ req'[r].pc = "cancella"
         \/ /\ req[r].pc = "trovato" /\ req'[r].pc = "tolto"
            /\ allegato[req[r].nota][req[r].tipo] \in T
  PROVE  FileInv' /\ RestanoScaricabili
<1>1. Conosce(req[r])
  BY Noto
<1>2. ASSUME NEW n \in Note, NEW t \in Tipi, allegato[n][t] \in T
      PROVE  RigaLocked(n, t)'
  BY <1>1, <1>2 DEF Conosce, DellaNota, DellaRiga, RigaLocked, Blocca
<1>3. ASSUME NEW n \in Note, NEW t \in Tipi, RigaLocked(n, t) PROVE RigaLocked(n, t)'
  BY <1>3 DEF RigaLocked, Blocca
<1>4. ASSUME NEW s \in Requests, req'[s].pc = "caricato"
      PROVE  \E f \in stored' : req'[s].file = {f}
  <2>1. s # r /\ req[s].pc = "caricato" /\ req'[s] = req[s]
    BY <1>4
  <2>2. PICK f \in stored : req[s].file = {f}
    BY <2>1 DEF FileInv
  <2>3. req[s].file \cap T = {}
    BY <2>1 DEF NoteInv, Conteso
  <2>4. QED
    BY <2>1, <2>2, <2>3
<1>5. ASSUME NEW s \in Requests, req'[s].pc = "tolto"
      PROVE  allegato'[req'[s].nota][req'[s].tipo] \notin stored'
  BY <1>5 DEF FileInv
<1>6. RestanoScaricabili
  BY <1>2, <1>3 DEF RestanoScaricabili, Scaricabile, Presenti
<1>7. QED
  BY <1>4, <1>5, <1>6 DEF FileInv

\* A request answered, or on its way, without a file, a row or a lock.
LEMMA FileFermi ==
  ASSUME NoteInv, FileInv, NEW r \in Requests,
         \/ ModificaScrivi(r) \/ InviaControlla(r) \/ InviaScrivi(r) \/ DecidiScrivi(r)
         \/ EliminaElenca(r) \/ EliminaRiga(r) \/ TogliTrova(r)
  PROVE  FileInv' /\ RestanoScaricabili
<1>1. /\ req[r].pc \notin {"cancella", "tolto"} /\ UNCHANGED <<allegato, stored>>
      /\ \A s \in Requests : s # r => req'[s] = req[s]
  BY AltriFermi DEF Proceed, ModificaScrivi, InviaControlla, InviaScrivi, DecidiScrivi,
     EliminaElenca, EliminaRiga, TogliTrova
<1>2. CASE Answer(r)
  BY <1>1, <1>2, Noto, IdleOk, FileResta DEF Answer
<1>3. CASE ~Answer(r)
  <2>1. InviaControlla(r) \/ EliminaElenca(r) \/ EliminaRiga(r) \/ TogliTrova(r)
    BY <1>3 DEF ModificaScrivi, InviaScrivi, DecidiScrivi
  <2>2. req'[r].pc \in {"inviabile", "elencata", "cancella", "trovato"}
    <3>1. CASE InviaControlla(r)
      BY <1>3, <3>1, Noto DEF InviaControlla, Answer
    <3>2. CASE EliminaElenca(r)
      BY <3>2, Noto DEF EliminaElenca
    <3>3. CASE EliminaRiga(r)
      BY <1>3, <3>3, Noto DEF EliminaRiga, Answer
    <3>4. CASE TogliTrova(r)
      <4>1. PICK t \in Presenti(req[r].nota) :
               req' = [req EXCEPT ![r].pc = "trovato", ![r].tipo = t,
                                  ![r].file = {allegato[req[r].nota][t]}]
        BY <1>3, <3>4 DEF TogliTrova
      <4>2. QED
        BY <4>1, Noto
    <3>5. QED
      BY <2>1, <3>1, <3>2, <3>3, <3>4
  <2>3. QED
    BY <1>1, <2>2, FileResta
<1>4. QED
  BY <1>2, <1>3

\* The handlers that store or take a file.
LEMMA FileScritti ==
  ASSUME NoteInv, FileInv, NEW r \in Requests,
         CaricaPut(r) \/ EliminaFile(r) \/ TogliFile(r) \/ CaricaPulisci(r)
  PROVE  FileInv' /\ RestanoScaricabili
<1>0. \A s \in Requests : s # r => req'[s] = req[s]
  BY AltriFermi DEF Proceed
<1>1. CASE CaricaPut(r)
  <2>1. PICK f \in Files \ (stored \cup Referenced \cup Handled) :
           /\ stored' = stored \cup {f}
           /\ req' = [req EXCEPT ![r].pc = "caricato", ![r].file = {f}]
    BY <1>1 DEF CaricaPut
  <2>2. ~InRiga(f)
    BY <2>1, NessunoAssumption DEF InRiga, Referenced, FilesOf, Presenti
  <2>3. PICK q : q = [req[r] EXCEPT !.pc = "caricato", !.file = {f}]
    OBVIOUS
  <2>4. q.file = {f} /\ q.pc = "caricato"
    BY <2>3, Noto DEF Request
  <2>5. req[r].pc = "carica" /\ req'[r] = q /\ UNCHANGED allegato
    BY <1>1, <2>1, <2>3, Noto DEF CaricaPut
  <2>6. QED
    BY <1>0, <2>1, <2>2, <2>4, <2>5, FileResta
<1>2. CASE EliminaFile(r)
  <2>1. PICK f \in req[r].file :
           stored' = stored \ {f} /\ req' = [req EXCEPT ![r].file = @ \ {f}]
    BY <1>2 DEF EliminaFile
  <2>2. /\ req[r].pc = "cancella" /\ req'[r].pc = "cancella"
        /\ req'[r].nota = req[r].nota /\ req'[r].tipo = req[r].tipo
        /\ UNCHANGED allegato
    BY <1>2, <2>1, Noto DEF EliminaFile, Request
  <2>3. {f} \in SUBSET req[r].file /\ stored' = stored \ {f}
    BY <2>1
  <2>4. QED
    BY <1>0, <2>2, <2>3, FileTolti
<1>3. CASE TogliFile(r)
  <2>1. CASE Answer(r) /\ UNCHANGED stored
    BY <1>0, <1>3, <2>1, Noto, IdleOk, FileResta DEF TogliFile, Answer
  <2>2. CASE ~(Answer(r) /\ UNCHANGED stored)
    <3>1. /\ req[r].pc = "trovato" /\ req' = [req EXCEPT ![r].pc = "tolto"]
          /\ stored' = stored \ req[r].file /\ UNCHANGED allegato
          /\ allegato[req[r].nota][req[r].tipo] \in req[r].file
      BY <1>3, <2>2 DEF TogliFile
    <3>2. /\ req'[r].pc = "tolto" /\ req'[r].nota = req[r].nota /\ req'[r].tipo = req[r].tipo
      BY <3>1, Noto DEF Request
    <3>3. req[r].file \in SUBSET req[r].file
      OBVIOUS
    <3>4. QED
      BY <1>0, <3>1, <3>2, <3>3, FileTolti
  <2>3. QED
    BY <2>1, <2>2
<1>4. CASE CaricaPulisci(r)
  <2>1. /\ DiNessuno(req[r]) /\ stored' = stored \ req[r].file /\ UNCHANGED allegato
        /\ req'[r].pc = "idle" /\ req[r].pc = "orfano"
    BY <1>4, Noto, IdleOk DEF CaricaPulisci, Conosce, Answer
  <2>2. ASSUME NEW n \in Note, NEW t \in Tipi, RigaLocked(n, t) PROVE RigaLocked(n, t)'
    BY <1>0, <2>1, <2>2 DEF RigaLocked, Blocca
  <2>3. RestanoScaricabili
    BY <2>1, <2>2 DEF RestanoScaricabili, Scaricabile, Presenti, DiNessuno
  <2>4. ASSUME NEW s \in Requests, req'[s].pc = "caricato"
        PROVE  \E f \in stored' : req'[s].file = {f}
    <3>1. s # r /\ req[s].pc = "caricato" /\ req'[s] = req[s]
      BY <1>0, <2>1, <2>4
    <3>2. PICK f \in stored : req[s].file = {f}
      BY <3>1 DEF FileInv
    <3>3. req[s].file \cap req[r].file = {}
      BY <3>1 DEF NoteInv, Conteso
    <3>4. QED
      BY <2>1, <3>1, <3>2, <3>3
  <2>5. ASSUME NEW s \in Requests, req'[s].pc = "tolto"
        PROVE  allegato'[req'[s].nota][req'[s].tipo] \notin stored'
    BY <1>0, <2>1, <2>5 DEF FileInv
  <2>6. QED
    BY <2>3, <2>4, <2>5 DEF FileInv
<1>5. QED
  BY <1>1, <1>2, <1>3, <1>4

\* The handlers that write a row: an upload gives it its file, a removal that
\* has the lock takes it away.
LEMMA RigheScritte ==
  ASSUME NoteInv, FileInv, NEW r \in Requests, CaricaRiga(r) \/ EliminaCommit(r) \/ TogliCommit(r)
  PROVE  FileInv' /\ RestanoScaricabili
<1>0. \A s \in Requests : s # r => req'[s] = req[s]
  BY AltriFermi DEF Proceed
<1>1. req[r].nota \in Note
  BY Noto DEF Conosce, CaricaRiga, EliminaCommit, TogliCommit
<1>2. CASE CaricaRiga(r)
  <2>1. /\ req[r].pc = "caricato" /\ UNCHANGED stored /\ req[r].tipo \in Tipi
        /\ ~RigaLocked(req[r].nota, req[r].tipo)
    BY <1>2, Noto DEF CaricaRiga, Conosce
  <2>2. PICK f \in stored : req[r].file = {f}
    BY <2>1 DEF FileInv
  <2>3. /\ \A n \in Note, t \in Tipi : n # req[r].nota \/ t # req[r].tipo =>
              allegato'[n][t] = allegato[n][t]
        /\ \A n \in Note, t \in Tipi : allegato'[n][t] \in {allegato[n][t], f}
        /\ req'[r].pc \notin {"caricato", "tolto"}
    <3>1. CASE Answer(r) /\ allegato' = [allegato EXCEPT ![req[r].nota][req[r].tipo] = f]
      BY <1>1, <2>1, <3>1, Noto, IdleOk DEF Answer
    <3>2. CASE req' = [req EXCEPT ![r].pc = "orfano"] /\ UNCHANGED allegato
      BY <3>2, Noto
    <3>3. QED
      BY <1>2, <2>2, <3>1, <3>2 DEF CaricaRiga
  <2>4. ASSUME NEW n \in Note, NEW t \in Tipi, RigaLocked(n, t) PROVE RigaLocked(n, t)'
    BY <1>0, <2>1, <2>4 DEF RigaLocked, Blocca
  <2>5. RestanoScaricabili
    BY <2>1, <2>3, <2>4 DEF RestanoScaricabili, Scaricabile, Presenti
  <2>6. ASSUME NEW s \in Requests, req'[s].pc = "tolto"
        PROVE  allegato'[req'[s].nota][req'[s].tipo] \notin stored'
    <3>1. /\ s # r /\ req'[s] = req[s] /\ req[s].nota \in Note /\ req[s].tipo \in Tipi
          /\ allegato[req[s].nota][req[s].tipo] \notin stored
      BY <1>0, <2>3, <2>6, Noto DEF FileInv, Conosce
    <3>2. req[s].nota # req[r].nota \/ req[s].tipo # req[r].tipo
      BY <2>1, <2>6, <3>1 DEF RigaLocked, Blocca
    <3>3. QED
      BY <2>1, <2>3, <3>1, <3>2
  <2>7. QED
    BY <1>0, <2>1, <2>3, <2>5, <2>6 DEF FileInv
<1>3. CASE EliminaCommit(r) \/ TogliCommit(r)
  <2>1. /\ req'[r].pc = "idle" /\ UNCHANGED stored
        /\ req[r].pc \in {"cancella", "tolto"}
    BY <1>3, Noto, IdleOk DEF EliminaCommit, TogliCommit, Answer
  <2>2. /\ \A n \in Note, t \in Tipi : allegato'[n][t] \in {allegato[n][t], Nessuno}
        /\ \A t \in Tipi : req[r].pc = "cancella" => allegato'[req[r].nota][t] = Nessuno
        /\ req[r].pc = "tolto" => allegato'[req[r].nota][req[r].tipo] = Nessuno
    <3>1. CASE EliminaCommit(r)
      BY <1>1, <3>1, Noto DEF EliminaCommit
    <3>2. CASE TogliCommit(r)
      <4>1. req[r].tipo \in Tipi /\ req[r].pc = "tolto"
        BY <3>2, Noto DEF TogliCommit, Conosce
      <4>2. QED
        BY <1>1, <3>2, <4>1, Noto DEF TogliCommit
    <3>3. QED
      BY <1>3, <3>1, <3>2
  <2>3. ASSUME NEW n \in Note, NEW t \in Tipi, RigaLocked(n, t), allegato'[n][t] # Nessuno
        PROVE  RigaLocked(n, t)'
    BY <1>0, <2>1, <2>2, <2>3 DEF RigaLocked, Blocca
  <2>4. RestanoScaricabili
    BY <2>1, <2>2, <2>3 DEF RestanoScaricabili, Scaricabile, Presenti
  <2>5. ASSUME NEW s \in Requests, req'[s].pc = "tolto"
        PROVE  allegato'[req'[s].nota][req'[s].tipo] \notin stored'
    <3>1. /\ s # r /\ req'[s] = req[s] /\ req[s].nota \in Note /\ req[s].tipo \in Tipi
          /\ allegato[req[s].nota][req[s].tipo] \notin stored
      BY <1>0, <2>1, <2>5, Noto DEF FileInv, Conosce
    <3>2. Nessuno \notin stored
      BY Noto, NessunoAssumption
    <3>3. QED
      BY <2>1, <2>2, <3>1, <3>2
  <2>6. QED
    BY <1>0, <2>1, <2>4, <2>5 DEF FileInv
<1>4. QED
  BY <1>2, <1>3

\* Only the failure of whoever has locked a row leaves it without its file.
LEMMA FilePasso ==
  ASSUME NoteInv, FileInv, [Operazione]_noteVars
  PROVE  /\ FileInv'
         /\ \A n \in Note, t \in Tipi : Scaricabile(n, t) /\ ~Scaricabile(n, t)' =>
               \E r \in Requests : Fault(r) /\ Blocca(r, n, t)
<1>1. CASE UNCHANGED noteVars
  BY <1>1 DEF noteVars, FileInv, Scaricabile, Presenti, RigaLocked, Blocca
<1>2. ASSUME NEW u \in Users, NEW n \in Note, NEW d \in SUBSET Tipi, NEW c \in Commessa,
             Crea(u, n, d, c)
      PROVE  FileInv' /\ RestanoScaricabili
  BY <1>2 DEF Crea, FileInv, RestanoScaricabili, Scaricabile, Presenti, RigaLocked, Blocca
<1>3. ASSUME NEW r \in Requests, Start(r) PROVE FileInv' /\ RestanoScaricabili
  <2>1. Iniziata(r) /\ req[r].pc = "idle"
    BY <1>3, Inizio DEF Start, Begin, ModificaLeggi, InviaLeggi, DecidiLeggi, EliminaLeggi,
       CaricaLeggi, TogliLeggi
  <2>2. req'[r].pc \notin {"caricato", "tolto"} /\ UNCHANGED <<allegato, stored>>
    BY <2>1, Noto DEF Iniziata
  <2>3. QED
    BY <1>3, <2>1, <2>2, AltriFermi, FileResta
<1>4. ASSUME NEW r \in Requests, Fault(r)
      PROVE  /\ FileInv'
             /\ \A n \in Note, t \in Tipi : Scaricabile(n, t) /\ ~Scaricabile(n, t)' =>
                   \E s \in Requests : Fault(s) /\ Blocca(s, n, t)
  <2>1. /\ \A s \in Requests : s # r => req'[s] = req[s]
        /\ req'[r].pc = "idle" /\ UNCHANGED <<allegato, stored>>
    BY <1>4, Noto, IdleOk DEF Fault, Answer
  <2>2. FileInv'
    BY <2>1 DEF FileInv
  <2>3. ASSUME NEW n \in Note, NEW t \in Tipi, Scaricabile(n, t), ~Scaricabile(n, t)'
        PROVE  Blocca(r, n, t)
    <3>1. RigaLocked(n, t) /\ ~RigaLocked(n, t)'
      BY <2>1, <2>3 DEF Scaricabile, Presenti
    <3>2. QED
      BY <2>1, <3>1 DEF RigaLocked, Blocca
  <2>4. QED
    BY <1>4, <2>2, <2>3
<1>5. ASSUME NEW r \in Requests, Proceed(r) PROVE FileInv' /\ RestanoScaricabili
  BY <1>5, FileFermi, FileScritti, RigheScritte DEF Proceed
<1>6. QED
  BY <1>1, <1>2, <1>3, <1>4, <1>5 DEF Operazione, RestanoScaricabili

LEMMA FileInOrdine == Spec => []FileInv
<1>1. Init => FileInv
  BY IdleOk DEF Init, FileInv
<1>2. NoteInv /\ FileInv /\ [Next]_vars => FileInv'
  BY FilePasso, PassoNoto
<1>3. QED
  BY <1>1, <1>2, InvarianteDelleNote, PTL DEF Spec

\* An attachment that is listed can be downloaded (remove of a note, remove of an
\* attachment), unless a request is removing it or the transaction of one that
\* was has failed: no race and no other stop takes the file from a row.
THEOREM RigheConFile == Spec => RigaHaFile
<1> DEFINE Passo1 == \A n \in Note, t \in Tipi : Scaricabile(n, t) /\ ~Scaricabile(n, t)' =>
                        \E r \in Requests : Fault(r) /\ Blocca(r, n, t)
<1>1. NoteInv /\ FileInv /\ [Next]_vars => [Passo1]_vars
  BY FilePasso, PassoNoto
<1>2. QED
  BY <1>1, InvarianteDelleNote, FileInOrdine, PTL DEF Spec, RigaHaFile
-----------------------------------------------------------------------------
(* Requests that nobody has overtaken.                                     *)

\* The rows and the data of the other notes are left alone.
LEMMA AltreNote ==
  ASSUME NoteInv, NEW r \in Requests, Proceed(r), NEW n \in Note, n # req[r].nota
  PROVE  /\ stato'[n] = stato[n] /\ dovuti'[n] = dovuti[n]
         /\ commessa'[n] = commessa[n] /\ allegato'[n] = allegato[n]
<1> USE Noto
<1>1. CASE ModificaScrivi(r)
  BY <1>1 DEF ModificaScrivi, lifeVars, dataVars
<1>2. CASE InviaScrivi(r) \/ DecidiScrivi(r)
  BY <1>2 DEF InviaScrivi, DecidiScrivi, lifeVars, dataVars
<1>3. CASE EliminaCommit(r)
  BY <1>3 DEF EliminaCommit, dataVars
<1>4. CASE CaricaRiga(r)
  BY <1>4 DEF CaricaRiga, lifeVars, dataVars
<1>5. CASE TogliCommit(r)
  BY <1>5 DEF TogliCommit, lifeVars, dataVars
<1>6. CASE UNCHANGED <<lifeVars, dataVars, allegato>>
  BY <1>6 DEF lifeVars, dataVars
<1>7. QED
  BY <1>1, <1>2, <1>3, <1>4, <1>5, <1>6 DEF Proceed, InviaControlla, EliminaElenca,
     EliminaRiga, EliminaFile, CaricaPut, CaricaPulisci, TogliTrova, TogliFile

\* A handler that goes on shows it in its request.
LEMMA ProcedeMuove ==
  ASSUME NoteInv, NEW r \in Requests, Proceed(r)
  PROVE  req[r].pc # "idle" /\ req'[r] # req[r]
<1> USE Noto
<1>1. req[r].pc # "idle"
  BY DEF Proceed, ModificaScrivi, InviaControlla, InviaScrivi, DecidiScrivi, EliminaElenca,
     EliminaRiga, EliminaFile, EliminaCommit, CaricaPut, CaricaRiga, CaricaPulisci, TogliTrova,
     TogliFile, TogliCommit
<1>2. CASE Answer(r)
  BY <1>1, <1>2, IdleOk DEF Answer
<1>3. CASE ~Answer(r)
  <2>1. CASE InviaControlla(r)
    <3>1. PICK q : q = [req[r] EXCEPT !.pc = "inviabile"]
      OBVIOUS
    <3>2. q.pc = "inviabile" /\ req'[r] = q /\ req[r].pc = "invia"
      BY <1>3, <2>1, <3>1 DEF InviaControlla, Answer, Request
    <3>3. QED
      BY <3>2
  <2>2. CASE EliminaElenca(r)
    <3>1. PICK q : q = [req[r] EXCEPT !.pc = "elencata", !.file = FilesOf(req[r].nota)]
      OBVIOUS
    <3>2. q.pc = "elencata" /\ req'[r] = q /\ req[r].pc = "elimina"
      BY <2>2, <3>1 DEF EliminaElenca, Request
    <3>3. QED
      BY <3>2
  <2>3. CASE EliminaRiga(r)
    <3>1. PICK q : q = [req[r] EXCEPT !.pc = "cancella"]
      OBVIOUS
    <3>2. q.pc = "cancella" /\ req'[r] = q /\ req[r].pc = "elencata"
      BY <1>3, <2>3, <3>1 DEF EliminaRiga, Answer, Request
    <3>3. QED
      BY <3>2
  <2>4. CASE EliminaFile(r)
    <3>1. PICK f \in req[r].file : req' = [req EXCEPT ![r].file = @ \ {f}]
      BY <2>4 DEF EliminaFile
    <3>2. PICK q : q = [req[r] EXCEPT !.file = @ \ {f}]
      OBVIOUS
    <3>3. q.file = req[r].file \ {f} /\ req'[r] = q
      BY <3>1, <3>2 DEF Request
    <3>4. QED
      BY <1>1, <3>1, <3>3
  <2>5. CASE CaricaPut(r)
    <3>1. PICK f \in Files : req' = [req EXCEPT ![r].pc = "caricato", ![r].file = {f}]
      BY <2>5 DEF CaricaPut
    <3>2. PICK q : q = [req[r] EXCEPT !.pc = "caricato", !.file = {f}]
      OBVIOUS
    <3>3. q.pc = "caricato" /\ req'[r] = q /\ req[r].pc = "carica"
      BY <2>5, <3>1, <3>2 DEF CaricaPut, Request
    <3>4. QED
      BY <3>3
  <2>6. CASE CaricaRiga(r)
    <3>1. PICK q : q = [req[r] EXCEPT !.pc = "orfano"]
      OBVIOUS
    <3>2. q.pc = "orfano" /\ req'[r] = q /\ req[r].pc = "caricato"
      BY <1>3, <2>6, <3>1 DEF CaricaRiga, Answer, Request
    <3>3. QED
      BY <3>2
  <2>7. CASE TogliTrova(r)
    <3>1. PICK t \in Presenti(req[r].nota) :
             req' = [req EXCEPT ![r].pc = "trovato", ![r].tipo = t,
                                ![r].file = {allegato[req[r].nota][t]}]
      BY <1>3, <2>7 DEF TogliTrova
    <3>2. PICK q : q = [req[r] EXCEPT !.pc = "trovato", !.tipo = t,
                                      !.file = {allegato[req[r].nota][t]}]
      OBVIOUS
    <3>3. q.pc = "trovato" /\ req'[r] = q /\ req[r].pc = "togli"
      BY <2>7, <3>1, <3>2 DEF TogliTrova, Request
    <3>4. QED
      BY <3>3
  <2>8. CASE TogliFile(r)
    <3>1. PICK q : q = [req[r] EXCEPT !.pc = "tolto"]
      OBVIOUS
    <3>2. q.pc = "tolto" /\ req'[r] = q /\ req[r].pc = "trovato"
      BY <1>3, <2>8, <3>1 DEF TogliFile, Answer, Request
    <3>3. QED
      BY <3>2
  <2>9. QED
    BY <1>3, <2>1, <2>2, <2>3, <2>4, <2>5, <2>6, <2>7, <2>8 DEF Proceed, ModificaScrivi,
       InviaScrivi, DecidiScrivi, EliminaCommit, CaricaPulisci, TogliCommit
<1>4. QED
  BY <1>1, <1>2, <1>3

\* No file of a row comes back to the storage.
LEMMA NienteRiappare ==
  ASSUME NoteInv, [Operazione]_noteVars
  PROVE  \A f \in stored' : f \in stored \/ ~InRiga(f)
<1>1. ASSUME NEW r \in Requests, CaricaPut(r)
      PROVE  \A f \in stored' : f \in stored \/ ~InRiga(f)
  <2>1. PICK f \in Files \ (stored \cup Referenced \cup Handled) : stored' = stored \cup {f}
    BY <1>1 DEF CaricaPut
  <2>2. ~InRiga(f)
    BY <2>1, NessunoAssumption DEF InRiga, Referenced, FilesOf, Presenti
  <2>3. QED
    BY <2>1, <2>2
<1>2. ASSUME NEW r \in Requests, Proceed(r), ~CaricaPut(r) PROVE stored' \subseteq stored
  BY <1>2 DEF Proceed, ModificaScrivi, InviaControlla, InviaScrivi, DecidiScrivi, EliminaElenca,
     EliminaRiga, EliminaFile, EliminaCommit, CaricaRiga, CaricaPulisci, TogliTrova, TogliFile,
     TogliCommit
<1>3. ASSUME NEW r \in Requests, Start(r) \/ Fault(r) PROVE UNCHANGED stored
  BY <1>3 DEF Start, Fault, Begin, ModificaLeggi, InviaLeggi, DecidiLeggi, EliminaLeggi,
     CaricaLeggi, TogliLeggi
<1>4. ASSUME NEW u \in Users, NEW n \in Note, NEW d \in SUBSET Tipi, NEW c \in Commessa,
             Crea(u, n, d, c)
      PROVE  UNCHANGED stored
  BY <1>4 DEF Crea
<1>5. QED
  BY <1>1, <1>2, <1>3, <1>4 DEF Operazione, noteVars

\* What a request has read stays so while nobody writes its note.
LEMMA AttualeResta ==
  ASSUME NoteInv, [Operazione]_noteVars, NEW q \in Request, q.nota \in Note,
         Attuale(q), ~Scritta(q.nota)
  PROVE  Attuale(q)'
<1>1. /\ stato'[q.nota] = stato[q.nota] /\ dovuti'[q.nota] = dovuti[q.nota]
      /\ commessa'[q.nota] = commessa[q.nota] /\ allegato'[q.nota] = allegato[q.nota]
  BY DEF Scritta
<1>2. FilesOf(q.nota)' = FilesOf(q.nota) /\ Presenti(q.nota)' = Presenti(q.nota)
  BY <1>1 DEF FilesOf, Presenti
<1>3. FilesOf(q.nota) \cap stored' \subseteq stored
  BY NienteRiappare DEF InRiga, FilesOf, Presenti
<1>4. QED
  BY <1>1, <1>2, <1>3 DEF Attuale

\* Nor when the request itself reads on.
LEMMA AttualeAvanza ==
  ASSUME NoteInv, NEW r \in Requests, Proceed(r), Attuale(req[r]),
         NEW q \in Request, q = req'[r], q.pc # "idle"
  PROVE  Attuale(q)'
<1> USE Noto
<1>1. req[r].nota \in Note /\ ~Answer(r)
  BY ProcedeMuove, IdleOk DEF Conosce, Answer
<1>2. UNCHANGED <<stato, dovuti, commessa, allegato>>
  BY <1>1 DEF Proceed, ModificaScrivi, InviaControlla, InviaScrivi, DecidiScrivi, EliminaElenca,
     EliminaRiga, EliminaFile, EliminaCommit, CaricaPut, CaricaRiga, CaricaPulisci, TogliTrova,
     TogliFile, TogliCommit, lifeVars, dataVars
<1>3. \A n \in Note : FilesOf(n)' = FilesOf(n) /\ Presenti(n)' = Presenti(n)
  BY <1>2 DEF FilesOf, Presenti
<1>4. CASE InviaControlla(r)
  <2>1. PICK a : a = [req[r] EXCEPT !.pc = "inviabile"]
    OBVIOUS
  <2>2. a.pc = "inviabile" /\ a.nota = req[r].nota /\ a.dovuti = req[r].dovuti
    BY <2>1 DEF Request
  <2>3. q = a /\ req[r].dovuti \subseteq Presenti(req[r].nota) /\ req[r].pc = "invia"
    BY <1>1, <1>4, <2>1 DEF InviaControlla, Answer
  <2>4. stato[req[r].nota] \in Modificabile /\ req[r].dovuti = dovuti[req[r].nota]
    BY <2>3 DEF Attuale
  <2>5. QED
    BY <1>1, <1>2, <1>3, <2>2, <2>3, <2>4 DEF Attuale
<1>5. CASE EliminaElenca(r)
  <2>1. PICK a : a = [req[r] EXCEPT !.pc = "elencata", !.file = FilesOf(req[r].nota)]
    OBVIOUS
  <2>2. a.pc = "elencata" /\ a.nota = req[r].nota /\ a.file = FilesOf(req[r].nota)
    BY <2>1 DEF Request
  <2>3. q = a
    BY <1>5, <2>1 DEF EliminaElenca
  <2>4. QED
    BY <1>1, <1>3, <2>2, <2>3 DEF Attuale
<1>6. CASE EliminaRiga(r)
  <2>1. PICK a : a = [req[r] EXCEPT !.pc = "cancella"]
    OBVIOUS
  <2>2. a.pc = "cancella" /\ a.nota = req[r].nota /\ a.file = req[r].file
    BY <2>1 DEF Request
  <2>3. q = a /\ req[r].pc = "elencata"
    BY <1>1, <1>6, <2>1 DEF EliminaRiga, Answer
  <2>4. req[r].file = FilesOf(req[r].nota)
    BY <2>3 DEF Attuale
  <2>5. QED
    BY <1>1, <1>3, <2>2, <2>3, <2>4 DEF Attuale
<1>7. CASE EliminaFile(r)
  <2>1. PICK f \in req[r].file :
           stored' = stored \ {f} /\ req' = [req EXCEPT ![r].file = @ \ {f}]
    BY <1>7 DEF EliminaFile
  <2>2. PICK a : a = [req[r] EXCEPT !.file = @ \ {f}]
    OBVIOUS
  <2>3. a.pc = "cancella" /\ a.nota = req[r].nota /\ a.file = req[r].file \ {f}
    BY <1>7, <2>2 DEF EliminaFile, Request
  <2>4. q = a
    BY <2>1, <2>2
  <2>5. FilesOf(req[r].nota) \cap stored \subseteq req[r].file
    BY <1>7 DEF EliminaFile, Attuale
  <2>6. QED
    BY <1>1, <1>3, <2>1, <2>3, <2>4, <2>5 DEF Attuale
<1>8. CASE CaricaPut(r) \/ CaricaRiga(r) \/ TogliTrova(r) \/ TogliFile(r)
  <2>1. stato[req[r].nota] \in Modificabile
    BY <1>8 DEF CaricaPut, CaricaRiga, TogliTrova, TogliFile, Attuale
  <2>2. q.pc \in {"caricato", "orfano", "trovato", "tolto"} /\ q.nota = req[r].nota
    <3>1. CASE CaricaPut(r)
      <4>1. PICK f \in Files : req' = [req EXCEPT ![r].pc = "caricato", ![r].file = {f}]
        BY <3>1 DEF CaricaPut
      <4>2. PICK a : a = [req[r] EXCEPT !.pc = "caricato", !.file = {f}]
        OBVIOUS
      <4>3. a.pc = "caricato" /\ a.nota = req[r].nota /\ q = a
        BY <4>1, <4>2 DEF Request
      <4>4. QED
        BY <4>3
    <3>2. CASE CaricaRiga(r)
      <4>1. PICK a : a = [req[r] EXCEPT !.pc = "orfano"]
        OBVIOUS
      <4>2. a.pc = "orfano" /\ a.nota = req[r].nota /\ q = a
        BY <1>1, <3>2, <4>1 DEF CaricaRiga, Answer, Request
      <4>3. QED
        BY <4>2
    <3>3. CASE TogliFile(r)
      <4>1. PICK a : a = [req[r] EXCEPT !.pc = "tolto"]
        OBVIOUS
      <4>2. a.pc = "tolto" /\ a.nota = req[r].nota /\ q = a
        BY <1>1, <3>3, <4>1 DEF TogliFile, Answer, Request
      <4>3. QED
        BY <4>2
    <3>4. CASE TogliTrova(r)
      <4>1. PICK t \in Presenti(req[r].nota) :
               req' = [req EXCEPT ![r].pc = "trovato", ![r].tipo = t,
                                  ![r].file = {allegato[req[r].nota][t]}]
        BY <1>1, <3>4 DEF TogliTrova
      <4>2. PICK a : a = [req[r] EXCEPT !.pc = "trovato", !.tipo = t,
                                        !.file = {allegato[req[r].nota][t]}]
        OBVIOUS
      <4>3. a.pc = "trovato" /\ a.nota = req[r].nota /\ q = a
        BY <4>1, <4>2 DEF Request
      <4>4. QED
        BY <4>3
    <3>5. QED
      BY <1>8, <3>1, <3>2, <3>3, <3>4
  <2>3. QED
    BY <1>2, <2>1, <2>2 DEF Attuale
<1>9. QED
  BY <1>1, <1>4, <1>5, <1>6, <1>7, <1>8 DEF Proceed, ModificaScrivi, InviaScrivi, DecidiScrivi,
     EliminaCommit, CaricaPulisci, TogliCommit

LEMMA AttualePasso ==
  ASSUME AttualeInv, Next
  PROVE  AttualeInv'
<1>1. NoteInv /\ NoteInv' /\ Operazione /\ Sorpasso
  BY Passo DEF AttualeInv, Next
<1>2. superati' \subseteq Requests
  BY <1>1 DEF Sorpasso
<1>3. ASSUME NEW r \in Requests, r \notin superati' PROVE Attuale(req[r])'
  <2>1. PICK q \in Request : q = req'[r]
    BY <1>1, Noto DEF NoteInv, TypeOK
  <2>2. CASE q.pc = "idle"
    BY <2>1, <2>2 DEF Attuale
  <2>3. CASE q.pc # "idle" /\ req'[r] = req[r]
    <3>1. r \notin superati /\ ~Scritta(q.nota)
      BY <1>1, <1>3, <2>1, <2>3 DEF Sorpasso
    <3>2. Attuale(q) /\ q.nota \in Note
      BY <1>1, <2>1, <2>3, <3>1, Noto DEF AttualeInv, Conosce
    <3>3. Attuale(q)'
      BY <1>1, <3>1, <3>2, AttualeResta
    <3>4. QED
      BY <2>1, <3>3 DEF Attuale, FilesOf, Presenti
  <2>4. CASE q.pc # "idle" /\ req'[r] # req[r]
    <3>1. Start(r) \/ Proceed(r)
      <4>1. ASSUME NEW s \in Requests, Start(s) \/ Proceed(s) \/ Fault(s) PROVE s = r
        BY <1>1, <2>4, <4>1, AltriFermi
      <4>2. ~Fault(r)
        BY <1>1, <2>1, <2>4, Noto, IdleOk DEF Fault, Answer
      <4>3. ~(\E u \in Users, n \in Note, d \in SUBSET Tipi, c \in Commessa : Crea(u, n, d, c))
        BY <2>4 DEF Crea
      <4>4. QED
        BY <1>1, <4>1, <4>2, <4>3 DEF Operazione
    <3>2. CASE Start(r)
      <4>1. PICK p \in Request : req' = [req EXCEPT ![r] = p] /\ Attuale(p)'
        BY <1>1, <3>2, Inizio DEF Iniziata
      <4>2. p = req'[r]
        BY <1>1, <4>1, Noto
      <4>3. QED
        BY <4>1, <4>2 DEF Attuale, FilesOf, Presenti
    <3>3. CASE Proceed(r)
      <4>1. r \notin superati
        BY <1>1, <1>3, <2>1, <2>4, <3>3, ProcedeMuove DEF Sorpasso
      <4>2. Attuale(req[r])
        BY <4>1 DEF AttualeInv
      <4>3. Attuale(q)'
        BY <1>1, <2>1, <2>4, <3>3, <4>2, AttualeAvanza
      <4>4. QED
        BY <2>1, <4>3 DEF Attuale, FilesOf, Presenti
    <3>4. QED
      BY <3>1, <3>2, <3>3
  <2>5. QED
    BY <2>2, <2>3, <2>4
<1>4. QED
  BY <1>1, <1>2, <1>3 DEF AttualeInv

\* What a handler has read is still so when it writes, unless another request
\* has overtaken it.
THEOREM LettureAttuali == Spec => []AttualeInv
<1>1. Init => AttualeInv
  <2> SUFFICES ASSUME Init PROVE AttualeInv
    OBVIOUS
  <2>1. \A r \in Requests : Attuale(req[r])
    BY IdleOk DEF Init, Attuale
  <2>2. QED
    BY <2>1, InitVale DEF AttualeInv, Init
<1>2. AttualeInv /\ [Next]_vars => AttualeInv'
  <2> SUFFICES ASSUME AttualeInv, [Next]_vars PROVE AttualeInv'
    OBVIOUS
  <2>1. CASE UNCHANGED vars
    <3>1. UNCHANGED noteVars /\ NoteInv'
      BY <2>1, Passo DEF vars, AttualeInv
    <3>2. UNCHANGED <<stato, dovuti, commessa, allegato, stored, req, superati>>
      BY <2>1 DEF vars, noteVars, lifeVars, dataVars
    <3>3. QED
      BY <3>1, <3>2 DEF AttualeInv, Attuale, FilesOf, Presenti
  <2>2. QED
    BY <2>1, AttualePasso
<1>3. QED
  BY <1>1, <1>2, PTL DEF Spec

\* What a step of a request that nobody has overtaken keeps of a note.
Mantiene(n) ==
    /\ Completa(n) => Completa(n)'
    /\ Coerente(commessa[n]) => Coerente(commessa'[n])
    /\ Ferma(n)

LEMMA NonScrittaMantiene ==
  ASSUME NEW n \in Note, ~Scritta(n)
  PROVE  Mantiene(n)
BY DEF Scritta, Mantiene, Completa, Ferma, Presenti

LEMMA CreaMantiene ==
  ASSUME NoteInv, NEW u \in Users, NEW m \in Note, NEW d \in SUBSET Tipi, NEW c \in Commessa,
         Crea(u, m, d, c), NEW n \in Note
  PROVE  Mantiene(n)
<1> USE Noto
<1>1. CASE n # m
  <2>1. ~Scritta(n)
    BY <1>1 DEF Crea, Scritta
  <2>2. QED
    BY <2>1, NonScrittaMantiene
<1>2. CASE n = m
  BY <1>2 DEF Crea, Mantiene, Completa, Ferma
<1>3. QED
  BY <1>1, <1>2

\* The write is of what was checked.
LEMMA AttualeMantiene ==
  ASSUME NoteInv, NEW r \in Requests, Proceed(r), Attuale(req[r]), NEW n \in Note,
         n = req[r].nota
  PROVE  Mantiene(n)
<1> USE Noto DEF lifeVars, dataVars
<1>1. CASE ModificaScrivi(r)
  <2>1. /\ stato[n] \in Modificabile /\ Coerente(Applied(req[r].patch, commessa[n]))
        /\ UNCHANGED <<stato, allegato>>
    BY <1>1 DEF ModificaScrivi, Attuale
  <2>2. commessa'[n] = commessa[n] \/ commessa'[n] = Applied(req[r].patch, commessa[n])
    BY <1>1 DEF ModificaScrivi
  <2>3. QED
    BY <2>1, <2>2 DEF Mantiene, Completa, Ferma, Modificabile
<1>2. CASE InviaScrivi(r)
  <2>1. /\ stato[n] \in Modificabile /\ dovuti[n] \subseteq Presenti(n)
        /\ UNCHANGED <<dovuti, commessa, allegato>>
    BY <1>2 DEF InviaScrivi, Attuale
  <2>2. QED
    BY <2>1 DEF Mantiene, Completa, Ferma, Presenti
<1>3. CASE DecidiScrivi(r)
  <2>1. req[r].esito \in {"approvata", "respinta"}
    BY DEF Request
  <2>2. /\ stato'[n] = stato[n] \/ stato[n] = "inviata"
        /\ UNCHANGED <<dovuti, commessa, allegato>>
    BY <1>3 DEF DecidiScrivi
  <2>3. QED
    BY <2>1, <2>2 DEF Mantiene, Completa, Ferma, Presenti
<1>4. CASE EliminaCommit(r)
  BY <1>4 DEF EliminaCommit, Mantiene, Completa, Ferma
<1>5. CASE CaricaRiga(r) \/ TogliCommit(r)
  <2>1. stato[n] \in Modificabile /\ UNCHANGED <<stato, dovuti, commessa>>
    BY <1>5 DEF CaricaRiga, TogliCommit, Attuale
  <2>2. QED
    BY <2>1 DEF Mantiene, Completa, Ferma, Modificabile
<1>6. CASE UNCHANGED <<stato, dovuti, commessa, allegato>>
  BY <1>6, NonScrittaMantiene DEF Scritta
<1>7. QED
  BY <1>1, <1>2, <1>3, <1>4, <1>5, <1>6 DEF Proceed, InviaControlla, EliminaElenca, EliminaRiga,
     EliminaFile, CaricaPut, CaricaPulisci, TogliTrova, TogliFile

LEMMA Mantenuto ==
  ASSUME AttualeInv, [Next]_vars, NEW n \in Note, ~DiUnSuperato(n)
  PROVE  Mantiene(n)
<1>1. NoteInv /\ [Operazione]_noteVars
  BY PassoNoto DEF AttualeInv
<1>2. CASE UNCHANGED noteVars
  BY <1>2, NonScrittaMantiene DEF Scritta, noteVars, lifeVars, dataVars
<1>3. ASSUME NEW r \in Requests, Start(r) \/ Fault(r) PROVE Mantiene(n)
  <2>1. ~Scritta(n)
    BY <1>3 DEF Start, Fault, Begin, ModificaLeggi, InviaLeggi, DecidiLeggi, EliminaLeggi,
       CaricaLeggi, TogliLeggi, Scritta, lifeVars, dataVars
  <2>2. QED
    BY <2>1, NonScrittaMantiene
<1>4. ASSUME NEW r \in Requests, Proceed(r) PROVE Mantiene(n)
  <2>1. CASE n # req[r].nota
    <3>1. ~Scritta(n)
      BY <1>1, <1>4, <2>1, AltreNote DEF Scritta
    <3>2. QED
      BY <3>1, NonScrittaMantiene
  <2>2. CASE n = req[r].nota
    <3>1. r \notin superati
      BY <1>1, <1>4, <2>2, ProcedeMuove DEF DiUnSuperato
    <3>2. Attuale(req[r])
      BY <3>1 DEF AttualeInv
    <3>3. QED
      BY <1>1, <1>4, <2>2, <3>2, AttualeMantiene
  <2>3. QED
    BY <2>1, <2>2
<1>5. QED
  BY <1>1, <1>2, <1>3, <1>4, CreaMantiene DEF Operazione

\* A note that is submitted has the attachments it needs (invia): whatever the
\* requests do and whatever stops, only a step of one that another has overtaken
\* since it read the note can take that away.
THEOREM InviateComplete == Spec => InviataCompleta
<1> DEFINE Passo1 == \A n \in Note : Completa(n) /\ ~Completa(n)' => DiUnSuperato(n)
<1>1. AttualeInv /\ [Next]_vars => [Passo1]_vars
  BY Mantenuto DEF Mantiene
<1>2. QED
  BY <1>1, LettureAttuali, PTL DEF Spec, InviataCompleta

\* A note with a mandate has that mandate's company (D6), unless a partial update
\* that another write had overtaken has changed one of the two.
THEOREM CommesseCoerenti == Spec => CommessaCoerente
<1> DEFINE Passo1 == \A n \in Note :
                        Coerente(commessa[n]) /\ ~Coerente(commessa[n])' => DiUnSuperato(n)
<1>1. AttualeInv /\ [Next]_vars => [Passo1]_vars
  <2> SUFFICES ASSUME AttualeInv, [Next]_vars, NEW n \in Note, Coerente(commessa[n]),
                      ~DiUnSuperato(n)
               PROVE  Coerente(commessa[n])'
    OBVIOUS
  <2>1. Coerente(commessa'[n])
    BY Mantenuto DEF Mantiene
  <2>2. QED
    BY <2>1 DEF Coerente
<1>2. QED
  BY <1>1, LettureAttuali, PTL DEF Spec, CommessaCoerente

\* A submitted or approved note changes only by a request that had read it before
\* it was submitted (update, upload, remove).
THEOREM InviateImmutabili == Spec => InviataImmutabile
<1> DEFINE Passo1 == \A n \in Note : Ferma(n) \/ DiUnSuperato(n)
<1>1. AttualeInv /\ [Next]_vars => [Passo1]_vars
  BY Mantenuto DEF Mantiene
<1>2. QED
  BY <1>1, LettureAttuali, PTL DEF Spec, InviataImmutabile

-----------------------------------------------------------------------------
(* Files that somebody answers for.                                        *)

LEMMA CustoditoDa ==
  ASSUME NEW f \in Files
  PROVE  /\ f \in Custoditi <=> InRiga(f) \/ \E r \in Requests : f \in Caricati(r)
         /\ f \in Custoditi' <=> InRiga(f)' \/ \E r \in Requests : f \in Caricati(r)'
BY NessunoAssumption DEF Custoditi, Referenced, FilesOf, Presenti, InRiga

\* A step of one request keeps a file if it keeps it in its row and in that request.
LEMMA CustodiscePasso ==
  ASSUME NEW r \in Requests, NEW f \in Files, \A s \in Requests : s # r => req'[s] = req[s],
         InRiga(f) => InRiga(f)', f \in Caricati(r) => f \in Custoditi', f \in Custoditi
  PROVE  f \in Custoditi'
<1>1. ASSUME NEW s \in Requests, f \in Caricati(s) PROVE f \in Custoditi'
  <2>1. CASE s = r
    BY <1>1, <2>1
  <2>2. CASE s # r
    <3>1. f \in Caricati(s)'
      BY <1>1, <2>2 DEF Caricati
    <3>2. QED
      BY <3>1, CustoditoDa
  <2>3. QED
    BY <2>1, <2>2
<1>2. QED
  BY <1>1, CustoditoDa

LEMMA CustodisceRiga ==
  ASSUME NoteInv, FileInv, NEW r \in Requests, CaricaRiga(r), NEW f \in stored, f \in Custoditi
  PROVE  f \in Custoditi'
<1> USE Noto
<1>1. f \in Files /\ \A s \in Requests : s # r => req'[s] = req[s]
  BY AltriFermi DEF Proceed
<1>2. req[r].pc = "caricato" /\ req[r].nota \in Note /\ req[r].tipo \in Tipi
  BY DEF CaricaRiga, Conosce
<1>3. CASE Answer(r)
  <2>1. PICK g \in stored : req[r].file = {g}
    BY <1>2 DEF FileInv
  <2>2. /\ allegato' = [allegato EXCEPT ![req[r].nota][req[r].tipo] = g]
        /\ allegato[req[r].nota][req[r].tipo] = Nessuno
    <3>1. req'[r].pc = "idle"
      BY <1>3, IdleOk DEF Answer
    <3>2. req' # [req EXCEPT ![r].pc = "orfano"]
      <4>1. PICK q : q = [req[r] EXCEPT !.pc = "orfano"]
        OBVIOUS
      <4>2. q.pc = "orfano"
        BY <4>1 DEF Request
      <4>3. QED
        BY <3>1, <4>1, <4>2
    <3>3. QED
      BY <1>2, <2>1, <3>2 DEF CaricaRiga, Presenti
  <2>3. InRiga(f) => InRiga(f)'
    <3>1. f # Nessuno
      BY <1>1, NessunoAssumption
    <3>2. QED
      BY <1>2, <2>2, <3>1 DEF InRiga
  <2>4. f \in Caricati(r) => InRiga(f)'
    BY <1>2, <2>1, <2>2 DEF InRiga, Caricati
  <2>5. QED
    BY <1>1, <2>3, <2>4, CustoditoDa, CustodiscePasso
<1>4. CASE ~Answer(r)
  <2>1. req' = [req EXCEPT ![r].pc = "orfano"] /\ UNCHANGED allegato
    BY <1>4 DEF CaricaRiga
  <2>2. PICK q : q = [req[r] EXCEPT !.pc = "orfano"]
    OBVIOUS
  <2>3. q.pc = "orfano" /\ q.file = req[r].file /\ req'[r] = q
    BY <2>1, <2>2 DEF Request
  <2>4. f \in Caricati(r) => f \in Caricati(r)'
    BY <1>2, <2>3 DEF Caricati
  <2>5. InRiga(f) => InRiga(f)'
    BY <2>1 DEF InRiga
  <2>6. QED
    BY <1>1, <2>4, <2>5, CustoditoDa, CustodiscePasso
<1>5. QED
  BY <1>3, <1>4

\* A removal takes the row of no file that is still stored.
LEMMA CustodisceTolta ==
  ASSUME NoteInv, FileInv, NEW r \in Requests,
         TogliCommit(r) \/ (EliminaCommit(r) /\ Attuale(req[r])),
         NEW f \in stored, f \in Custoditi
  PROVE  f \in Custoditi'
<1> USE Noto
<1>1. f \in Files /\ \A s \in Requests : s # r => req'[s] = req[s]
  BY AltriFermi DEF Proceed
<1>2. f \notin Caricati(r) /\ req[r].nota \in Note
  BY DEF TogliCommit, EliminaCommit, Caricati, Conosce
<1>3. CASE TogliCommit(r)
  <2>1. allegato[req[r].nota][req[r].tipo] # f /\ req[r].tipo \in Tipi
    BY <1>3 DEF TogliCommit, FileInv, Conosce
  <2>2. allegato' = [allegato EXCEPT ![req[r].nota][req[r].tipo] = Nessuno]
    BY <1>3 DEF TogliCommit
  <2>3. InRiga(f) => InRiga(f)'
    BY <1>2, <2>1, <2>2 DEF InRiga
  <2>4. QED
    BY <1>1, <1>2, <2>3, CustodiscePasso
<1>4. CASE EliminaCommit(r) /\ Attuale(req[r])
  <2>1. f \notin FilesOf(req[r].nota) /\ f # Nessuno
    BY <1>1, <1>4, NessunoAssumption DEF EliminaCommit, Attuale
  <2>2. \A t \in Tipi : allegato[req[r].nota][t] # f
    BY <2>1 DEF FilesOf, Presenti
  <2>3. \A n \in Note : n # req[r].nota => allegato'[n] = allegato[n]
    BY <1>4 DEF EliminaCommit
  <2>4. InRiga(f) => InRiga(f)'
    BY <2>2, <2>3 DEF InRiga
  <2>5. QED
    BY <1>1, <1>2, <2>4, CustodiscePasso
<1>5. QED
  BY <1>3, <1>4

LEMMA Custodisce ==
  ASSUME AttualeInv, FileInv, [Next]_vars, NEW f \in stored \cap stored', f \in Custoditi
  PROVE  \/ f \in Custoditi'
         \/ \E r \in Requests : \/ Fault(r) /\ f \in Caricati(r)
                                \/ EliminaCommit(r) /\ r \in superati
<1>1. NoteInv /\ [Operazione]_noteVars
  BY PassoNoto DEF AttualeInv
<1>2. f \in Files
  BY <1>1, Noto
<1>3. CASE UNCHANGED <<allegato, req>>
  BY <1>3 DEF Custoditi, Referenced, FilesOf, Presenti, Caricati
<1>4. ASSUME NEW r \in Requests, Start(r) \/ Fault(r), ~(Fault(r) /\ f \in Caricati(r))
      PROVE  f \in Custoditi'
  <2>1. f \notin Caricati(r)
    BY <1>4 DEF Start, Begin, ModificaLeggi, InviaLeggi, DecidiLeggi, EliminaLeggi, CaricaLeggi,
       TogliLeggi, Caricati
  <2>2. UNCHANGED allegato
    BY <1>4 DEF Start, Fault, Begin, ModificaLeggi, InviaLeggi, DecidiLeggi, EliminaLeggi,
       CaricaLeggi, TogliLeggi
  <2>3. \A s \in Requests : s # r => req'[s] = req[s]
    BY <1>1, <1>4, AltriFermi
  <2>4. QED
    BY <1>2, <2>1, <2>2, <2>3, CustodiscePasso DEF InRiga
<1>5. ASSUME NEW r \in Requests, Proceed(r), ~(EliminaCommit(r) /\ r \in superati)
      PROVE  f \in Custoditi'
  <2>1. \A s \in Requests : s # r => req'[s] = req[s]
    BY <1>1, <1>5, AltriFermi
  <2>2. CASE CaricaPulisci(r)
    <3>1. f \notin Caricati(r) /\ UNCHANGED allegato
      BY <2>2 DEF CaricaPulisci, Caricati
    <3>2. QED
      BY <1>2, <2>1, <3>1, CustodiscePasso DEF InRiga
  <2>3. CASE CaricaRiga(r) \/ TogliCommit(r)
    BY <1>1, <2>3, CustodisceRiga, CustodisceTolta
  <2>4. CASE EliminaCommit(r)
    <3>1. Attuale(req[r])
      BY <1>5, <2>4 DEF AttualeInv
    <3>2. QED
      BY <1>1, <2>4, <3>1, CustodisceTolta
  <2>5. CASE UNCHANGED allegato /\ req[r].pc \notin {"caricato", "orfano"}
    <3>1. f \notin Caricati(r)
      BY <2>5 DEF Caricati
    <3>2. QED
      BY <1>2, <2>1, <2>5, <3>1, CustodiscePasso DEF InRiga
  <2>6. QED
    BY <1>5, <2>2, <2>3, <2>4, <2>5 DEF Proceed, ModificaScrivi, InviaControlla, InviaScrivi,
       DecidiScrivi, EliminaElenca, EliminaRiga, EliminaFile, CaricaPut, TogliTrova, TogliFile
<1>6. ASSUME NEW u \in Users, NEW n \in Note, NEW d \in SUBSET Tipi, NEW c \in Commessa,
             Crea(u, n, d, c)
      PROVE  UNCHANGED <<allegato, req>>
  BY <1>6 DEF Crea
<1>7. QED
  BY <1>1, <1>3, <1>4, <1>5, <1>6 DEF Operazione, noteVars

\* A file that has a row, or an upload that will give it one, comes to have neither
\* only if the upload stops between the two or its row came after the remove of
\* the note had listed the files (upload, remove of an attachment, remove).
THEOREM NessunOrfano == Spec => NessunFileOrfano
<1> DEFINE Passo1 == \A f \in stored \cap stored' :
                        f \in Custoditi /\ f \notin Custoditi' =>
                           \E r \in Requests : \/ Fault(r) /\ f \in Caricati(r)
                                               \/ EliminaCommit(r) /\ r \in superati
<1>1. AttualeInv /\ FileInv /\ [Next]_vars => [Passo1]_vars
  BY Custodisce
<1>2. QED
  BY <1>1, LettureAttuali, FileInOrdine, PTL DEF Spec, NessunFileOrfano
=============================================================================
