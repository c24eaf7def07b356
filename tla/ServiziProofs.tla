---------------------------- MODULE ServiziProofs ----------------------------
(***************************************************************************)
(* Theorems about services of the API: circulars and their readings        *)
(* (Circolari), threads and messages (Comunicazioni), roles and            *)
(* permissions (CatalogoRuoli), for any number of rows, users, studios and *)
(* concurrent requests.                                                    *)
(*                                                                         *)
(* The last two parts prove that threads and circulars implement           *)
(* RegistroThread and RegistroLetture.                                     *)
(***************************************************************************)
EXTENDS Circolari, Comunicazioni, CatalogoRuoli, FiniteSetTheorems, TLAPS

-----------------------------------------------------------------------------
(* Circulars.                                                              *)

LEMMA CircolariNote ==
  ASSUME CircolariTipi
  PROVE  /\ \A c \in Circolare :
              /\ Esiste(circolare, c) => circolare[c] \in CircolareRiga
              /\ \A u \in Utenti : Esiste(lettura[c], u) => lettura[c][u] \in LetturaRiga
         /\ \A s \in Studio : studio[s] # Libera => studio[s] \in InStudio
         /\ \A p \in Portale : portale[p] # Libera => portale[p] \in InPortale
BY DEF CircolariTipi, Esiste

\* What a client has seen stays seen, if the circular only changes as it may.
LEMMA VistoAncora ==
  ASSUME NEW c \in Circolare, NEW u \in Utenti, HaVisto(c, u),
         Esiste(circolare, c)', circolare'[c].stato # "bozza",
         \/ circolare'[c].destinatari = circolare[c].destinatari \/ c \in ritoccate',
         ritoccate \subseteq ritoccate'
  PROVE  HaVisto(c, u)'
BY DEF HaVisto

\* The part of the invariant that says what clients have seen, and what the
\* studio has read.
Viste ==
    /\ \A c \in Circolare, u \in Utenti : Esiste(lettura[c], u) => HaVisto(c, u)
    /\ \A p \in Portale :
         portale[p] # Libera => HaVisto(portale[p].circolare, portale[p].utente)
Lette ==
    \A s \in Studio :
         studio[s] # Libera => /\ Esiste(circolare, studio[s].circolare)
                               /\ StatoRichiesto(studio[s].fase, studio[s].letto)

LEMMA CircolariParti == CircolariInv <=> CircolariTipi /\ Viste /\ Lette
BY DEF CircolariInv, Viste, Lette

\* A change of one circular by the studio.
LEMMA CircolareCambia ==
  ASSUME CircolariInv, NEW c \in Circolare, NEW riga \in CircolareRiga,
         circolare' = [circolare EXCEPT ![c] = riga], UNCHANGED <<lettura, portale>>,
         ritoccate' \in SUBSET Circolare, ritoccate \subseteq ritoccate',
         Esiste(circolare, c) /\ circolare[c].stato # "bozza" =>
            /\ riga.stato # "bozza"
            /\ riga.destinatari = circolare[c].destinatari \/ c \in ritoccate',
         studio' \in [Studio -> InStudio \cup {Libera}],
         \A s \in Studio : studio'[s] # Libera => studio'[s] = studio[s]
  PROVE  CircolariInv'
<1>1. /\ circolare' \in [Circolare -> CircolareRiga \cup {Nessuno}]
      /\ circolare'[c] = riga /\ Esiste(circolare, c)'
      /\ \A d \in Circolare : d # c => circolare'[d] = circolare[d]
  BY CircolariAssumption DEF CircolariInv, CircolariTipi, Esiste
<1>2. CircolariTipi'
  BY <1>1 DEF CircolariInv, CircolariTipi
<1>3. ASSUME NEW d \in Circolare, NEW u \in Utenti, HaVisto(d, u) PROVE HaVisto(d, u)'
  <2>1. CASE d = c
    BY <1>1, <1>3, <2>1, VistoAncora DEF HaVisto
  <2>2. CASE d # c
    BY <1>1, <1>3, <2>2 DEF HaVisto, Esiste
  <2>3. QED
    BY <2>1, <2>2
<1>4. Viste'
  <2>1. \A p \in Portale : portale[p] # Libera =>
           portale[p].circolare \in Circolare /\ portale[p].utente \in Utenti
    BY CircolariNote DEF CircolariInv, InPortale
  <2>2. Viste
    BY CircolariParti
  <2>3. ASSUME NEW d \in Circolare, NEW u \in Utenti, Esiste(lettura[d], u)' PROVE HaVisto(d, u)'
    BY <1>3, <2>2, <2>3 DEF Viste, Esiste
  <2>4. ASSUME NEW p \in Portale, portale'[p] # Libera
        PROVE  HaVisto(portale[p].circolare, portale[p].utente)'
    <3>1. PICK d \in Circolare, u \in Utenti : d = portale[p].circolare /\ u = portale[p].utente
      BY <2>1, <2>4
    <3>2. portale' = portale /\ HaVisto(d, u)
      BY <2>2, <2>4, <3>1 DEF Viste
    <3>3. HaVisto(d, u)'
      BY <1>3, <3>2
    <3>4. QED
      BY <3>1, <3>2, <3>3 DEF HaVisto, Esiste
  <2>5. QED
    BY <2>3, <2>4 DEF Viste
<1>5. Lette'
  <2>1. ASSUME NEW s \in Studio, studio'[s] # Libera
        PROVE  /\ circolare'[studio'[s].circolare] # Nessuno
               /\ StatoRichiesto(studio'[s].fase, studio'[s].letto)
    <3>1. studio'[s] = studio[s] /\ studio[s] # Libera
      BY <2>1
    <3>2. PICK d \in Circolare : d = studio[s].circolare
      BY <3>1, CircolariNote DEF CircolariInv, InStudio
    <3>3. Esiste(circolare, d) /\ StatoRichiesto(studio[s].fase, studio[s].letto)
      BY <3>1, <3>2 DEF CircolariInv
    <3>4. circolare'[d] # Nessuno
      BY <1>1, <3>3 DEF Esiste
    <3>5. QED
      BY <3>1, <3>2, <3>3, <3>4
  <2>2. QED
    BY <2>1 DEF Lette, Esiste, StatoRichiesto
<1>6. QED
  BY <1>2, <1>4, <1>5 DEF Viste, Lette, CircolariInv

LEMMA PassoCrea ==
  ASSUME CircolariInv, NEW c \in Circolare, NEW conf \in BOOLEAN, NEW dest \in SUBSET Aziende,
         CircolareCrea(c, dest, conf)
  PROVE  CircolariInv'
<1> DEFINE a == [stato |-> "bozza", destinatari |-> dest, conferma |-> conf, viva |-> TRUE]
<1>1. a \in CircolareRiga
  BY DEF CircolareRiga, StatiCircolare
<1>2. circolare' = [circolare EXCEPT ![c] = a] /\ ~Esiste(circolare, c)
      /\ UNCHANGED <<lettura, studio, portale, ritoccate>>
  BY DEF CircolareCrea
<1> HIDE DEF a
<1>3. QED
  BY <1>1, <1>2, CircolareCambia DEF CircolariInv, CircolariTipi

LEMMA PassoStudioScrive ==
  ASSUME CircolariInv, NEW s \in Studio, NEW conf \in BOOLEAN, NEW dest \in SUBSET Aziende,
         StudioScrive(s, dest, conf)
  PROVE  CircolariInv'
<1>1. PICK c \in Circolare, op \in Operazioni :
         c = studio[s].circolare /\ op = studio[s].fase
  BY CircolariNote DEF StudioScrive, CircolariInv, InStudio
<1>2. /\ Esiste(circolare, c) /\ StatoRichiesto(op, studio[s].letto)
      /\ circolare[c] \in CircolareRiga
  BY <1>1, CircolariNote DEF StudioScrive, CircolariInv
<1>3. PICK vecchia \in CircolareRiga : vecchia = circolare[c]
  BY <1>2
<1>4. PICK riga : riga =
         CASE op = "modifica" -> [vecchia EXCEPT !.destinatari = dest, !.conferma = conf]
           [] op = "pubblica" -> [vecchia EXCEPT !.stato = "pubblicata"]
           [] op = "archivia" -> [vecchia EXCEPT !.stato = "archiviata"]
           [] op = "elimina"  -> [vecchia EXCEPT !.viva = FALSE]
  OBVIOUS
<1>5. /\ riga \in CircolareRiga
      /\ vecchia.stato # "bozza" => riga.stato # "bozza"
      /\ op # "modifica" => riga.destinatari = vecchia.destinatari
  <2>1. CASE op = "modifica"
    BY <1>4, <2>1 DEF CircolareRiga
  <2>2. CASE op = "pubblica"
    BY <1>4, <2>2 DEF CircolareRiga, StatiCircolare
  <2>3. CASE op = "archivia"
    BY <1>4, <2>3 DEF CircolareRiga, StatiCircolare
  <2>4. CASE op = "elimina"
    BY <1>4, <2>4 DEF CircolareRiga
  <2>5. QED
    BY <2>1, <2>2, <2>3, <2>4 DEF Operazioni
<1>6. circolare' = [circolare EXCEPT ![c] = riga]
  BY <1>1, <1>3, <1>4 DEF StudioScrive, CircolariInv, CircolariTipi
<1>7. /\ ritoccate' \in SUBSET Circolare /\ ritoccate \subseteq ritoccate'
      /\ op = "modifica" /\ vecchia.stato # "bozza" => c \in ritoccate'
  BY <1>1, <1>2, <1>3 DEF StudioScrive, CircolariInv, CircolariTipi, StatoRichiesto
<1>8. /\ studio' \in [Studio -> InStudio \cup {Libera}]
      /\ \A x \in Studio : studio'[x] # Libera => studio'[x] = studio[x]
  BY DEF StudioScrive, CircolariInv, CircolariTipi
<1>9. UNCHANGED <<lettura, portale>>
  BY DEF StudioScrive
<1>10. QED
  BY <1>3, <1>5, <1>6, <1>7, <1>8, <1>9, CircolareCambia

LEMMA PassoStudioLegge ==
  ASSUME CircolariInv, NEW s \in Studio, NEW c \in Circolare, NEW op \in Operazioni,
         StudioLegge(s, c, op)
  PROVE  CircolariInv'
<1>1. circolare[c] \in CircolareRiga /\ Esiste(circolare, c)
  BY CircolariNote DEF StudioLegge, CircolariInv
<1>2. PICK q \in InStudio :
         q = [fase |-> op, circolare |-> c, letto |-> circolare[c].stato]
  BY <1>1 DEF InStudio, CircolareRiga
<1>3. q.fase = op /\ q.circolare = c /\ q.letto = circolare[c].stato
  BY <1>2
<1>4. /\ studio' = [studio EXCEPT ![s] = q]
      /\ UNCHANGED <<circolare, lettura, portale, ritoccate>>
  BY <1>2 DEF StudioLegge
<1>5. CircolariTipi'
  BY <1>4 DEF CircolariInv, CircolariTipi
<1>6. Viste'
  BY <1>4, CircolariParti DEF Viste, HaVisto, Esiste
<1>7. ASSUME NEW x \in Studio, studio'[x] # Libera
      PROVE  /\ Esiste(circolare, studio'[x].circolare)
             /\ StatoRichiesto(studio'[x].fase, studio'[x].letto)
  <2>1. CASE x = s
    <3>1. studio'[x] = q
      BY <1>4, <2>1 DEF CircolariInv, CircolariTipi
    <3>2. QED
      BY <1>1, <1>3, <3>1 DEF StudioLegge
  <2>2. CASE x # s
    BY <1>4, <1>7, <2>2 DEF CircolariInv, CircolariTipi
  <2>3. QED
    BY <2>1, <2>2
<1>8. Lette'
  BY <1>4, <1>7 DEF Lette, Esiste, StatoRichiesto
<1>9. QED
  BY <1>5, <1>6, <1>8 DEF Viste, Lette, CircolariInv

\* A client reads what he may see.
LEMMA PassoClienteLegge ==
  ASSUME CircolariInv, NEW p \in Portale, NEW u \in Utenti, NEW c \in Circolare,
         ClienteApre(p, u, c) \/ ConfermaLegge(p, u, c)
  PROVE  CircolariInv'
<1>1. PICK q \in InPortale :
         /\ q.utente = u /\ q.circolare = c
         /\ portale' = [portale EXCEPT ![p] = q]
  <2>1. /\ [fase |-> "apre", utente |-> u, circolare |-> c] \in InPortale
        /\ [fase |-> "conferma", utente |-> u, circolare |-> c] \in InPortale
    BY DEF InPortale
  <2>2. QED
    BY <2>1 DEF ClienteApre, ConfermaLegge
<1>2. HaVisto(c, u)
  BY DEF ClienteApre, ConfermaLegge, Visibile, HaVisto
<1>3. UNCHANGED <<circolare, lettura, studio, ritoccate>>
  BY DEF ClienteApre, ConfermaLegge
<1>4. CircolariTipi'
  BY <1>1, <1>3 DEF CircolariInv, CircolariTipi
<1>5. ASSUME NEW x \in Portale, portale'[x] # Libera
      PROVE  HaVisto(portale'[x].circolare, portale'[x].utente)
  <2>1. CASE x = p
    BY <1>1, <1>2, <2>1 DEF CircolariInv, CircolariTipi
  <2>2. CASE x # p
    BY <1>1, <1>5, <2>2 DEF CircolariInv, CircolariTipi
  <2>3. QED
    BY <2>1, <2>2
<1>6. Viste'
  BY <1>3, <1>5, CircolariParti DEF Viste, HaVisto, Esiste
<1>7. Lette'
  BY <1>3, CircolariParti DEF Lette, Esiste, StatoRichiesto
<1>8. QED
  BY <1>4, <1>6, <1>7 DEF Viste, Lette, CircolariInv

\* A request writes the reading of what its user has seen.
LEMMA PassoClienteScrive ==
  ASSUME CircolariInv, NEW p \in Portale, ClienteSegna(p) \/ ConfermaScrive(p)
  PROVE  CircolariInv'
<1>1. portale[p] # Libera
  BY DEF ClienteSegna, ConfermaScrive, Libera
<1>2. PICK c \in Circolare, u \in Utenti :
         c = portale[p].circolare /\ u = portale[p].utente
  BY <1>1, CircolariNote DEF CircolariInv, InPortale
<1>3. HaVisto(c, u)
  BY <1>1, <1>2 DEF CircolariInv
<1>4. /\ lettura' \in [Circolare -> [Utenti -> LetturaRiga \cup {Nessuno}]]
      /\ \A d \in Circolare, w \in Utenti :
           lettura'[d][w] # Nessuno => lettura[d][w] # Nessuno \/ (d = c /\ w = u)
  <2>1. /\ lettura \in [Circolare -> [Utenti -> LetturaRiga \cup {Nessuno}]]
        /\ [confermata |-> FALSE] \in LetturaRiga /\ [confermata |-> TRUE] \in LetturaRiga
    BY DEF CircolariInv, CircolariTipi, LetturaRiga
  <2>2. PICK x \in LetturaRiga : lettura' = lettura \/ lettura' = [lettura EXCEPT ![c][u] = x]
    BY <1>2, <2>1 DEF ClienteSegna, ConfermaScrive
  <2>3. CASE lettura' = lettura
    BY <2>1, <2>3
  <2>4. CASE lettura' = [lettura EXCEPT ![c][u] = x]
    BY <2>1, <2>4
  <2>5. QED
    BY <2>2, <2>3, <2>4
<1>5. /\ portale' = [portale EXCEPT ![p] = Libera]
      /\ UNCHANGED <<circolare, studio, ritoccate>>
  BY DEF ClienteSegna, ConfermaScrive
<1>6. CircolariTipi'
  BY <1>4, <1>5 DEF CircolariInv, CircolariTipi
<1>7. \A x \in Portale : portale'[x] # Libera => portale'[x] = portale[x]
  BY <1>5 DEF CircolariInv, CircolariTipi
<1>8. Viste'
  <2>1. \A d \in Circolare, w \in Utenti : lettura'[d][w] # Nessuno => HaVisto(d, w)
    BY <1>3, <1>4, CircolariParti DEF Viste, Esiste
  <2>2. \A x \in Portale : portale'[x] # Libera => HaVisto(portale'[x].circolare, portale'[x].utente)
    BY <1>7 DEF CircolariInv
  <2>3. QED
    BY <1>5, <2>1, <2>2 DEF Viste, HaVisto, Esiste
<1>9. Lette'
  BY <1>5, CircolariParti DEF Lette, Esiste, StatoRichiesto
<1>10. QED
  BY <1>6, <1>8, <1>9 DEF Viste, Lette, CircolariInv

LEMMA PassoCircolariFallisce ==
  ASSUME CircolariInv, CircolariFallisce
  PROVE  CircolariInv'
<1>1. /\ UNCHANGED <<circolare, lettura, ritoccate>>
      /\ studio' \in [Studio -> InStudio \cup {Libera}]
      /\ portale' \in [Portale -> InPortale \cup {Libera}]
      /\ \A x \in Studio : studio'[x] # Libera => studio'[x] = studio[x]
      /\ \A x \in Portale : portale'[x] # Libera => portale'[x] = portale[x]
  BY DEF CircolariFallisce, CircolariInv, CircolariTipi
<1>2. CircolariTipi'
  BY <1>1 DEF CircolariInv, CircolariTipi
<1>3. Viste'
  <2>1. \A x \in Portale : portale'[x] # Libera => HaVisto(portale'[x].circolare, portale'[x].utente)
    BY <1>1 DEF CircolariInv
  <2>2. QED
    BY <1>1, <2>1, CircolariParti DEF Viste, HaVisto, Esiste
<1>4. Lette'
  <2>1. \A x \in Studio : studio'[x] # Libera =>
           /\ Esiste(circolare, studio'[x].circolare)
           /\ StatoRichiesto(studio'[x].fase, studio'[x].letto)
    BY <1>1 DEF CircolariInv
  <2>2. QED
    BY <1>1, <2>1 DEF Lette, Esiste, StatoRichiesto
<1>5. QED
  BY <1>2, <1>3, <1>4 DEF Viste, Lette, CircolariInv

\* Circulars, readings and the requests between read and write keep together:
\* what a client request is to write, its user has seen.
THEOREM CircolariInOrdine == CircolariSpec => []CircolariInv
<1>1. CircolariInit => CircolariInv
  BY DEF CircolariInit, CircolariInv, CircolariTipi, Esiste
<1>2. CircolariInv /\ [CircolariNext]_circolariVars => CircolariInv'
  <2> SUFFICES ASSUME CircolariInv, [CircolariNext]_circolariVars PROVE CircolariInv'
    OBVIOUS
  <2>1. CASE UNCHANGED circolariVars
    BY <2>1 DEF circolariVars, CircolariInv, CircolariTipi, HaVisto, Esiste, StatoRichiesto
  <2>2. CASE CircolariNext
    BY <2>2, PassoCrea, PassoStudioLegge, PassoClienteLegge, PassoStudioScrive,
       PassoClienteScrive, PassoCircolariFallisce DEF CircolariNext
  <2>3. QED
    BY <2>1, <2>2
<1>3. QED
  BY <1>1, <1>2, PTL DEF CircolariSpec

\* A reading is of a user whom the circular reaches and of no draft, unless it
\* was published between the read and the write of an edit.
THEOREM LettureDegliUtenti == CircolariSpec => []LettureNelSet
<1>1. CircolariInv => LettureNelSet
  BY DEF CircolariInv, LettureNelSet, HaVisto
<1>2. QED
  BY <1>1, CircolariInOrdine, PTL

-----------------------------------------------------------------------------
(* Threads and messages.                                                   *)

LEMMA ComunicazioniNote ==
  ASSUME ComunicazioniTipi
  PROVE  /\ \A t \in Thread : Esiste(thread, t) => thread[t] \in ThreadRiga
         /\ \A m \in Messaggi : Esiste(messaggio, m) => messaggio[m] \in Thread
         /\ \A r \in Chiamate :
              /\ chiamata[r].fase = "numerato" => chiamata[r].numero \in Nat
              /\ chiamata[r].fase \in {"letto", "scritto"} =>
                   chiamata[r].thread \in Thread /\ chiamata[r].urgente \in BOOLEAN
              /\ chiamata[r].fase = "scritto" => chiamata[r].messaggio \in Messaggi
         /\ ultimoCom \in Nat
<1>1. /\ \A t \in Thread : Esiste(thread, t) => thread[t] \in ThreadRiga
      /\ \A m \in Messaggi : Esiste(messaggio, m) => messaggio[m] \in Thread
      /\ ultimoCom \in Nat
  BY DEF ComunicazioniTipi, Esiste
<1>2. ASSUME NEW r \in Chiamate
      PROVE  /\ chiamata[r].fase = "numerato" => chiamata[r].numero \in Nat
             /\ chiamata[r].fase \in {"letto", "scritto"} =>
                   chiamata[r].thread \in Thread /\ chiamata[r].urgente \in BOOLEAN
             /\ chiamata[r].fase = "scritto" => chiamata[r].messaggio \in Messaggi
  <2>1. chiamata[r] \in InChiamata \cup {Riposo}
    BY DEF ComunicazioniTipi
  <2>2. QED
    BY <2>1 DEF InChiamata, Riposo
<1>3. QED
  BY <1>1, <1>2

\* A request goes on and writes nothing.
LEMMA ChiamataMuove ==
  ASSUME ComunicazioniInv, NEW r \in Chiamate, NEW q \in InChiamata \cup {Riposo},
         chiamata' = [chiamata EXCEPT ![r] = q], UNCHANGED <<thread, messaggio, ultimoCom>>,
         interrotti' \in SUBSET Messaggi, interrotti \subseteq interrotti',
         chiamata[r].fase = "scritto" => chiamata[r].messaggio \in interrotti',
         q.fase = "numerato" => q.numero = ultimoCom + 1 /\ ~CounterBloccato,
         q.fase = "letto" => Esiste(thread, q.thread),
         q.fase # "scritto"
  PROVE  ComunicazioniInv'
<1>1. /\ chiamata' \in [Chiamate -> InChiamata \cup {Riposo}]
      /\ chiamata'[r] = q
      /\ \A x \in Chiamate : x # r => chiamata'[x] = chiamata[x]
  BY DEF ComunicazioniInv, ComunicazioniTipi
<1>2. ComunicazioniTipi' /\ IsFiniteSet(Aperti)'
  BY <1>1 DEF ComunicazioniInv, ComunicazioniTipi, Aperti, Esiste
<1>3. \A x \in Chiamate : chiamata'[x].fase = "numerato" => chiamata'[x].numero = ultimoCom + 1
  BY <1>1 DEF ComunicazioniInv, CodiciSenzaBuchi
<1>4. CodiciSenzaBuchi'
  BY <1>3 DEF ComunicazioniInv, CodiciSenzaBuchi, Aperti, Esiste
<1>5. AttivitaRegistrata'
  <2>1. ASSUME NEW m \in Messaggi, Esiste(messaggio, m)
        PROVE  \/ m \in thread[messaggio[m]].coperti
               \/ m \in interrotti'
               \/ \E x \in Chiamate : chiamata'[x].fase = "scritto" /\ chiamata'[x].messaggio = m
    BY <1>1, <2>1 DEF ComunicazioniInv, AttivitaRegistrata
  <2>2. QED
    BY <2>1 DEF AttivitaRegistrata, Esiste
<1>6. /\ \A m \in Messaggi : Esiste(messaggio, m)' => Esiste(thread, messaggio[m])'
      /\ \A x \in Chiamate : chiamata'[x].fase \in {"letto", "scritto"} => Esiste(thread, chiamata'[x].thread)
      /\ \A x \in Chiamate :
           chiamata'[x].fase = "scritto" => messaggio'[chiamata'[x].messaggio] = chiamata'[x].thread
      /\ \A x, y \in Chiamate :
           chiamata'[x].fase = "numerato" /\ chiamata'[y].fase = "numerato" => x = y
  BY <1>1 DEF ComunicazioniInv, CounterBloccato, Esiste
<1>7. QED
  BY <1>2, <1>4, <1>5, <1>6 DEF ComunicazioniInv, Esiste

LEMMA PassoNumera ==
  ASSUME ComunicazioniInv, NEW r \in Chiamate, ApreNumera(r)
  PROVE  ComunicazioniInv'
<1>1. PICK q \in InChiamata \cup {Riposo} : q = [fase |-> "numerato", numero |-> ultimoCom + 1]
  <2>1. ultimoCom + 1 \in Nat
    BY ComunicazioniNote DEF ComunicazioniInv
  <2>2. [fase |-> "numerato", numero |-> ultimoCom + 1] \in InChiamata
    BY <2>1 DEF InChiamata
  <2>3. QED
    BY <2>2
<1>2. q.fase = "numerato" /\ q.numero = ultimoCom + 1
  BY <1>1
<1>3. /\ chiamata[r].fase # "scritto" /\ interrotti' \in SUBSET Messaggi
      /\ interrotti \subseteq interrotti' /\ UNCHANGED <<thread, messaggio, ultimoCom>>
      /\ ~CounterBloccato
  BY DEF ApreNumera, ComunicazioniInv, ComunicazioniTipi, Riposo
<1>4. chiamata' = [chiamata EXCEPT ![r] = q]
  BY <1>1 DEF ApreNumera
<1>5. QED
  BY <1>2, <1>3, <1>4, ChiamataMuove

LEMMA PassoRispondeLegge ==
  ASSUME ComunicazioniInv, NEW r \in Chiamate, NEW t \in Thread, RispondeLegge(r, t)
  PROVE  ComunicazioniInv'
<1>1. thread[t] \in ThreadRiga /\ Esiste(thread, t)
  BY ComunicazioniNote DEF RispondeLegge, ComunicazioniInv
<1>2. PICK q \in InChiamata \cup {Riposo} :
         q = [fase |-> "letto", thread |-> t, urgente |-> thread[t].urgente]
  BY <1>1 DEF InChiamata, ThreadRiga
<1>3. q.fase = "letto" /\ q.thread = t
  BY <1>2
<1>4. /\ chiamata[r].fase # "scritto" /\ interrotti' \in SUBSET Messaggi
      /\ interrotti \subseteq interrotti' /\ UNCHANGED <<thread, messaggio, ultimoCom>>
  BY DEF RispondeLegge, ComunicazioniInv, ComunicazioniTipi, Riposo
<1>5. chiamata' = [chiamata EXCEPT ![r] = q]
  BY <1>2 DEF RispondeLegge
<1>6. QED
  BY <1>1, <1>3, <1>4, <1>5, ChiamataMuove

LEMMA PassoChiamataFallisce ==
  ASSUME ComunicazioniInv, NEW r \in Chiamate, ChiamataFallisce(r)
  PROVE  ComunicazioniInv'
<1>1. PICK q \in InChiamata \cup {Riposo} : q = Riposo
  OBVIOUS
<1>2. q.fase = "riposo"
  BY <1>1 DEF Riposo
<1>3. /\ interrotti' \in SUBSET Messaggi /\ interrotti \subseteq interrotti'
      /\ chiamata[r].fase = "scritto" => chiamata[r].messaggio \in interrotti'
  BY ComunicazioniNote DEF ChiamataFallisce, ComunicazioniInv, ComunicazioniTipi
<1>4. QED
  BY <1>1, <1>2, <1>3, ChiamataMuove DEF ChiamataFallisce

\* An update of the header covers all messages of the thread.
LEMMA ThreadCambia ==
  ASSUME ComunicazioniInv, NEW t \in Thread, Esiste(thread, t), NEW riga \in ThreadRiga,
         thread' = [thread EXCEPT ![t] = riga], riga.numero = thread[t].numero,
         riga.coperti = MessaggiDi(t), UNCHANGED <<messaggio, ultimoCom, interrotti>>,
         chiamata' \in [Chiamate -> InChiamata \cup {Riposo}],
         \A x \in Chiamate :
            \/ chiamata'[x] = chiamata[x]
            \/ /\ chiamata'[x] = Riposo
               /\ chiamata[x].fase = "scritto" => chiamata[x].thread = t
  PROVE  ComunicazioniInv'
<1>1. /\ thread' \in [Thread -> ThreadRiga \cup {Nessuno}]
      /\ thread'[t] = riga /\ thread'[t] # Nessuno
      /\ \A u \in Thread : u # t => thread'[u] = thread[u]
  BY ComunicazioniAssumption DEF ComunicazioniInv, ComunicazioniTipi
<1>2. ComunicazioniTipi'
  BY <1>1 DEF ComunicazioniInv, ComunicazioniTipi
<1>3. Aperti' = Aperti /\ \A u \in Aperti : thread'[u].numero = thread[u].numero
  BY <1>1 DEF Aperti, Esiste
<1>4. \A x \in Chiamate : chiamata'[x] = chiamata[x] \/ chiamata'[x].fase = "riposo"
  BY DEF Riposo
<1>5. IsFiniteSet(Aperti)' /\ CodiciSenzaBuchi'
  <2>1. {thread'[u].numero : u \in Aperti'} = {thread[u].numero : u \in Aperti}
    BY <1>3
  <2>2. \A x \in Chiamate : chiamata'[x].fase = "numerato" => chiamata'[x].numero = ultimoCom + 1
    BY <1>4 DEF ComunicazioniInv, CodiciSenzaBuchi
  <2>3. QED
    BY <1>3, <2>1, <2>2 DEF ComunicazioniInv, CodiciSenzaBuchi
<1>6. AttivitaRegistrata'
  <2>1. ASSUME NEW m \in Messaggi, Esiste(messaggio, m)
        PROVE  \/ m \in thread'[messaggio[m]].coperti
               \/ m \in interrotti
               \/ \E x \in Chiamate : chiamata'[x].fase = "scritto" /\ chiamata'[x].messaggio = m
    <3>1. CASE messaggio[m] = t
      BY <1>1, <3>1 DEF MessaggiDi
    <3>2. CASE messaggio[m] # t
      <4>1. thread'[messaggio[m]] = thread[messaggio[m]]
        BY <1>1, <2>1, <3>2, ComunicazioniNote DEF ComunicazioniInv
      <4>2. ASSUME NEW x \in Chiamate, chiamata[x].fase = "scritto", chiamata[x].messaggio = m
            PROVE  chiamata'[x] = chiamata[x]
        BY <3>2, <4>2 DEF ComunicazioniInv
      <4>3. QED
        BY <2>1, <4>1, <4>2 DEF ComunicazioniInv, AttivitaRegistrata
    <3>3. QED
      BY <3>1, <3>2
  <2>2. QED
    BY <2>1 DEF AttivitaRegistrata, Esiste
<1>7. /\ \A m \in Messaggi : messaggio[m] # Nessuno => thread'[messaggio[m]] # Nessuno
      /\ \A x \in Chiamate :
           chiamata'[x].fase \in {"letto", "scritto"} => thread'[chiamata'[x].thread] # Nessuno
  <2>1. \A u \in Thread : thread[u] # Nessuno => thread'[u] # Nessuno
    BY <1>1
  <2>2. ASSUME NEW m \in Messaggi, messaggio[m] # Nessuno PROVE thread'[messaggio[m]] # Nessuno
    BY <2>1, <2>2, ComunicazioniNote DEF ComunicazioniInv, Esiste
  <2>3. ASSUME NEW x \in Chiamate, chiamata'[x].fase \in {"letto", "scritto"}
        PROVE  thread'[chiamata'[x].thread] # Nessuno
    BY <1>4, <2>1, <2>3, ComunicazioniNote DEF ComunicazioniInv, Esiste
  <2>4. QED
    BY <2>2, <2>3
<1>8. /\ \A x \in Chiamate :
           chiamata'[x].fase = "scritto" => messaggio[chiamata'[x].messaggio] = chiamata'[x].thread
      /\ \A x, y \in Chiamate :
           chiamata'[x].fase = "numerato" /\ chiamata'[y].fase = "numerato" => x = y
  BY <1>4 DEF ComunicazioniInv
<1>9. QED
  BY <1>2, <1>5, <1>6, <1>7, <1>8 DEF ComunicazioniInv, Esiste

\* What every update of a header writes.
LEMMA HeaderScritto ==
  ASSUME ComunicazioniInv, NEW t \in Thread,
         \/ \E u, c \in BOOLEAN \cup {Nessuno} : Aggiorna(t, u, c)
         \/ Tocca(t) \/ ThreadElimina(t)
         \/ \E r \in Chiamate : RispondeBump(r) /\ chiamata[r].thread = t
  PROVE  /\ Esiste(thread, t) /\ UNCHANGED <<messaggio, ultimoCom, interrotti>>
         /\ thread'[t] \in ThreadRiga /\ thread'[t].numero = thread[t].numero
         /\ thread'[t].coperti = MessaggiDi(t)
         /\ thread' = [thread EXCEPT ![t] = thread'[t]]
<1>1. Esiste(thread, t) /\ UNCHANGED <<messaggio, ultimoCom, interrotti>>
  BY DEF Aggiorna, Tocca, ThreadElimina, RispondeBump, ComunicazioniInv
<1>2. PICK vecchia \in ThreadRiga : vecchia = thread[t]
  BY <1>1, ComunicazioniNote DEF ComunicazioniInv
<1>3. PICK tutti \in SUBSET Messaggi : tutti = MessaggiDi(t)
  BY DEF MessaggiDi
<1>4. PICK riga \in ThreadRiga :
         /\ riga.numero = vecchia.numero /\ riga.coperti = tutti
         /\ thread' = [thread EXCEPT ![t] = riga]
  <2>1. ASSUME NEW u \in BOOLEAN \cup {Nessuno}, NEW c \in BOOLEAN \cup {Nessuno}, Aggiorna(t, u, c)
        PROVE  \E riga \in ThreadRiga :
                 /\ riga.numero = vecchia.numero /\ riga.coperti = tutti
                 /\ thread' = [thread EXCEPT ![t] = riga]
    <3> DEFINE a == [vecchia EXCEPT !.urgente = IF u = Nessuno THEN @ ELSE u,
                                    !.chiusa = IF c = Nessuno THEN @ ELSE c,
                                    !.coperti = tutti]
    <3>1. a \in ThreadRiga /\ a.numero = vecchia.numero /\ a.coperti = tutti
      BY DEF ThreadRiga
    <3>2. thread' = [thread EXCEPT ![t] = a]
      BY <1>2, <1>3, <2>1 DEF Aggiorna
    <3> HIDE DEF a
    <3>3. QED
      BY <3>1, <3>2
  <2>2. CASE Tocca(t)
    <3> DEFINE a == [vecchia EXCEPT !.coperti = tutti]
    <3>1. a \in ThreadRiga /\ a.numero = vecchia.numero /\ a.coperti = tutti
      BY DEF ThreadRiga
    <3>2. thread' = [thread EXCEPT ![t] = a]
      BY <1>2, <1>3, <2>2 DEF Tocca, ComunicazioniInv, ComunicazioniTipi
    <3> HIDE DEF a
    <3>3. QED
      BY <3>1, <3>2
  <2>3. CASE ThreadElimina(t)
    <3> DEFINE a == [vecchia EXCEPT !.vivo = FALSE, !.coperti = tutti]
    <3>1. a \in ThreadRiga /\ a.numero = vecchia.numero /\ a.coperti = tutti
      BY DEF ThreadRiga
    <3>2. thread' = [thread EXCEPT ![t] = a]
      BY <1>2, <1>3, <2>3 DEF ThreadElimina, ComunicazioniInv, ComunicazioniTipi
    <3> HIDE DEF a
    <3>3. QED
      BY <3>1, <3>2
  <2>4. ASSUME NEW r \in Chiamate, RispondeBump(r), chiamata[r].thread = t
        PROVE  \E riga \in ThreadRiga :
                 /\ riga.numero = vecchia.numero /\ riga.coperti = tutti
                 /\ thread' = [thread EXCEPT ![t] = riga]
    <3> DEFINE a == [vecchia EXCEPT !.urgente = chiamata[r].urgente, !.coperti = tutti]
    <3>1. chiamata[r].urgente \in BOOLEAN
      BY <2>4, ComunicazioniNote DEF RispondeBump, ComunicazioniInv
    <3>2. a \in ThreadRiga /\ a.numero = vecchia.numero /\ a.coperti = tutti
      BY <3>1 DEF ThreadRiga
    <3>3. thread' = [thread EXCEPT ![t] = a]
      BY <1>2, <1>3, <2>4 DEF RispondeBump, ComunicazioniInv, ComunicazioniTipi
    <3> HIDE DEF a
    <3>4. QED
      BY <3>2, <3>3
  <2>5. QED
    BY <2>1, <2>2, <2>3, <2>4
<1>5. thread'[t] = riga
  BY <1>4 DEF ComunicazioniInv, ComunicazioniTipi
<1>6. QED
  BY <1>1, <1>2, <1>3, <1>4, <1>5

LEMMA PassoHeader ==
  ASSUME ComunicazioniInv, NEW t \in Thread,
         \/ \E u, c \in BOOLEAN \cup {Nessuno} : Aggiorna(t, u, c)
         \/ Tocca(t) \/ ThreadElimina(t)
  PROVE  ComunicazioniInv'
<1>1. chiamata' = chiamata
  BY DEF Aggiorna, Tocca, ThreadElimina
<1>2. PICK riga : riga = thread'[t]
  OBVIOUS
<1>3. QED
  BY <1>1, <1>2, HeaderScritto, ThreadCambia DEF ComunicazioniInv, ComunicazioniTipi

LEMMA PassoBump ==
  ASSUME ComunicazioniInv, NEW r \in Chiamate, RispondeBump(r)
  PROVE  ComunicazioniInv'
<1>1. PICK t \in Thread : t = chiamata[r].thread
  BY ComunicazioniNote DEF RispondeBump, ComunicazioniInv
<1>2. PICK riga : riga = thread'[t]
  OBVIOUS
<1>3. chiamata' = [chiamata EXCEPT ![r] = Riposo]
  BY DEF RispondeBump
<1>4. /\ chiamata' \in [Chiamate -> InChiamata \cup {Riposo}]
      /\ \A x \in Chiamate :
            \/ chiamata'[x] = chiamata[x]
            \/ /\ chiamata'[x] = Riposo
               /\ chiamata[x].fase = "scritto" => chiamata[x].thread = t
  BY <1>1, <1>3 DEF ComunicazioniInv, ComunicazioniTipi
<1>5. QED
  BY <1>1, <1>2, <1>4, HeaderScritto, ThreadCambia

\* The insert of a reply: its request has it until the header is updated.
LEMMA PassoRispondeScrive ==
  ASSUME ComunicazioniInv, NEW r \in Chiamate, NEW m \in Messaggi, RispondeScrive(r, m)
  PROVE  ComunicazioniInv'
<1>1. PICK t \in Thread : t = chiamata[r].thread
  BY ComunicazioniNote DEF RispondeScrive, ComunicazioniInv
<1>2. /\ chiamata[r].fase = "letto" /\ chiamata[r].urgente \in BOOLEAN /\ thread[t] # Nessuno
      /\ messaggio[m] = Nessuno
      /\ messaggio' = [messaggio EXCEPT ![m] = t] /\ UNCHANGED <<thread, ultimoCom, interrotti>>
  BY <1>1, ComunicazioniNote DEF RispondeScrive, ComunicazioniInv, Esiste
<1>3. PICK q : q = [fase |-> "scritto", messaggio |-> m, thread |-> t,
                    urgente |-> chiamata[r].urgente]
  OBVIOUS
<1>4. q \in InChiamata /\ q.fase = "scritto" /\ q.messaggio = m /\ q.thread = t
  BY <1>2, <1>3 DEF InChiamata
<1>5. chiamata' = [chiamata EXCEPT ![r] = q]
  BY <1>1, <1>3 DEF RispondeScrive, ComunicazioniInv, ComunicazioniTipi
<1>6. /\ chiamata' \in [Chiamate -> InChiamata \cup {Riposo}] /\ chiamata'[r] = q
      /\ \A x \in Chiamate : x # r => chiamata'[x] = chiamata[x]
      /\ messaggio' \in [Messaggi -> Thread \cup {Nessuno}] /\ messaggio'[m] = t
      /\ \A n \in Messaggi : n # m => messaggio'[n] = messaggio[n]
  BY <1>2, <1>4, <1>5 DEF ComunicazioniInv, ComunicazioniTipi
<1>7. ComunicazioniTipi' /\ IsFiniteSet(Aperti)'
  BY <1>2, <1>6 DEF ComunicazioniInv, ComunicazioniTipi, Aperti, Esiste
<1>8. CodiciSenzaBuchi'
  <2>1. \A x \in Chiamate : chiamata'[x].fase = "numerato" => chiamata'[x].numero = ultimoCom + 1
    BY <1>4, <1>6 DEF ComunicazioniInv, CodiciSenzaBuchi
  <2>2. QED
    BY <1>2, <2>1 DEF ComunicazioniInv, CodiciSenzaBuchi, Aperti, Esiste
<1>9. AttivitaRegistrata'
  <2>1. ASSUME NEW n \in Messaggi, messaggio'[n] # Nessuno
        PROVE  \/ n \in thread[messaggio'[n]].coperti
               \/ n \in interrotti
               \/ \E x \in Chiamate : chiamata'[x].fase = "scritto" /\ chiamata'[x].messaggio = n
    <3>1. CASE n = m
      BY <1>4, <1>6, <3>1
    <3>2. CASE n # m
      <4>1. messaggio'[n] = messaggio[n] /\ Esiste(messaggio, n)
        BY <1>6, <2>1, <3>2 DEF Esiste
      <4>2. \A x \in Chiamate : chiamata[x].fase = "scritto" => chiamata'[x] = chiamata[x]
        BY <1>2, <1>6
      <4>3. QED
        BY <4>1, <4>2 DEF ComunicazioniInv, AttivitaRegistrata
    <3>3. QED
      BY <3>1, <3>2
  <2>2. QED
    BY <1>2, <2>1 DEF AttivitaRegistrata, Esiste
<1>10. \A n \in Messaggi : messaggio'[n] # Nessuno => thread[messaggio'[n]] # Nessuno
  BY <1>2, <1>6 DEF ComunicazioniInv, Esiste
<1>11. \A x \in Chiamate :
         chiamata'[x].fase \in {"letto", "scritto"} => thread[chiamata'[x].thread] # Nessuno
  BY <1>2, <1>4, <1>6 DEF ComunicazioniInv, Esiste
<1>12. \A x \in Chiamate :
         chiamata'[x].fase = "scritto" => messaggio'[chiamata'[x].messaggio] = chiamata'[x].thread
  <2>1. ASSUME NEW x \in Chiamate, x # r, chiamata'[x].fase = "scritto"
        PROVE  messaggio'[chiamata'[x].messaggio] = chiamata'[x].thread
    <3>1. /\ chiamata'[x] = chiamata[x] /\ chiamata[x].messaggio \in Messaggi
          /\ chiamata[x].thread \in Thread
          /\ messaggio[chiamata[x].messaggio] = chiamata[x].thread
      BY <1>6, <2>1, ComunicazioniNote DEF ComunicazioniInv
    <3>2. chiamata[x].messaggio # m
      BY <1>2, <3>1, ComunicazioniAssumption
    <3>3. QED
      BY <1>6, <3>1, <3>2
  <2>2. QED
    BY <1>4, <1>6, <2>1
<1>13. \A x, y \in Chiamate :
         chiamata'[x].fase = "numerato" /\ chiamata'[y].fase = "numerato" => x = y
  BY <1>4, <1>6 DEF ComunicazioniInv
<1>14. QED
  BY <1>2, <1>7, <1>8, <1>9, <1>10, <1>11, <1>12, <1>13 DEF ComunicazioniInv, Esiste

\* The commit of an opening: one thread more, with the next number.
LEMMA PassoConferma ==
  ASSUME ComunicazioniInv, NEW r \in Chiamate, NEW t \in Thread, NEW m \in Messaggi,
         NEW urgente \in BOOLEAN, ApreConferma(r, t, m, urgente)
  PROVE  ComunicazioniInv'
<1>1. PICK k \in Nat : k = ultimoCom
  BY ComunicazioniNote DEF ComunicazioniInv
<1>2. /\ chiamata[r].fase = "numerato" /\ chiamata[r].numero = k + 1
      /\ thread[t] = Nessuno /\ messaggio[m] = Nessuno
  BY <1>1 DEF ApreConferma, Esiste, ComunicazioniInv, CodiciSenzaBuchi
<1>3. PICK riga : riga = [numero |-> k + 1, urgente |-> urgente, chiusa |-> FALSE,
                          vivo |-> TRUE, coperti |-> {m}]
  OBVIOUS
<1>4. riga \in ThreadRiga /\ riga.numero = k + 1 /\ riga.coperti = {m} /\ riga # Nessuno
  <2>1. k + 1 \in Nat
    OBVIOUS
  <2>2. riga \in ThreadRiga
    BY <1>3, <2>1 DEF ThreadRiga
  <2>3. QED
    BY <1>3, <2>2, ComunicazioniAssumption
<1>5. /\ thread' = [thread EXCEPT ![t] = riga] /\ messaggio' = [messaggio EXCEPT ![m] = t]
      /\ ultimoCom' = k + 1 /\ chiamata' = [chiamata EXCEPT ![r] = Riposo]
      /\ UNCHANGED interrotti
  BY <1>2, <1>3 DEF ApreConferma
<1>6. /\ chiamata' \in [Chiamate -> InChiamata \cup {Riposo}] /\ chiamata'[r].fase = "riposo"
      /\ \A x \in Chiamate : x # r => chiamata'[x] = chiamata[x]
      /\ messaggio' \in [Messaggi -> Thread \cup {Nessuno}] /\ messaggio'[m] = t
      /\ \A n \in Messaggi : n # m => messaggio'[n] = messaggio[n]
      /\ thread' \in [Thread -> ThreadRiga \cup {Nessuno}] /\ thread'[t] = riga
      /\ \A u \in Thread : u # t => thread'[u] = thread[u]
      /\ ultimoCom' \in Nat
  BY <1>4, <1>5 DEF ComunicazioniInv, ComunicazioniTipi, Riposo
<1>7. ComunicazioniTipi'
  BY <1>5, <1>6 DEF ComunicazioniInv, ComunicazioniTipi
<1>8. Aperti' = Aperti \cup {t} /\ t \notin Aperti
  BY <1>2, <1>4, <1>6 DEF Aperti, Esiste
<1>9. \A x \in Chiamate : x # r => chiamata[x].fase # "numerato"
  BY <1>2 DEF ComunicazioniInv
<1>10. IsFiniteSet(Aperti)' /\ CodiciSenzaBuchi'
  <2>1. IsFiniteSet(Aperti) /\ Cardinality(Aperti) = k
    BY <1>1 DEF ComunicazioniInv, CodiciSenzaBuchi
  <2>2. IsFiniteSet(Aperti') /\ Cardinality(Aperti') = k + 1
    BY <1>8, <2>1, FS_AddElement
  <2>3. \A u \in Aperti : thread'[u].numero = thread[u].numero
    BY <1>6, <1>8 DEF Aperti
  <2>4. {thread'[u].numero : u \in Aperti'} = {thread[u].numero : u \in Aperti} \cup {k + 1}
    BY <1>4, <1>6, <1>8, <2>3
  <2>5. 1..(k + 1) = (1..k) \cup {k + 1}
    OBVIOUS
  <2>6. \A x \in Chiamate : chiamata'[x].fase # "numerato"
    BY <1>6, <1>9
  <2>7. {thread[u].numero : u \in Aperti} = 1..k
    BY <1>1 DEF ComunicazioniInv, CodiciSenzaBuchi
  <2>8. QED
    BY <1>5, <2>2, <2>4, <2>5, <2>6, <2>7 DEF CodiciSenzaBuchi
<1>11. \A n \in Messaggi : n # m /\ messaggio'[n] # Nessuno =>
          messaggio'[n] = messaggio[n] /\ messaggio[n] \in Thread /\ messaggio[n] # t
          /\ thread[messaggio[n]] # Nessuno
  BY <1>2, <1>6, ComunicazioniNote DEF ComunicazioniInv, Esiste
<1>12. AttivitaRegistrata'
  <2>1. ASSUME NEW n \in Messaggi, messaggio'[n] # Nessuno
        PROVE  \/ n \in thread'[messaggio'[n]].coperti
               \/ n \in interrotti
               \/ \E x \in Chiamate : chiamata'[x].fase = "scritto" /\ chiamata'[x].messaggio = n
    <3>1. CASE n = m
      BY <1>4, <1>6, <3>1
    <3>2. CASE n # m
      <4>1. messaggio'[n] = messaggio[n] /\ Esiste(messaggio, n)
            /\ thread'[messaggio[n]] = thread[messaggio[n]]
        BY <1>6, <1>11, <2>1, <3>2 DEF Esiste
      <4>2. \A x \in Chiamate : chiamata[x].fase = "scritto" => chiamata'[x] = chiamata[x]
        BY <1>2, <1>6
      <4>3. QED
        BY <4>1, <4>2 DEF ComunicazioniInv, AttivitaRegistrata
    <3>3. QED
      BY <3>1, <3>2
  <2>2. QED
    BY <1>5, <2>1 DEF AttivitaRegistrata, Esiste
<1>13. \A n \in Messaggi : messaggio'[n] # Nessuno => thread'[messaggio'[n]] # Nessuno
  BY <1>4, <1>6, <1>11
<1>14. ASSUME NEW x \in Chiamate, chiamata'[x].fase \in {"letto", "scritto"}
       PROVE  /\ thread'[chiamata'[x].thread] # Nessuno
              /\ chiamata'[x].fase = "scritto" =>
                   messaggio'[chiamata'[x].messaggio] = chiamata'[x].thread
  <2>1. chiamata'[x] = chiamata[x]
    BY <1>6, <1>14
  <2>2. chiamata[x].thread \in Thread /\ thread[chiamata[x].thread] # Nessuno
    BY <1>14, <2>1, ComunicazioniNote DEF ComunicazioniInv, Esiste
  <2>3. chiamata[x].fase = "scritto" =>
           /\ chiamata[x].messaggio \in Messaggi /\ chiamata[x].messaggio # m
           /\ messaggio[chiamata[x].messaggio] = chiamata[x].thread
    BY <1>2, <2>2, ComunicazioniNote, ComunicazioniAssumption DEF ComunicazioniInv
  <2>4. QED
    BY <1>2, <1>6, <2>1, <2>2, <2>3
<1>15. \A x, y \in Chiamate :
         chiamata'[x].fase = "numerato" /\ chiamata'[y].fase = "numerato" => x = y
  BY <1>6, <1>9
<1>16. QED
  BY <1>7, <1>10, <1>12, <1>13, <1>14, <1>15 DEF ComunicazioniInv, Esiste

\* Threads, messages and the requests between their transactions keep together,
\* whatever openings and replies run at the same time, stop or are rolled back.
THEOREM ComunicazioniInOrdine == ComunicazioniSpec => []ComunicazioniInv
<1>1. ComunicazioniInit => ComunicazioniInv
  <2> SUFFICES ASSUME ComunicazioniInit PROVE ComunicazioniInv
    OBVIOUS
  <2>1. Aperti = {}
    BY DEF ComunicazioniInit, Aperti, Esiste
  <2>2. IsFiniteSet(Aperti) /\ Cardinality(Aperti) = 0
    BY <2>1, FS_EmptySet
  <2>3. ultimoCom = 0 /\ \A r \in Chiamate : chiamata[r] = Riposo
    BY DEF ComunicazioniInit
  <2>4. CodiciSenzaBuchi
    <3>1. {thread[t].numero : t \in Aperti} = {}
      BY <2>1
    <3>2. 1..ultimoCom = {}
      BY <2>3
    <3>3. QED
      BY <2>2, <2>3, <3>1, <3>2 DEF CodiciSenzaBuchi, Riposo
  <2>5. QED
    BY <2>2, <2>3, <2>4
    DEF ComunicazioniInit, ComunicazioniInv, ComunicazioniTipi, AttivitaRegistrata, Esiste, Riposo
<1>2. ComunicazioniInv /\ [ComunicazioniNext]_comunicazioniVars => ComunicazioniInv'
  <2> SUFFICES ASSUME ComunicazioniInv, [ComunicazioniNext]_comunicazioniVars
               PROVE  ComunicazioniInv'
    OBVIOUS
  <2>1. CASE UNCHANGED comunicazioniVars
    BY <2>1 DEF comunicazioniVars, ComunicazioniInv, ComunicazioniTipi, CodiciSenzaBuchi,
                AttivitaRegistrata, Aperti, Esiste
  <2>2. CASE ComunicazioniNext
    BY <2>2, PassoNumera, PassoConferma, PassoRispondeLegge, PassoRispondeScrive, PassoBump,
       PassoChiamataFallisce, PassoHeader DEF ComunicazioniNext
  <2>3. QED
    BY <2>1, <2>2
<1>3. QED
  BY <1>1, <1>2, PTL DEF ComunicazioniSpec

\* The codes COM-0001, COM-0002, ... have no holes or repetitions, and no
\* opening holds one that is taken, for any number of concurrent openings.
THEOREM CodiciProgressivi == ComunicazioniSpec => []CodiciSenzaBuchi
<1>1. ComunicazioniInv => CodiciSenzaBuchi
  BY DEF ComunicazioniInv
<1>2. QED
  BY <1>1, ComunicazioniInOrdine, PTL

\* A message younger than the updated_at of its thread belongs to a request
\* that is still to move it, or that was stopped before it could.
THEOREM AttivitaInOrdine == ComunicazioniSpec => []AttivitaRegistrata
<1>1. ComunicazioniInv => AttivitaRegistrata
  BY DEF ComunicazioniInv
<1>2. QED
  BY <1>1, ComunicazioniInOrdine, PTL

-----------------------------------------------------------------------------
(* Roles and permissions.                                                  *)

\* What is a catalogue, and what its codes are.
LEMMA CatalogoE ==
  ASSUME NEW g
  PROVE  g \in Catalogo <=> DOMAIN g \in SUBSET Nomi /\ g \in [DOMAIN g -> SUBSET Tutti]
<1>1. ASSUME g \in Catalogo PROVE DOMAIN g \in SUBSET Nomi /\ g \in [DOMAIN g -> SUBSET Tutti]
  <2>1. PICK N \in SUBSET Nomi : g \in [N -> SUBSET Tutti]
    BY <1>1 DEF Catalogo
  <2>2. DOMAIN g = N
    BY <2>1
  <2>3. QED
    BY <2>1, <2>2
<1>2. ASSUME DOMAIN g \in SUBSET Nomi, g \in [DOMAIN g -> SUBSET Tutti] PROVE g \in Catalogo
  BY <1>2 DEF Catalogo
<1>3. QED
  BY <1>1, <1>2

LEMMA DelCatalogo ==
  ASSUME NEW g \in Catalogo
  PROVE  /\ DOMAIN g \subseteq Nomi
         /\ \A n \in DOMAIN g : g[n] \subseteq Tutti
         /\ \A n : Di(g, n) \subseteq Tutti
         /\ g # Nessuno
<1>1. DOMAIN g \in SUBSET Nomi /\ g \in [DOMAIN g -> SUBSET Tutti]
  BY CatalogoE
<1>2. QED
  BY <1>1, CatalogoAssumption DEF Di

LEMMA DelCodice ==
  ASSUME NEW v \in Versioni
  PROVE  /\ DOMAIN v \subseteq Nomi /\ Codici(v) \subseteq Tutti
         /\ \A n \in DOMAIN v : v[n] \subseteq Codici(v)
BY DEF Nomi, Tutti, Codici, Range

\* A seed that is running.
LEMMA SeedNoto ==
  ASSUME CatalogoTipi, seed # SeedFermo
  PROVE  /\ seed \in InSeed /\ seed.catalogo \in Versioni
         /\ seed.fase \in {"permessi", "modelli", "coppie"}
         /\ seed.fase = "permessi" => seed.fatti \in SUBSET Tutti
         /\ seed.fase = "modelli" => seed.fatti \in SUBSET Nomi
         /\ seed.fase = "coppie" => seed.fatti \in SUBSET (Nomi \X Tutti)
<1>1. seed \in InSeed
  BY DEF CatalogoTipi
<1>2. QED
  BY <1>1 DEF InSeed

\* What is proved of a step while no release intervenes.
Confermato ==
    /\ DOMAIN codice \subseteq DOMAIN modelli
    /\ Concorde(modelli)
    /\ \A t \in Studi \ inVolo : Esiste(ruoli, t) => Concorde(ruoli[t])
    /\ \A t \in Studi \ inVolo : Esiste(nascita, t) => Concorde(nascita[t])
    /\ seed # SeedFermo => seed.catalogo = codice

LEMMA CatalogoParti == CatalogoInv <=> CatalogoTipi /\ (verde => Confermato)
BY DEF CatalogoInv, Confermato

LEMMA PassoRilascia ==
  ASSUME CatalogoInv, NEW v \in Versioni, Rilascia(v)
  PROVE  CatalogoInv'
BY DEF Rilascia, CatalogoInv, CatalogoTipi

\* The seed moves on, and writes no template.
LEMMA SeedMuove ==
  ASSUME CatalogoInv, seed' \in InSeed \cup {SeedFermo},
         seed' # SeedFermo =>
            seed'.catalogo = codice \/ (seed # SeedFermo /\ seed'.catalogo = seed.catalogo),
         permessi' \in SUBSET Tutti, UNCHANGED <<codice, modelli, ruoli, nascita, stampato, verde, inVolo>>
  PROVE  CatalogoInv'
<1>1. CatalogoTipi'
  BY DEF CatalogoInv, CatalogoTipi
<1>2. ASSUME verde PROVE Confermato'
  BY <1>2 DEF CatalogoInv, Confermato, Concorde, Esiste, Di
<1>3. QED
  BY <1>1, <1>2 DEF Confermato, CatalogoInv

LEMMA PassoSeedParte ==
  ASSUME CatalogoInv, SeedParte
  PROVE  CatalogoInv'
<1>1. PICK q : q = [fase |-> "permessi", catalogo |-> codice, fatti |-> {}]
  OBVIOUS
<1>2. q \in InSeed /\ q.catalogo = codice
  BY <1>1 DEF InSeed, CatalogoInv, CatalogoTipi
<1>3. QED
  BY <1>1, <1>2, SeedMuove DEF SeedParte, CatalogoInv, CatalogoTipi

LEMMA PassoSeedSiFerma ==
  ASSUME CatalogoInv, SeedSiFerma
  PROVE  CatalogoInv'
BY SeedMuove DEF SeedSiFerma, CatalogoInv, CatalogoTipi

LEMMA PassoAvanza ==
  ASSUME CatalogoInv, seed # SeedFermo, NEW tutti,
         NEW da \in {"permessi", "modelli", "coppie"}, NEW a \in {"modelli", "coppie", "fermo"},
         Avanza(da, tutti, a)
  PROVE  CatalogoInv'
<1>1. CASE a = "fermo"
  <2>1. seed' = SeedFermo /\ UNCHANGED <<codice, permessi, modelli, ruoli, nascita, stampato, verde, inVolo>>
    BY <1>1 DEF Avanza
  <2>2. QED
    BY <2>1, SeedMuove DEF CatalogoInv, CatalogoTipi
<1>2. CASE a # "fermo"
  <2>1. PICK q : q = [seed EXCEPT !.fase = a, !.fatti = {}]
    OBVIOUS
  <2>2. seed \in InSeed
    BY SeedNoto DEF CatalogoInv
  <2>3. q \in InSeed /\ q.catalogo = seed.catalogo
    BY <1>2, <2>1, <2>2 DEF InSeed
  <2>4. seed' = q /\ UNCHANGED <<codice, permessi, modelli, ruoli, nascita, stampato, verde, inVolo>>
    BY <1>2, <2>1 DEF Avanza
  <2>5. QED
    BY <2>3, <2>4, SeedMuove DEF CatalogoInv, CatalogoTipi
<1>3. QED
  BY <1>1, <1>2

LEMMA PassoSeedPermesso ==
  ASSUME CatalogoInv, seed # SeedFermo, NEW p \in Codici(seed.catalogo), SeedPermesso(p)
  PROVE  CatalogoInv'
<1>1. seed \in InSeed /\ seed.fase = "permessi" /\ seed.catalogo \in Versioni
      /\ seed.fatti \in SUBSET Tutti /\ p \in Tutti
  BY SeedNoto, DelCodice DEF CatalogoInv, SeedPermesso
<1>2. PICK q : q = [seed EXCEPT !.fatti = seed.fatti \cup {p}]
  OBVIOUS
<1>3. q \in InSeed /\ q.catalogo = seed.catalogo
  BY <1>1, <1>2 DEF InSeed
<1>4. seed' = q /\ UNCHANGED <<codice, modelli, ruoli, nascita, stampato, verde, inVolo>>
      /\ permessi' \in SUBSET Tutti
  BY <1>1, <1>2 DEF SeedPermesso, CatalogoInv, CatalogoTipi
<1>5. QED
  BY <1>3, <1>4, SeedMuove

\* The seed writes a template, of the code if the gate was green.
LEMMA SeedScrive ==
  ASSUME CatalogoInv, NEW g \in Catalogo, NEW q \in InSeed, seed # SeedFermo,
         modelli' = g, seed' = q, q.catalogo = seed.catalogo,
         UNCHANGED <<codice, permessi, ruoli, nascita, stampato, verde, inVolo>>,
         DOMAIN modelli \subseteq DOMAIN g,
         verde => Concorde(g)
  PROVE  CatalogoInv'
<1>1. CatalogoTipi'
  BY DEF CatalogoInv, CatalogoTipi
<1>2. ASSUME verde PROVE Confermato'
  <2>1. Confermato /\ Concorde(g)
    BY <1>2, CatalogoParti
  <2>2. DOMAIN codice' \subseteq DOMAIN modelli'
    BY <2>1 DEF Confermato
  <2>3. Concorde(modelli)'
    BY <2>1 DEF Concorde, Di
  <2>4. QED
    BY <2>1, <2>2, <2>3 DEF Confermato, Concorde, Esiste, Di
<1>3. QED
  BY <1>1, <1>2 DEF Confermato, CatalogoInv

LEMMA PassoSeedModello ==
  ASSUME CatalogoInv, seed # SeedFermo, NEW n \in DOMAIN seed.catalogo, SeedModello(n)
  PROVE  CatalogoInv'
<1>1. seed \in InSeed /\ seed.fase = "modelli" /\ seed.catalogo \in Versioni
      /\ seed.fatti \in SUBSET Nomi /\ n \in Nomi
  BY SeedNoto, DelCodice DEF CatalogoInv, SeedModello
<1>2. PICK q : q = [seed EXCEPT !.fatti = seed.fatti \cup {n}]
  OBVIOUS
<1>3. q \in InSeed /\ q.catalogo = seed.catalogo
  BY <1>1, <1>2 DEF InSeed
<1>4. PICK g : g = [m \in DOMAIN modelli \cup {n} |-> Di(modelli, m)]
  OBVIOUS
<1>5. DOMAIN g = DOMAIN modelli \cup {n} /\ \A m \in DOMAIN g : g[m] = Di(modelli, m)
  BY <1>4
<1>6. g \in Catalogo
  <2>1. modelli \in Catalogo
    BY DEF CatalogoInv, CatalogoTipi
  <2>2. DOMAIN modelli \subseteq Nomi /\ \A m : Di(modelli, m) \subseteq Tutti
    BY <2>1, DelCatalogo
  <2>3. g \in [DOMAIN g -> SUBSET Tutti]
    BY <1>4, <2>2
  <2>4. QED
    BY <1>1, <1>5, <2>2, <2>3, CatalogoE
<1>7. verde => Concorde(g)
  <2>1. SUFFICES ASSUME verde PROVE Concorde(g)
    OBVIOUS
  <2>2. /\ DOMAIN codice \subseteq DOMAIN modelli /\ Concorde(modelli)
        /\ n \in DOMAIN codice
    BY <2>1 DEF CatalogoInv
  <2>3. DOMAIN g = DOMAIN modelli
    BY <1>5, <2>2
  <2>4. QED
    BY <1>5, <2>2, <2>3 DEF Concorde, Di
<1>8. /\ modelli' = g /\ seed' = q
      /\ UNCHANGED <<codice, permessi, ruoli, nascita, stampato, verde, inVolo>>
  BY <1>2, <1>4 DEF SeedModello
<1>9. QED
  BY <1>3, <1>5, <1>6, <1>7, <1>8, SeedScrive

LEMMA PassoSeedCoppia ==
  ASSUME CatalogoInv, seed # SeedFermo, NEW n, NEW p, SeedCoppia(n, p)
  PROVE  CatalogoInv'
<1>1. /\ seed \in InSeed /\ seed.fase = "coppie" /\ seed.catalogo \in Versioni
      /\ seed.fatti \in SUBSET (Nomi \X Tutti)
      /\ n \in DOMAIN seed.catalogo /\ p \in seed.catalogo[n]
  BY SeedNoto DEF CatalogoInv, SeedCoppia, Coppie
<1>2. n \in Nomi /\ p \in Tutti
  BY <1>1, DelCodice
<1>3. PICK q : q = [seed EXCEPT !.fatti = seed.fatti \cup {<<n, p>>}]
  OBVIOUS
<1>4. q \in InSeed /\ q.catalogo = seed.catalogo
  <2>1. seed.fatti \cup {<<n, p>>} \in SUBSET (Nomi \X Tutti)
    BY <1>1, <1>2
  <2>2. QED
    BY <1>1, <1>3, <2>1 DEF InSeed
<1>5. PICK g : g = [modelli EXCEPT ![n] = modelli[n] \cup {p}]
  OBVIOUS
<1>6. modelli \in Catalogo /\ DOMAIN modelli \in SUBSET Nomi
      /\ modelli \in [DOMAIN modelli -> SUBSET Tutti]
  BY CatalogoE DEF CatalogoInv, CatalogoTipi
<1>7. /\ DOMAIN g = DOMAIN modelli /\ g \in Catalogo
      /\ \A m \in DOMAIN modelli : g[m] = IF m = n THEN modelli[n] \cup {p} ELSE modelli[m]
  <2>1. /\ g \in [DOMAIN modelli -> SUBSET Tutti]
        /\ \A m \in DOMAIN modelli : g[m] = IF m = n THEN modelli[n] \cup {p} ELSE modelli[m]
    BY <1>2, <1>5, <1>6
  <2>2. DOMAIN g = DOMAIN modelli
    BY <2>1
  <2>3. QED
    BY <1>6, <2>1, <2>2, CatalogoE
<1>8. verde => Concorde(g)
  <2>1. SUFFICES ASSUME verde PROVE Concorde(g)
    OBVIOUS
  <2>2. /\ Concorde(modelli) /\ seed.catalogo = codice
        /\ n \in DOMAIN codice /\ p \in codice[n]
    BY <1>1, <2>1 DEF CatalogoInv
  <2>3. QED
    BY <1>7, <2>2 DEF Concorde, Di
<1>9. /\ modelli' = g /\ seed' = q
      /\ UNCHANGED <<codice, permessi, ruoli, nascita, stampato, verde, inVolo>>
  BY <1>3, <1>5 DEF SeedCoppia
<1>10. QED
  BY <1>4, <1>7, <1>8, <1>9, SeedScrive

LEMMA PassoSeed ==
  ASSUME CatalogoInv, SeedPasso
  PROVE  CatalogoInv'
BY PassoSeedPermesso, PassoSeedModello, PassoSeedCoppia, PassoAvanza DEF SeedPasso

\* The bootstrap reads the templates, and gives its tenant what it has read.
LEMMA PassoNascita ==
  ASSUME CatalogoInv, NEW t \in Studi,
         NascitaLegge(t) \/ NascitaConferma(t) \/ NascitaFallisce(t)
  PROVE  CatalogoInv'
<1>1. /\ ruoli \in [Studi -> Catalogo \cup {Nessuno}]
      /\ nascita \in [Studi -> Catalogo \cup {Nessuno}] /\ modelli \in Catalogo
      /\ modelli # Nessuno
  BY DelCatalogo DEF CatalogoInv, CatalogoTipi
<1>2. /\ UNCHANGED <<codice, permessi, modelli, seed, stampato, verde>>
      /\ \/ nascita' = [nascita EXCEPT ![t] = modelli] /\ inVolo' = inVolo \ {t} /\ ruoli[t] = Nessuno
         \/ nascita' = [nascita EXCEPT ![t] = Nessuno] /\ inVolo' = inVolo
      /\ \/ ruoli' = ruoli
         \/ /\ ruoli' = [ruoli EXCEPT ![t] = nascita[t]] /\ Esiste(nascita, t)
            /\ inVolo' = inVolo
  BY DEF NascitaLegge, NascitaConferma, NascitaFallisce, Esiste
<1>3. CatalogoTipi'
  BY <1>1, <1>2 DEF CatalogoInv, CatalogoTipi
<1>4. ASSUME verde PROVE Confermato'
  <2>1. Confermato
    BY <1>4, CatalogoParti
  <2>2. ASSUME NEW u \in Studi \ inVolo', ruoli'[u] # Nessuno PROVE Concorde(ruoli'[u])
    BY <1>1, <1>2, <2>1, <2>2 DEF Confermato, Esiste
  <2>3. ASSUME NEW u \in Studi \ inVolo', nascita'[u] # Nessuno PROVE Concorde(nascita'[u])
    BY <1>1, <1>2, <2>1, <2>3 DEF Confermato, Esiste
  <2>4. QED
    BY <1>2, <2>1, <2>2, <2>3 DEF Confermato, Concorde, Di, Esiste
<1>5. QED
  BY <1>2, <1>3, <1>4 DEF Confermato, CatalogoInv

\* A green gate with nothing left over: roles and templates are those of the
\* code.
LEMMA PassoGate ==
  ASSUME CatalogoInv, Gate
  PROVE  CatalogoInv'
<1>1. CatalogoTipi'
  BY DEF Gate, CatalogoInv, CatalogoTipi, C2
<1>2. UNCHANGED <<codice, modelli, ruoli, nascita, seed>>
  BY DEF Gate
<1>3. ASSUME verde, inVolo' = inVolo PROVE Confermato'
  <2>1. Confermato
    BY <1>3, CatalogoParti
  <2>2. QED
    BY <1>2, <1>3, <2>1 DEF Confermato, Concorde, Di, Esiste
<1>4. ASSUME verde', ~verde PROVE Confermato'
  <2>1. /\ Verde(codice) /\ ~Residui(codice) /\ DelRilascio(seed)
        /\ inVolo' = {t \in Studi : Esiste(nascita, t)}
    BY <1>4 DEF Gate
  <2>2. DOMAIN codice \subseteq DOMAIN modelli /\ Concorde(modelli)
    BY <2>1 DEF Verde, C1, Residui, Concorde, Di
  <2>3. ASSUME NEW t \in Studi, Esiste(ruoli, t), NEW n \in DOMAIN ruoli[t]
        PROVE  ruoli[t][n] = Di(codice, n)
    <3>1. t \in Nati
      BY <2>3 DEF Nati
    <3>2. n \in DOMAIN codice
      BY <2>1, <2>3, <3>1 DEF Verde, C4
    <3>3. <<t, n>> \in Esaminati(codice)
      BY <2>3, <3>1, <3>2 DEF Esaminati
    <3>4. codice[n] \subseteq ruoli[t][n] /\ ruoli[t][n] \subseteq codice[n]
      BY <2>1, <3>3 DEF Verde, C2, C3
    <3>5. QED
      BY <3>2, <3>4 DEF Di
  <2>4. \A t \in Studi \ inVolo' : Esiste(ruoli, t) => Concorde(ruoli[t])
    BY <2>3 DEF Concorde
  <2>5. \A t \in Studi \ inVolo' : ~Esiste(nascita, t)
    BY <2>1
  <2>6. QED
    BY <1>2, <2>1, <2>2, <2>4, <2>5 DEF Confermato, Concorde, Di, Esiste, DelRilascio
<1>5. verde => verde' /\ inVolo' = inVolo
  BY DEF Gate
<1>6. QED
  BY <1>1, <1>3, <1>4, <1>5 DEF CatalogoInv, Confermato

\* The remedy adds what the templates have.
LEMMA PassoRimedio ==
  ASSUME CatalogoInv, Rimedio
  PROVE  CatalogoInv'
<1>1. UNCHANGED <<codice, permessi, modelli, seed, nascita, stampato, verde, inVolo>>
  BY DEF Rimedio
<1>2. modelli \in Catalogo /\ \A t \in Studi : ruoli[t] \in Catalogo \cup {Nessuno}
  BY DEF CatalogoInv, CatalogoTipi
<1>3. ASSUME NEW t \in Studi, Esiste(ruoli, t)
      PROVE  /\ ruoli'[t] \in Catalogo /\ DOMAIN ruoli'[t] = DOMAIN ruoli[t]
             /\ \A n \in DOMAIN ruoli[t] : ruoli'[t][n] = ruoli[t][n] \cup Di(modelli, n)
  <2>1. PICK g \in Catalogo : g = ruoli[t]
    BY <1>2, <1>3 DEF Esiste
  <2>2. ruoli'[t] = [n \in DOMAIN g |-> g[n] \cup Di(modelli, n)]
    BY <1>3, <2>1 DEF Rimedio, Nati
  <2>3. PICK h : h = ruoli'[t]
    OBVIOUS
  <2>4. DOMAIN h = DOMAIN g /\ \A n \in DOMAIN g : h[n] = g[n] \cup Di(modelli, n)
    BY <2>2, <2>3
  <2>5. DOMAIN g \in SUBSET Nomi /\ \A n \in DOMAIN g : g[n] \cup Di(modelli, n) \in SUBSET Tutti
    BY <1>2, DelCatalogo
  <2>6. h \in [DOMAIN h -> SUBSET Tutti]
    BY <2>2, <2>3, <2>4, <2>5
  <2>7. h \in Catalogo
    BY <2>4, <2>5, <2>6, CatalogoE
  <2>8. QED
    BY <2>1, <2>3, <2>4, <2>7
<1>4. \A t \in Studi : ~Esiste(ruoli, t) => ruoli'[t] = Nessuno
  BY DEF Rimedio, Nati
<1>5. ruoli' \in [Studi -> Catalogo \cup {Nessuno}]
  BY <1>3, <1>4 DEF Rimedio
<1>6. CatalogoTipi'
  BY <1>1, <1>5 DEF CatalogoInv, CatalogoTipi
<1>7. ASSUME verde PROVE Confermato'
  <2>1. Confermato
    BY <1>7, CatalogoParti
  <2>2. ASSUME NEW t \in Studi \ inVolo, ruoli'[t] # Nessuno, NEW n \in DOMAIN ruoli'[t]
        PROVE  ruoli'[t][n] = Di(codice, n)
    <3>1. Esiste(ruoli, t) /\ n \in DOMAIN ruoli[t]
      BY <1>3, <1>4, <2>2
    <3>2. ruoli'[t][n] = ruoli[t][n] \cup Di(modelli, n)
      BY <1>3, <3>1
    <3>3. ruoli[t][n] = Di(codice, n)
      BY <2>1, <3>1 DEF Confermato, Concorde
    <3>4. Di(modelli, n) \subseteq Di(codice, n)
      BY <2>1 DEF Confermato, Concorde, Di
    <3>5. QED
      BY <3>2, <3>3, <3>4
  <2>3. QED
    BY <1>1, <2>1, <2>2 DEF Confermato, Concorde, Di, Esiste
<1>8. QED
  BY <1>1, <1>6, <1>7 DEF Confermato, CatalogoInv

\* After a green gate nothing that may still write roles has anything but what
\* the code says: the templates, the seed in progress, the tenants, born or about
\* to be, except those whose bootstrap had read the templates before the gate.
THEOREM CatalogoInOrdine == CatalogoSpec => []CatalogoInv
<1>1. CatalogoInit => CatalogoInv
  <2> SUFFICES ASSUME CatalogoInit PROVE CatalogoInv
    OBVIOUS
  <2>1. modelli \in Catalogo
    <3>1. DOMAIN modelli = {} /\ modelli \in [DOMAIN modelli -> SUBSET Tutti]
      BY DEF CatalogoInit, NessunCatalogo
    <3>2. QED
      BY <3>1, CatalogoE
  <2>2. QED
    BY <2>1 DEF CatalogoInit, CatalogoInv, CatalogoTipi
<1>2. CatalogoInv /\ [CatalogoNext]_catalogoVars => CatalogoInv'
  <2> SUFFICES ASSUME CatalogoInv, [CatalogoNext]_catalogoVars PROVE CatalogoInv'
    OBVIOUS
  <2>1. CASE UNCHANGED catalogoVars
    BY <2>1 DEF catalogoVars, CatalogoInv, CatalogoTipi, Concorde, Di, Esiste
  <2>2. CASE CatalogoNext
    BY <2>2, PassoRilascia, PassoSeedParte, PassoSeed, PassoSeedSiFerma, PassoNascita,
       PassoGate, PassoRimedio DEF CatalogoNext
  <2>3. QED
    BY <2>1, <2>2
<1>3. QED
  BY <1>1, <1>2, PTL DEF CatalogoSpec

\* Until the next release the roles of every tenant, except those in flight at
\* the green gate, keep the permissions of the code, whatever seed or bootstrap
\* runs and however often the SQL that some gate has printed is run again.
THEOREM RuoliComeIlCodice == CatalogoSpec => []VerdeDura
<1>1. CatalogoInv => VerdeDura
  BY DEF CatalogoInv, VerdeDura, Concorde, Nati
<1>2. QED
  BY <1>1, CatalogoInOrdine, PTL

-----------------------------------------------------------------------------
(* Threads as both sides see them.                                         *)

\* Updates of a header are not seen.
LEMMA HeaderNonSiVede ==
  ASSUME ComunicazioniInv, NEW t \in Thread,
         \/ \E u, c \in BOOLEAN \cup {Nessuno} : Aggiorna(t, u, c)
         \/ Tocca(t) \/ ThreadElimina(t)
         \/ \E r \in Chiamate : RispondeBump(r) /\ chiamata[r].thread = t
  PROVE  UNCHANGED <<NumeriDati, messaggio, ultimoCom>>
<1>1. PICK riga : riga = thread'[t]
  OBVIOUS
<1>2. /\ Esiste(thread, t) /\ UNCHANGED <<messaggio, ultimoCom>>
      /\ riga \in ThreadRiga /\ riga.numero = thread[t].numero
      /\ thread' = [thread EXCEPT ![t] = riga]
  BY <1>1, HeaderScritto
<1>3. riga # Nessuno /\ \A u \in Thread : u # t => thread'[u] = thread[u]
  BY <1>2, ComunicazioniAssumption
<1>4. \A u \in Thread : /\ thread'[u] # Nessuno <=> thread[u] # Nessuno
                        /\ thread[u] # Nessuno => thread'[u].numero = thread[u].numero
  BY <1>1, <1>2, <1>3 DEF Esiste
<1>5. NumeriDati' = NumeriDati
  BY <1>4 DEF NumeriDati, Esiste
<1>6. QED
  BY <1>2, <1>5

\* The insert of a reply is a reply of the register.
LEMMA InserimentoRisponde ==
  ASSUME ComunicazioniInv, NEW r \in Chiamate, NEW m \in Messaggi, RispondeScrive(r, m)
  PROVE  RegistroCom!ThreadPasso
<1>1. PICK t \in Thread : t = chiamata[r].thread /\ Esiste(thread, t)
  BY ComunicazioniNote DEF RispondeScrive, ComunicazioniInv
<1>2. thread[t].numero \in Nat
  BY <1>1, ComunicazioniNote DEF ComunicazioniInv, ThreadRiga
<1>3. NumeriDati[t] # Nessuno
  BY <1>1, <1>2, ComunicazioniAssumption DEF NumeriDati
<1>4. /\ messaggio[m] = Nessuno /\ messaggio' = [messaggio EXCEPT ![m] = t]
      /\ NumeriDati' = NumeriDati /\ ultimoCom' = ultimoCom
  BY <1>1 DEF RispondeScrive, Esiste, NumeriDati
<1>5. RegistroCom!Risponde(t, m)
  BY <1>3, <1>4 DEF RegistroCom!Risponde, RegistroCom!Scrive
<1>6. QED
  BY <1>5 DEF RegistroCom!ThreadPasso

\* The commit of an opening is an opening of the register: it had the next number.
LEMMA ConfermaApre ==
  ASSUME ComunicazioniInv, NEW r \in Chiamate, NEW t \in Thread, NEW m \in Messaggi,
         NEW urgente \in BOOLEAN, ApreConferma(r, t, m, urgente)
  PROVE  RegistroCom!ThreadPasso
<1>1. /\ ultimoCom \in Nat /\ chiamata[r].numero = ultimoCom + 1
      /\ thread[t] = Nessuno /\ messaggio[m] = Nessuno
  BY ComunicazioniNote DEF ApreConferma, Esiste, ComunicazioniInv, CodiciSenzaBuchi
<1>2. PICK riga : riga = [numero |-> ultimoCom + 1, urgente |-> urgente, chiusa |-> FALSE,
                          vivo |-> TRUE, coperti |-> {m}]
  OBVIOUS
<1>3. riga # Nessuno /\ riga.numero = ultimoCom + 1
  <2>1. riga \in ThreadRiga
    BY <1>1, <1>2 DEF ThreadRiga
  <2>2. QED
    BY <1>2, <2>1, ComunicazioniAssumption
<1>4. /\ thread' = [thread EXCEPT ![t] = riga] /\ messaggio' = [messaggio EXCEPT ![m] = t]
      /\ ultimoCom' = ultimoCom + 1
  BY <1>1, <1>2 DEF ApreConferma
<1>5. thread'[t] = riga /\ \A u \in Thread : u # t => thread'[u] = thread[u]
  BY <1>4 DEF ComunicazioniInv, ComunicazioniTipi
<1>6. NumeriDati' = [NumeriDati EXCEPT ![t] = ultimoCom + 1]
  BY <1>3, <1>5 DEF NumeriDati, Esiste
<1>7. NumeriDati[t] = Nessuno
  BY <1>1 DEF NumeriDati, Esiste
<1>8. RegistroCom!Apre(t, m)
  BY <1>1, <1>4, <1>6, <1>7 DEF RegistroCom!Apre, RegistroCom!Scrive
<1>9. QED
  BY <1>8 DEF RegistroCom!ThreadPasso

\* Every step is one of the register or is not seen.
LEMMA PassoDeiThread ==
  ComunicazioniInv /\ [ComunicazioniNext]_comunicazioniVars
    => [RegistroCom!ThreadPasso]_(RegistroCom!registroThreadVars)
<1> SUFFICES ASSUME ComunicazioniInv, [ComunicazioniNext]_comunicazioniVars
             PROVE  RegistroCom!ThreadPasso \/ UNCHANGED <<NumeriDati, messaggio, ultimoCom>>
  BY DEF RegistroCom!registroThreadVars
<1>1. CASE UNCHANGED <<thread, messaggio, ultimoCom>>
  BY <1>1 DEF NumeriDati, Esiste
<1>2. ASSUME NEW r \in Chiamate,
             ApreNumera(r) \/ ChiamataFallisce(r) \/ \E t \in Thread : RispondeLegge(r, t)
      PROVE  UNCHANGED <<thread, messaggio, ultimoCom>>
  BY <1>2 DEF ApreNumera, ChiamataFallisce, RispondeLegge
<1>3. ASSUME NEW r \in Chiamate, RispondeBump(r)
      PROVE  UNCHANGED <<NumeriDati, messaggio, ultimoCom>>
  <2>1. chiamata[r].thread \in Thread
    BY <1>3, ComunicazioniNote DEF RispondeBump, ComunicazioniInv
  <2>2. QED
    BY <1>3, <2>1, HeaderNonSiVede
<1>4. CASE UNCHANGED comunicazioniVars
  BY <1>1, <1>4 DEF comunicazioniVars
<1>5. CASE ComunicazioniNext
  BY <1>1, <1>2, <1>3, <1>5, HeaderNonSiVede, InserimentoRisponde, ConfermaApre
  DEF ComunicazioniNext
<1>6. QED
  BY <1>4, <1>5

\* Threads and messages behave as RegistroThread promises to both sides, whatever
\* openings and replies run at the same time, stop or are rolled back.
THEOREM RealizzaThread == ComunicazioniSpec => RegistroThreadSpec
<1>1. ComunicazioniInit => RegistroCom!ThreadInizio
  BY DEF ComunicazioniInit, RegistroCom!ThreadInizio, NumeriDati, Esiste
<1>2. QED
  BY <1>1, PassoDeiThread, ComunicazioniInOrdine, PTL
     DEF ComunicazioniSpec, RegistroThreadSpec, RegistroCom!ThreadSpec

-----------------------------------------------------------------------------
(* Circulars and readings as the report may rely on them.                  *)

\* The update by id moves the state of its circular as its operation says.
LEMMA ScritturaMuove ==
  ASSUME CircolariInv, NEW s \in Studio, NEW conf \in BOOLEAN, NEW dest \in SUBSET Aziende,
         NEW c \in Circolare, c = studio[s].circolare, StudioScrive(s, dest, conf)
  PROVE  /\ Esiste(circolare, c) /\ circolare'[c] # Nessuno
         /\ studio[s].fase \in Operazioni
         /\ circolare'[c].stato =
              IF studio[s].fase = "pubblica" THEN "pubblicata"
              ELSE IF studio[s].fase = "archivia" THEN "archiviata" ELSE circolare[c].stato
         /\ \A d \in Circolare : d # c => circolare'[d] = circolare[d]
         /\ UNCHANGED lettura
<1>1. PICK op \in Operazioni : op = studio[s].fase
  BY CircolariNote DEF StudioScrive, CircolariInv, InStudio
<1>2. Esiste(circolare, c) /\ circolare[c] \in CircolareRiga
  BY CircolariNote DEF StudioScrive, CircolariInv
<1>3. PICK vecchia \in CircolareRiga : vecchia = circolare[c]
  BY <1>2
<1>4. PICK riga : riga =
         CASE op = "modifica" -> [vecchia EXCEPT !.destinatari = dest, !.conferma = conf]
           [] op = "pubblica" -> [vecchia EXCEPT !.stato = "pubblicata"]
           [] op = "archivia" -> [vecchia EXCEPT !.stato = "archiviata"]
           [] op = "elimina"  -> [vecchia EXCEPT !.viva = FALSE]
  OBVIOUS
<1>5. /\ riga \in CircolareRiga
      /\ riga.stato = IF op = "pubblica" THEN "pubblicata"
                      ELSE IF op = "archivia" THEN "archiviata" ELSE vecchia.stato
  <2>1. CASE op = "modifica"
    BY <1>4, <2>1 DEF CircolareRiga
  <2>2. CASE op = "pubblica"
    BY <1>4, <2>2 DEF CircolareRiga, StatiCircolare
  <2>3. CASE op = "archivia"
    BY <1>4, <2>3 DEF CircolareRiga, StatiCircolare
  <2>4. CASE op = "elimina"
    BY <1>4, <2>4 DEF CircolareRiga
  <2>5. QED
    BY <2>1, <2>2, <2>3, <2>4 DEF Operazioni
<1>6. circolare' = [circolare EXCEPT ![c] = riga] /\ UNCHANGED lettura
  BY <1>1, <1>3, <1>4 DEF StudioScrive, CircolariInv, CircolariTipi
<1>7. circolare'[c] = riga /\ \A d \in Circolare : d # c => circolare'[d] = circolare[d]
  BY <1>6 DEF CircolariInv, CircolariTipi
<1>8. riga # Nessuno
  BY <1>5, CircolariAssumption
<1>9. QED
  BY <1>1, <1>2, <1>3, <1>5, <1>6, <1>7, <1>8

\* What is no draft stays none, whatever step is taken.
LEMMA MaiPiuBozza ==
  ASSUME CircolariInv, CircolariNext, NEW d \in Circolare, Esiste(circolare, d),
         circolare[d].stato # "bozza"
  PROVE  circolare'[d].stato # "bozza"
<1>1. ASSUME NEW c \in Circolare, NEW conf \in BOOLEAN, NEW dest \in SUBSET Aziende,
             CircolareCrea(c, dest, conf)
      PROVE  circolare'[d] = circolare[d]
  BY <1>1 DEF CircolareCrea, CircolariInv, CircolariTipi, Esiste
<1>2. ASSUME NEW s \in Studio, NEW conf \in BOOLEAN, NEW dest \in SUBSET Aziende,
             StudioScrive(s, dest, conf)
      PROVE  circolare'[d].stato # "bozza"
  <2>1. PICK c \in Circolare : c = studio[s].circolare
    BY <1>2, CircolariNote DEF StudioScrive, CircolariInv, InStudio
  <2>2. QED
    BY <1>2, <2>1, ScritturaMuove
<1>3. ASSUME CircolariFallisce PROVE circolare' = circolare
  BY <1>3 DEF CircolariFallisce
<1>4. QED
  BY <1>1, <1>2, <1>3 DEF CircolariNext, StudioLegge, ClienteApre, ConfermaLegge,
     ClienteSegna, ConfermaScrive

\* Requests of the studio only change by being taken or ended.
LEMMA StudioPreso ==
  ASSUME CircolariInv, CircolariNext, NEW s \in Studio, studio'[s] # Libera
  PROVE  \/ studio'[s] = studio[s]
         \/ \E c \in Circolare, op \in Operazioni : StudioLegge(s, c, op)
<1>1. studio \in [Studio -> InStudio \cup {Libera}]
  BY DEF CircolariInv, CircolariTipi
<1>2. ASSUME NEW x \in Studio, NEW c \in Circolare, NEW op \in Operazioni, StudioLegge(x, c, op), x # s
      PROVE  studio'[s] = studio[s]
  BY <1>1, <1>2 DEF StudioLegge
<1>3. ASSUME NEW x \in Studio, NEW conf \in BOOLEAN, NEW dest \in SUBSET Aziende,
             StudioScrive(x, dest, conf)
      PROVE  studio'[s] = studio[s]
  BY <1>1, <1>3 DEF StudioScrive
<1>4. ASSUME CircolariFallisce PROVE studio'[s] = studio[s]
  BY <1>1, <1>4 DEF CircolariFallisce
<1>5. QED
  BY <1>2, <1>3, <1>4 DEF CircolariNext, CircolareCrea, ClienteApre, ConfermaLegge,
     ClienteSegna, ConfermaScrive

\* An archiving under way has not a draft to archive.
THEOREM ArchivioSenzaBozze == CircolariSpec => []NonTornaBozza
<1>1. CircolariInit => NonTornaBozza
  BY DEF CircolariInit, NonTornaBozza
<1>2. CircolariInv /\ NonTornaBozza /\ [CircolariNext]_circolariVars => NonTornaBozza'
  <2> SUFFICES ASSUME CircolariInv, NonTornaBozza, [CircolariNext]_circolariVars
               PROVE  NonTornaBozza'
    OBVIOUS
  <2>1. CASE UNCHANGED circolariVars
    BY <2>1 DEF circolariVars, NonTornaBozza
  <2>2. CASE CircolariNext
    <3>1. ASSUME NEW s \in Studio, studio'[s] # Libera, studio'[s].letto # "bozza"
          PROVE  circolare'[studio'[s].circolare].stato # "bozza"
      <4>1. CASE studio'[s] = studio[s]
        <5>1. PICK c \in Circolare : c = studio[s].circolare
          BY <3>1, <4>1, CircolariNote DEF CircolariInv, InStudio
        <5>2. Esiste(circolare, c) /\ circolare[c].stato # "bozza"
          BY <3>1, <4>1, <5>1 DEF CircolariInv, NonTornaBozza
        <5>3. QED
          BY <2>2, <4>1, <5>1, <5>2, MaiPiuBozza
      <4>2. ASSUME NEW c \in Circolare, NEW op \in Operazioni, StudioLegge(s, c, op)
            PROVE  circolare'[studio'[s].circolare].stato # "bozza"
        <5>1. studio'[s] = [fase |-> op, circolare |-> c, letto |-> circolare[c].stato]
              /\ circolare' = circolare
          BY <4>2 DEF StudioLegge, CircolariInv, CircolariTipi
        <5>2. studio'[s].circolare = c /\ studio'[s].letto = circolare[c].stato
          BY <5>1
        <5>3. QED
          BY <3>1, <5>1, <5>2
      <4>3. QED
        BY <2>2, <3>1, <4>1, <4>2, StudioPreso
    <3>2. QED
      BY <3>1 DEF NonTornaBozza
  <2>3. QED
    BY <2>1, <2>2
<1>3. QED
  BY <1>1, <1>2, CircolariInOrdine, PTL DEF CircolariSpec

\* What the report shows of circulars only moves with them.
LEMMA StatoMostratoMuove ==
  ASSUME CircolariInv, NEW c \in Circolare, NEW stato, circolare'[c] # Nessuno,
         circolare'[c].stato = stato, \A d \in Circolare : d # c => circolare'[d] = circolare[d]
  PROVE  StatoMostrato' = [StatoMostrato EXCEPT ![c] = stato]
BY DEF StatoMostrato, Esiste

\* A new circular is one written in the register.
LEMMA CreaScritta ==
  ASSUME CircolariInv, NEW c \in Circolare, NEW conf \in BOOLEAN, NEW dest \in SUBSET Aziende,
         CircolareCrea(c, dest, conf)
  PROVE  RegistroCir!LetturePasso
<1>1. PICK riga : riga = [stato |-> "bozza", destinatari |-> dest, conferma |-> conf, viva |-> TRUE]
  OBVIOUS
<1>2. riga \in CircolareRiga /\ riga.stato = "bozza"
  BY <1>1 DEF CircolareRiga, StatiCircolare
<1>3. /\ riga # Nessuno /\ circolare[c] = Nessuno
      /\ circolare' = [circolare EXCEPT ![c] = riga] /\ UNCHANGED lettura
  BY <1>1, <1>2, CircolariAssumption DEF CircolareCrea, Esiste
<1>4. circolare'[c] = riga /\ \A d \in Circolare : d # c => circolare'[d] = circolare[d]
  BY <1>3 DEF CircolariInv, CircolariTipi
<1>5. StatoMostrato' = [StatoMostrato EXCEPT ![c] = "bozza"]
  BY <1>2, <1>3, <1>4, StatoMostratoMuove
<1>6. StatoMostrato[c] = "assente"
  BY <1>3 DEF StatoMostrato, Esiste
<1>7. RegistroCir!Scritta(c)
  BY <1>3, <1>5, <1>6 DEF RegistroCir!Scritta
<1>8. QED
  BY <1>7 DEF RegistroCir!LetturePasso

\* An update by id publishes, archives, or is not seen.
LEMMA ScritturaVista ==
  ASSUME CircolariInv, NonTornaBozza, NEW s \in Studio, NEW conf \in BOOLEAN,
         NEW dest \in SUBSET Aziende, StudioScrive(s, dest, conf)
  PROVE  RegistroCir!LetturePasso \/ UNCHANGED <<StatoMostrato, lettura>>
<1>1. PICK c \in Circolare : c = studio[s].circolare
  BY CircolariNote DEF StudioScrive, CircolariInv, InStudio
<1>2. PICK op \in Operazioni : op = studio[s].fase
  BY <1>1, ScritturaMuove
<1>3. PICK nuovo : nuovo = IF op = "pubblica" THEN "pubblicata"
                           ELSE IF op = "archivia" THEN "archiviata" ELSE circolare[c].stato
  OBVIOUS
<1>4. /\ Esiste(circolare, c) /\ circolare'[c] # Nessuno /\ circolare'[c].stato = nuovo
      /\ \A d \in Circolare : d # c => circolare'[d] = circolare[d]
      /\ UNCHANGED lettura
  BY <1>1, <1>2, <1>3, ScritturaMuove
<1>5. StatoMostrato' = [StatoMostrato EXCEPT ![c] = nuovo]
  BY <1>4, StatoMostratoMuove
<1>6. StatoMostrato[c] = circolare[c].stato /\ circolare[c].stato \in StatiCircolare
  BY <1>4, CircolariNote DEF CircolariInv, StatoMostrato, CircolareRiga
<1>7. CASE nuovo = circolare[c].stato
  <2>1. StatoMostrato' = StatoMostrato
    BY <1>5, <1>6, <1>7 DEF StatoMostrato
  <2>2. QED
    BY <1>4, <2>1
<1>8. CASE op = "pubblica" /\ nuovo # circolare[c].stato
  <2>1. RegistroCir!Pubblica(c)
    BY <1>3, <1>4, <1>5, <1>6, <1>8 DEF RegistroCir!Pubblica, StatiCircolare
  <2>2. QED
    BY <2>1 DEF RegistroCir!LetturePasso
<1>9. CASE op = "archivia" /\ nuovo # circolare[c].stato
  <2>1. studio[s] # Libera /\ studio[s].letto = "pubblicata"
    BY <1>2, <1>9 DEF StudioScrive, CircolariInv, StatoRichiesto
  <2>2. circolare[c].stato # "bozza"
    BY <1>1, <2>1 DEF NonTornaBozza
  <2>3. RegistroCir!Archivia(c)
    BY <1>3, <1>4, <1>5, <1>6, <1>9, <2>2 DEF RegistroCir!Archivia, StatiCircolare
  <2>4. QED
    BY <2>3 DEF RegistroCir!LetturePasso
<1>10. QED
  BY <1>3, <1>7, <1>8, <1>9

\* Readings as the report shows them.
LettureMostrate ==
    [c \in Circolare |-> [u \in Utenti |-> LetturaMostrata(lettura[c][u])]]

\* An upsert moves the reading of its user only.
LEMMA LetturaMuove ==
  ASSUME CircolariInv, NEW c \in Circolare, NEW u \in Utenti, NEW x \in LetturaRiga,
         lettura' = [lettura EXCEPT ![c][u] = x]
  PROVE  LettureMostrate' = [LettureMostrate EXCEPT ![c][u] = LetturaMostrata(x)]
<1>1. lettura \in [Circolare -> [Utenti -> LetturaRiga \cup {Nessuno}]]
  BY DEF CircolariInv, CircolariTipi
<1>2. \A d \in Circolare, w \in Utenti :
         lettura'[d][w] = IF d = c /\ w = u THEN x ELSE lettura[d][w]
  BY <1>1
<1>3. \A d \in Circolare, w \in Utenti :
         LetturaMostrata(lettura'[d][w]) =
           IF d = c /\ w = u THEN LetturaMostrata(x) ELSE LetturaMostrata(lettura[d][w])
  BY <1>2
<1>4. QED
  BY <1>3 DEF LettureMostrate

\* The upsert of a client reads or confirms, or is not seen.
LEMMA UpsertVisto ==
  ASSUME CircolariInv, NEW p \in Portale, ClienteSegna(p) \/ ConfermaScrive(p)
  PROVE  RegistroCir!LetturePasso \/ UNCHANGED <<circolare, lettura>>
<1>1. portale[p] # Libera /\ UNCHANGED circolare
  BY DEF ClienteSegna, ConfermaScrive, Libera
<1>2. PICK c \in Circolare, u \in Utenti :
         c = portale[p].circolare /\ u = portale[p].utente
  BY <1>1, CircolariNote DEF CircolariInv, InPortale
<1>3. Esiste(circolare, c) /\ circolare[c].stato # "bozza" /\ circolare[c] \in CircolareRiga
  BY <1>1, <1>2, CircolariNote DEF CircolariInv, HaVisto
<1>4. StatoMostrato[c] \in {"pubblicata", "archiviata"} /\ StatoMostrato' = StatoMostrato
  BY <1>1, <1>3 DEF StatoMostrato, CircolareRiga, StatiCircolare, Esiste
<1>5. PICK vecchia : vecchia = lettura[c][u]
  OBVIOUS
<1>6. LettureMostrate[c][u] = LetturaMostrata(vecchia)
  BY <1>5 DEF LettureMostrate
<1>7. PICK si \in LetturaRiga, no \in LetturaRiga :
         si = [confermata |-> TRUE] /\ no = [confermata |-> FALSE]
  BY DEF LetturaRiga
<1>8. LetturaMostrata(si) = "confermata" /\ LetturaMostrata(no) = "letta"
  BY <1>7, CircolariAssumption DEF LetturaMostrata
<1>9. CASE ClienteSegna(p) /\ vecchia # Nessuno
  BY <1>1, <1>2, <1>5, <1>9 DEF ClienteSegna, Esiste
<1>10. CASE ClienteSegna(p) /\ vecchia = Nessuno
  <2>1. lettura' = [lettura EXCEPT ![c][u] = no]
    BY <1>2, <1>5, <1>7, <1>10 DEF ClienteSegna, Esiste
  <2>2. LettureMostrate' = [LettureMostrate EXCEPT ![c][u] = "letta"]
    BY <1>8, <2>1, LetturaMuove
  <2>3. LettureMostrate[c][u] = "nessuna"
    BY <1>6, <1>10 DEF LetturaMostrata
  <2>4. RegistroCir!Legge(c, u)
    BY <1>4, <2>2, <2>3 DEF RegistroCir!Legge, LettureMostrate
  <2>5. QED
    BY <2>4 DEF RegistroCir!LetturePasso
<1>11. CASE ConfermaScrive(p)
  <2>1. lettura' = [lettura EXCEPT ![c][u] = si]
    BY <1>2, <1>7, <1>11 DEF ConfermaScrive
  <2>2. LettureMostrate' = [LettureMostrate EXCEPT ![c][u] = "confermata"]
    BY <1>8, <2>1, LetturaMuove
  <2>3. CASE vecchia # Nessuno /\ vecchia.confermata
    <3>1. vecchia = si
      BY <1>5, <1>7, <2>3, CircolariNote DEF CircolariInv, Esiste, LetturaRiga
    <3>2. lettura' = lettura
      BY <1>5, <2>1, <3>1 DEF CircolariInv, CircolariTipi
    <3>3. QED
      BY <1>1, <3>2
  <2>4. CASE ~(vecchia # Nessuno /\ vecchia.confermata)
    <3>1. LettureMostrate[c][u] \in {"nessuna", "letta"}
      BY <1>6, <2>4 DEF LetturaMostrata
    <3>2. RegistroCir!Conferma(c, u)
      BY <1>4, <2>2, <3>1 DEF RegistroCir!Conferma, LettureMostrate
    <3>3. QED
      BY <3>2 DEF RegistroCir!LetturePasso
  <2>5. QED
    BY <2>3, <2>4
<1>12. QED
  BY <1>9, <1>10, <1>11

\* Every step is one of the register or is not seen.
LEMMA PassoDelleLetture ==
  CircolariInv /\ NonTornaBozza /\ [CircolariNext]_circolariVars
    => [RegistroCir!LetturePasso]_(RegistroCir!registroLettureVars)
<1> SUFFICES ASSUME CircolariInv, NonTornaBozza, [CircolariNext]_circolariVars
             PROVE  RegistroCir!LetturePasso \/ UNCHANGED <<StatoMostrato, LettureMostrate>>
  BY DEF RegistroCir!registroLettureVars, LettureMostrate
<1>1. ASSUME UNCHANGED lettura PROVE UNCHANGED LettureMostrate
  BY <1>1 DEF LettureMostrate
<1>2. ASSUME UNCHANGED <<circolare, lettura>> PROVE UNCHANGED <<StatoMostrato, LettureMostrate>>
  BY <1>1, <1>2 DEF StatoMostrato, Esiste
<1>3. ASSUME NEW p \in Portale, NEW u \in Utenti, NEW c \in Circolare,
             ClienteApre(p, u, c) \/ ConfermaLegge(p, u, c)
      PROVE  UNCHANGED <<circolare, lettura>>
  BY <1>3 DEF ClienteApre, ConfermaLegge
<1>4. ASSUME NEW s \in Studio, NEW c \in Circolare, NEW op \in Operazioni, StudioLegge(s, c, op)
      PROVE  UNCHANGED <<circolare, lettura>>
  BY <1>4 DEF StudioLegge
<1>5. ASSUME NEW s \in Studio, NEW dest \in SUBSET Aziende, NEW conf \in BOOLEAN,
             StudioScrive(s, dest, conf)
      PROVE  RegistroCir!LetturePasso \/ UNCHANGED <<StatoMostrato, LettureMostrate>>
  BY <1>1, <1>5, ScritturaVista
<1>6. ASSUME CircolariFallisce PROVE UNCHANGED <<circolare, lettura>>
  BY <1>6 DEF CircolariFallisce
<1>7. CASE UNCHANGED circolariVars
  BY <1>2, <1>7 DEF circolariVars
<1>8. CASE CircolariNext
  BY <1>2, <1>3, <1>4, <1>5, <1>6, <1>8, CreaScritta, UpsertVisto DEF CircolariNext
<1>9. QED
  BY <1>7, <1>8

\* Circulars and readings behave as RegistroLetture lets the report rely on:
\* no draft is read, no reading forgotten, no confirmation taken back, whatever
\* operators and clients do at the same time.
THEOREM RealizzaLetture == CircolariSpec => RegistroLettureSpec
<1>1. CircolariInit => RegistroCir!LettureInizio
  BY DEF CircolariInit, RegistroCir!LettureInizio, StatoMostrato, LetturaMostrata, Esiste
<1>2. QED
  BY <1>1, PassoDelleLetture, CircolariInOrdine, ArchivioSenzaBozze, PTL
     DEF CircolariSpec, RegistroLettureSpec, RegistroCir!LettureSpec
=============================================================================
