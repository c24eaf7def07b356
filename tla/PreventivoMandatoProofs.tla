------------------------ MODULE PreventivoMandatoProofs ------------------------
(***************************************************************************)
(* Theorems about PreventivoMandato, for every set of quotes, mandates,    *)
(* services, row sets and requests.  They come from ContrattiInv, which    *)
(* every step of every request preserves.                                  *)
(***************************************************************************)
EXTENDS PreventivoMandato, FiniteSetTheorems, TLAPS

\* What a committed write leaves alone: no row disappears, none changes the
\* quote or the mandate it belongs to, a mandate keeps its number and amount,
\* and one that is deleted does not come back.
Cresce ==
    /\ \A p \in Preventivi : preventivo[p] # Nessuno => preventivo'[p] # Nessuno
    /\ \A p \in Preventivi : offerti[p] \subseteq offerti'[p]
    /\ \A v \in Voci : voce[v] # Nessuno => voce'[v] \in {voce[v], Tolta}
    /\ \A m \in Mandati : mandato[m] # Nessuno =>
         /\ mandato'[m] # Nessuno
         /\ mandato'[m].preventivo = mandato[m].preventivo
         /\ mandato'[m].numero = mandato[m].numero
         /\ mandato'[m].importo = mandato[m].importo
         /\ mandato'[m].vivo => mandato[m].vivo
    /\ \A x \in Prestazioni : prestazione[x] # Nessuno =>
         /\ prestazione'[x] # Nessuno
         /\ prestazione'[x].mandato = prestazione[x].mandato

\* Rows are as the types say.
LEMMA Tipi ==
  ASSUME TypeOK
  PROVE  /\ \A p \in Preventivi : preventivo[p] # Nessuno => preventivo[p] \in Preventivo
         /\ \A v \in Voci : voce[v] \in Preventivi \cup {Nessuno, Tolta}
         /\ \A m \in Mandati : mandato[m] # Nessuno => mandato[m] \in MandatoRiga
         /\ \A x \in Prestazioni : prestazione[x] # Nessuno => prestazione[x] \in PrestazioneRiga
         /\ \A r \in Richieste : req[r] \in Richiesta
  BY DEF TypeOK

LEMMA FermaOK == Ferma \in Richiesta /\ Ferma.fase = "ferma"
  BY DEF Ferma, Richiesta, Fasi

\* The initial state: no rows, no number, no requests.
LEMMA InizioInv == Init => ContrattiInv
<1> SUFFICES ASSUME Init PROVE ContrattiInv
  OBVIOUS
<1>1. TypeOK
  BY FermaOK DEF Init, TypeOK
<1>2. Emessi = {}
  BY DEF Init, Emessi
<1>3. IsFiniteSet(Emessi) /\ Cardinality(Emessi) = 0
  BY <1>2, FS_EmptySet
<1>4. NumeriSenzaBuchi
  <2>1. {mandato[m].numero : m \in Emessi} = {}
    BY <1>2
  <2>2. contatore = 0 /\ 1..0 = {}
    BY DEF Init
  <2>3. QED
    BY <1>3, <2>1, <2>2 DEF NumeriSenzaBuchi
<1>5. /\ \A r \in Richieste : Sa(req[r])
      /\ LucchettiEsclusivi
  BY FermaOK DEF Init, Sa, LucchettiEsclusivi
<1>6. RigheCollegate /\ AccettatiOfferti
  BY NessunoAssumption DEF Init, RigheCollegate, AccettatiOfferti, Presente
<1>7. UnMandatoVivo /\ TotaleDelleVoci /\ ImportoAccettato /\ VoceDelPreventivo
  BY <1>2 DEF Init, UnMandatoVivo, TotaleDelleVoci, ImportoAccettato, VoceDelPreventivo, Vivo
<1>8. QED
  BY <1>1, <1>3, <1>4, <1>5, <1>6, <1>7 DEF ContrattiInv

\* What a request knows stays true while others write, if its number and the
\* rows it is deleting are not touched.
LEMMA SaResta ==
  ASSUME TypeOK, RigheCollegate, Cresce, NEW q \in Richiesta, Sa(q),
         q.fase = "modifica" => \A v \in Voci : voce'[v] = q.preventivo <=> voce[v] = q.preventivo,
         q.fase = "numerato" => contatore' = contatore
  PROVE  Sa(q)'
<1>1. q.fase \in {"modifica", "converti", "numerato"} =>
         q.preventivo \in Preventivi /\ preventivo'[q.preventivo] # Nessuno
  BY DEF Sa, Cresce
<1>2. q.fase = "modifica" => VociDi(q.preventivo)' = VociDi(q.preventivo)
  BY DEF VociDi
<1>3. q.fase \in {"converti", "numerato"} => q.totale \in offerti'[q.preventivo]
  BY DEF Sa, Cresce
<1>4. q.fase = "registra" =>
         /\ mandato'[q.mandato] # Nessuno
         /\ q.voce # Nessuno => voce'[q.voce] \in {mandato'[q.mandato].preventivo, Tolta}
  <2> SUFFICES ASSUME q.fase = "registra"
               PROVE  /\ mandato'[q.mandato] # Nessuno
                      /\ q.voce # Nessuno => voce'[q.voce] \in {mandato'[q.mandato].preventivo, Tolta}
    OBVIOUS
  <2>1. q.mandato \in Mandati /\ mandato[q.mandato] # Nessuno
    BY DEF Sa
  <2>2. mandato'[q.mandato] # Nessuno /\ mandato'[q.mandato].preventivo = mandato[q.mandato].preventivo
    BY <2>1 DEF Cresce
  <2>3. mandato[q.mandato].preventivo \in Preventivi
    BY <2>1, Tipi DEF MandatoRiga
  <2>4. q.voce # Nessuno => q.voce \in Voci /\ voce[q.voce] # Nessuno
    BY <2>3, NessunoAssumption DEF Sa, Richiesta
  <2>5. QED
    BY <2>2, <2>4 DEF Sa, Cresce
<1>5. q.fase = "correggi" =>
         /\ prestazione'[q.prestazione] # Nessuno
         /\ LET m == prestazione'[q.prestazione].mandato
            IN  mandato'[m] # Nessuno /\ mandato'[m].vivo
                  => voce'[q.voce] \in {mandato'[m].preventivo, Tolta}
  <2> SUFFICES ASSUME q.fase = "correggi"
               PROVE  /\ prestazione'[q.prestazione] # Nessuno
                      /\ LET m == prestazione'[q.prestazione].mandato
                         IN  mandato'[m] # Nessuno /\ mandato'[m].vivo
                               => voce'[q.voce] \in {mandato'[m].preventivo, Tolta}
    OBVIOUS
  <2> DEFINE m == prestazione[q.prestazione].mandato
  <2>1. q.prestazione \in Prestazioni /\ prestazione[q.prestazione] # Nessuno
    BY DEF Sa
  <2>2. prestazione'[q.prestazione] # Nessuno /\ prestazione'[q.prestazione].mandato = m
    BY <2>1 DEF Cresce
  <2>3. m \in Mandati
    BY <2>1, Tipi DEF PrestazioneRiga
  <2>4. mandato[m] # Nessuno
    BY <2>1 DEF RigheCollegate
  <2>5. /\ mandato'[m].preventivo = mandato[m].preventivo
        /\ mandato'[m].vivo => mandato[m].vivo
    BY <2>3, <2>4 DEF Cresce
  <2>6. q.voce \in Voci /\ (mandato[m].vivo => voce[q.voce] \in {mandato[m].preventivo, Tolta})
    BY <2>4 DEF Sa, Vivo
  <2>7. mandato[m].preventivo \in Preventivi
    BY <2>3, <2>4, Tipi DEF MandatoRiga
  <2>8. mandato[m].vivo => voce'[q.voce] \in {mandato[m].preventivo, Tolta}
    BY <2>6, <2>7, NessunoAssumption DEF Cresce
  <2> HIDE DEF m
  <2>9. QED
    BY <2>2, <2>5, <2>8
<1>6. QED
  BY <1>1, <1>2, <1>3, <1>4, <1>5 DEF Sa, Vivo
\* A write that touches no lock of the others leaves them what they know.
LEMMA RichiesteRestano ==
  ASSUME ContrattiInv, Cresce,
         \A x \in Richieste :
            \/ req'[x] = Ferma
            \/ /\ req'[x] = req[x]
               /\ req[x].fase = "modifica" =>
                    \A v \in Voci : voce'[v] = req[x].preventivo <=> voce[v] = req[x].preventivo
               /\ req[x].fase = "numerato" => contatore' = contatore
  PROVE  (\A x \in Richieste : Sa(req[x])') /\ LucchettiEsclusivi'
<1>1. ASSUME NEW x \in Richieste PROVE Sa(req[x])'
  <2>1. CASE req'[x] = Ferma
    BY <2>1, FermaOK DEF Sa, Ferma
  <2>2. CASE req'[x] # Ferma
    <3>1. PICK q \in Richiesta : q = req[x] /\ q = req'[x]
      BY <2>2, Tipi DEF ContrattiInv
    <3>2. Sa(q)
      BY <3>1 DEF ContrattiInv
    <3>3. Sa(q)'
      BY <2>2, <3>1, <3>2, SaResta DEF ContrattiInv
    <3>4. QED
      BY <3>1, <3>3 DEF Sa, Vivo
  <2>3. QED
    BY <2>1, <2>2
<1>2. LucchettiEsclusivi'
  BY FermaOK DEF ContrattiInv, LucchettiEsclusivi
<1>3. QED
  BY <1>1, <1>2

\* A write that issues no mandate leaves the numbering, the one live mandate
\* and the amounts as they are.
LEMMA MandatiRestano ==
  ASSUME ContrattiInv, Cresce, contatore' = contatore,
         \A m \in Mandati : mandato[m] = Nessuno => mandato'[m] = Nessuno
  PROVE  /\ IsFiniteSet(Emessi)'
         /\ NumeriSenzaBuchi'
         /\ UnMandatoVivo'
         /\ ImportoAccettato'
<1>1. Emessi' = Emessi
  BY DEF Cresce, Emessi
<1>2. {mandato'[m].numero : m \in Emessi} = {mandato[m].numero : m \in Emessi}
  BY DEF Cresce, Emessi
<1>3. NumeriSenzaBuchi'
  BY <1>1, <1>2 DEF ContrattiInv, NumeriSenzaBuchi
<1>4. UnMandatoVivo'
  BY DEF ContrattiInv, UnMandatoVivo, Vivo, Cresce
<1>5. ImportoAccettato'
  <2>1. ASSUME NEW m \in Emessi PROVE mandato'[m].importo \in offerti'[mandato'[m].preventivo]
    <3>1. m \in Mandati /\ mandato[m] # Nessuno /\ mandato[m].preventivo \in Preventivi
      BY Tipi DEF ContrattiInv, Emessi, MandatoRiga
    <3>2. QED
      BY <3>1 DEF ContrattiInv, ImportoAccettato, Cresce
  <2>2. QED
    BY <1>1, <2>1 DEF ImportoAccettato
<1>6. QED
  BY <1>1, <1>3, <1>4, <1>5 DEF ContrattiInv

\* A step that writes no table keeps the invariant when what its request now
\* claims is true and the lock it takes was free.
LEMMA LetturaConserva ==
  ASSUME ContrattiInv, NEW r \in Richieste, NEW q \in Richiesta,
         UNCHANGED <<tabelle, offerti>>, req' = [req EXCEPT ![r] = q],
         Sa(q),
         q.fase = "modifica" => ~TestataBloccata(q.preventivo),
         q.fase = "numerato" => ~ContatoreBloccato
  PROVE  ContrattiInv'
<1>1. Cresce
  BY DEF tabelle, Cresce
<1>2. TypeOK'
  BY DEF ContrattiInv, TypeOK, tabelle
<1>3. ASSUME NEW x \in Richieste PROVE Sa(req[x])'
  <2>1. PICK y \in Richiesta : y = req'[x] /\ Sa(y)
    BY <1>2 DEF ContrattiInv, TypeOK
  <2>2. Sa(y)'
    BY <1>1, <2>1, SaResta DEF ContrattiInv, tabelle
  <2>3. req'[x] = y
    BY <2>1
  <2>4. QED
    BY ONLY <2>2, <2>3 DEF Sa
<1>4. LucchettiEsclusivi'
  BY DEF ContrattiInv, TypeOK, LucchettiEsclusivi, TestataBloccata, ContatoreBloccato
<1>5. /\ IsFiniteSet(Emessi)'
      /\ NumeriSenzaBuchi'
      /\ UnMandatoVivo'
      /\ ImportoAccettato'
  BY <1>1, MandatiRestano DEF tabelle
<1>6. RigheCollegate' /\ AccettatiOfferti' /\ TotaleDelleVoci'
  BY DEF ContrattiInv, tabelle, RigheCollegate, AccettatiOfferti, TotaleDelleVoci, VociDi, Presente
<1>7. VoceDelPreventivo'
  BY DEF ContrattiInv, tabelle, VoceDelPreventivo, VoceDelMandato, Vivo, VociDi
<1>8. QED
  BY <1>2, <1>3, <1>4, <1>5, <1>6, <1>7 DEF ContrattiInv

\* A header that is written stays a header, and what it offers is recorded.
LEMMA Scrittura ==
  ASSUME TypeOK, AccettatiOfferti, NEW p \in Preventivi, NEW riga \in Preventivo,
         ScriviPreventivo(p, riga)
  PROVE  /\ preventivo' = [preventivo EXCEPT ![p] = riga]
         /\ preventivo' \in [Preventivi -> Preventivo \cup {Nessuno}]
         /\ offerti' \in [Preventivi -> SUBSET Voci]
         /\ \A x \in Preventivi : preventivo[x] # Nessuno => preventivo'[x] # Nessuno
         /\ preventivo'[p] = riga /\ preventivo'[p] # Nessuno
         /\ \A x \in Preventivi : offerti[x] \subseteq offerti'[x]
         /\ AccettatiOfferti'
<1>1. riga # Nessuno /\ riga.totale \in Voci
  BY RigheAssumption DEF Preventivo
<1>2. QED
  BY <1>1 DEF ScriviPreventivo, TypeOK, AccettatiOfferti

LEMMA CreaConserva ==
  ASSUME ContrattiInv, NEW p \in Preventivi, NEW v \in Voci, NEW s \in StatiPreventivo,
         PreventivoCrea(p, v, s)
  PROVE  ContrattiInv'
<1> DEFINE riga == [stato |-> s, totale |-> v, vivo |-> TRUE]
<1>1. /\ preventivo[p] = Nessuno /\ voce[v] = Nessuno
      /\ ScriviPreventivo(p, riga) /\ riga \in Preventivo
      /\ voce' = [voce EXCEPT ![v] = p]
      /\ UNCHANGED <<mandato, contatore, prestazione, req>>
  BY DEF PreventivoCrea, Preventivo
<1>2. riga.totale = v
  OBVIOUS
<1> HIDE DEF riga
<1>3. /\ preventivo' = [preventivo EXCEPT ![p] = riga]
      /\ preventivo' \in [Preventivi -> Preventivo \cup {Nessuno}]
      /\ offerti' \in [Preventivi -> SUBSET Voci]
      /\ \A x \in Preventivi : preventivo[x] # Nessuno => preventivo'[x] # Nessuno
      /\ preventivo'[p] = riga /\ preventivo'[p] # Nessuno
      /\ \A x \in Preventivi : offerti[x] \subseteq offerti'[x]
      /\ AccettatiOfferti'
  BY <1>1, Scrittura DEF ContrattiInv
<1>4. TypeOK'
  BY <1>1, <1>3 DEF ContrattiInv, TypeOK
<1>5. /\ \A w \in Voci : voce[w] # Nessuno => voce'[w] = voce[w]
      /\ \A w \in Voci, x \in Preventivi : x # p => (voce'[w] = x <=> voce[w] = x)
      /\ \A w \in Voci : voce'[w] = p <=> w = v
  <2>1. \A w \in Voci : voce[w] # p
    BY <1>1 DEF ContrattiInv, RigheCollegate, Presente
  <2>2. QED
    BY <1>1, <2>1, NessunoAssumption DEF ContrattiInv, TypeOK
<1>6. Cresce
  BY <1>1, <1>3, <1>5 DEF Cresce
<1>7. (\A x \in Richieste : Sa(req[x])') /\ LucchettiEsclusivi'
  <2>1. \A x \in Richieste : req[x].fase = "modifica" =>
          req[x].preventivo \in Preventivi /\ req[x].preventivo # p
    BY <1>1 DEF ContrattiInv, Sa
  <2>2. QED
    BY <1>1, <1>5, <1>6, <2>1, RichiesteRestano
<1>8. /\ IsFiniteSet(Emessi)'
      /\ NumeriSenzaBuchi'
      /\ UnMandatoVivo'
      /\ ImportoAccettato'
  BY <1>1, <1>6, MandatiRestano
<1>9. RigheCollegate'
  <2>1. \A w \in Voci : Presente(w)' => preventivo'[voce'[w]] # Nessuno
    BY <1>3, <1>5, <1>1 DEF ContrattiInv, RigheCollegate, Presente, TypeOK
  <2>2. QED
    BY <1>1, <2>1 DEF ContrattiInv, RigheCollegate
<1>10. TotaleDelleVoci'
  <2>1. VociDi(p)' = {v}
    BY <1>5 DEF VociDi
  <2>2. \A x \in Preventivi : x # p => VociDi(x)' = VociDi(x)
    BY <1>5 DEF VociDi
  <2>3. \A x \in Preventivi : x # p => preventivo'[x] = preventivo[x]
    BY <1>3 DEF ContrattiInv, TypeOK
  <2>4. \A x \in Preventivi : preventivo'[x] # Nessuno => VociDi(x)' = {preventivo'[x].totale}
    BY <1>2, <1>3, <2>1, <2>2, <2>3 DEF ContrattiInv, TotaleDelleVoci
  <2>5. QED
    BY <2>4 DEF TotaleDelleVoci, VociDi
<1>11. VoceDelPreventivo'
  BY <1>1, <1>5, Tipi DEF ContrattiInv, VoceDelPreventivo, VoceDelMandato, Vivo, VociDi,
     MandatoRiga, PrestazioneRiga, RigheCollegate
<1>12. QED
  BY <1>3, <1>4, <1>7, <1>8, <1>9, <1>10, <1>11 DEF ContrattiInv

\* A deleted quote keeps its rows and total; nobody is editing it.
LEMMA EliminaConserva ==
  ASSUME ContrattiInv, NEW p \in Preventivi, PreventivoElimina(p)
  PROVE  ContrattiInv'
<1> DEFINE riga == [preventivo[p] EXCEPT !.vivo = FALSE]
<1>1. /\ preventivo[p] # Nessuno
      /\ preventivo' = [preventivo EXCEPT ![p] = riga]
      /\ UNCHANGED <<voce, mandato, contatore, prestazione, req, offerti>>
  BY DEF PreventivoElimina
<1>2. /\ riga \in Preventivo /\ riga # Nessuno
      /\ riga.totale = preventivo[p].totale /\ riga.stato = preventivo[p].stato
  BY <1>1, Tipi, RigheAssumption DEF ContrattiInv, Preventivo
<1> HIDE DEF riga
<1>3. TypeOK'
  BY <1>1, <1>2 DEF ContrattiInv, TypeOK
<1>4. \A x \in Preventivi :
         /\ preventivo'[x] = Nessuno <=> preventivo[x] = Nessuno
         /\ preventivo'[x].totale = preventivo[x].totale
         /\ preventivo'[x].stato = preventivo[x].stato
  BY <1>1, <1>2 DEF ContrattiInv, TypeOK
<1>5. Cresce
  BY <1>1, <1>4 DEF Cresce
<1>6. (\A x \in Richieste : Sa(req[x])') /\ LucchettiEsclusivi'
  BY <1>1, <1>5, RichiesteRestano
<1>7. /\ IsFiniteSet(Emessi)'
      /\ NumeriSenzaBuchi'
      /\ UnMandatoVivo'
      /\ ImportoAccettato'
  BY <1>1, <1>5, MandatiRestano
<1>8. RigheCollegate' /\ AccettatiOfferti' /\ TotaleDelleVoci'
  BY <1>1, <1>4 DEF ContrattiInv, RigheCollegate, AccettatiOfferti, TotaleDelleVoci, VociDi, Presente
<1>9. VoceDelPreventivo'
  BY <1>1 DEF ContrattiInv, VoceDelPreventivo, VoceDelMandato, Vivo, VociDi
<1>10. QED
  BY <1>3, <1>6, <1>7, <1>8, <1>9 DEF ContrattiInv

\* Deleting a mandate, or changing its state, touches neither its quote nor
\* its number or amount.
LEMMA MandatoConserva ==
  ASSUME ContrattiInv, NEW m \in Mandati, NEW riga \in MandatoRiga,
         mandato[m] # Nessuno,
         mandato' = [mandato EXCEPT ![m] = riga],
         riga.preventivo = mandato[m].preventivo,
         riga.numero = mandato[m].numero,
         riga.importo = mandato[m].importo,
         riga.vivo => mandato[m].vivo,
         UNCHANGED <<preventivo, voce, contatore, prestazione, req, offerti>>
  PROVE  ContrattiInv'
<1>1. riga # Nessuno
  BY RigheAssumption
<1>2. TypeOK'
  BY DEF ContrattiInv, TypeOK
<1>3. Cresce
  BY <1>1 DEF ContrattiInv, TypeOK, Cresce
<1>4. (\A x \in Richieste : Sa(req[x])') /\ LucchettiEsclusivi'
  BY <1>3, RichiesteRestano
<1>5. /\ IsFiniteSet(Emessi)'
      /\ NumeriSenzaBuchi'
      /\ UnMandatoVivo'
      /\ ImportoAccettato'
  BY <1>3, MandatiRestano DEF ContrattiInv, TypeOK
<1>6. RigheCollegate' /\ AccettatiOfferti' /\ TotaleDelleVoci'
  BY <1>1 DEF ContrattiInv, TypeOK, RigheCollegate, AccettatiOfferti, TotaleDelleVoci, VociDi, Presente,
              PrestazioneRiga
<1>7. VoceDelPreventivo'
  <2>1. \A n \in Mandati : Vivo(mandato, n)' =>
          Vivo(mandato, n) /\ mandato'[n].preventivo = mandato[n].preventivo
    BY DEF ContrattiInv, TypeOK, Vivo
  <2>2. \A x \in Prestazioni : prestazione[x] # Nessuno => prestazione[x].mandato \in Mandati
    BY Tipi DEF ContrattiInv, PrestazioneRiga
  <2>3. QED
    BY <2>1, <2>2 DEF ContrattiInv, VoceDelPreventivo, VoceDelMandato, VociDi, Vivo
<1>8. QED
  BY <1>2, <1>4, <1>5, <1>6, <1>7 DEF ContrattiInv

\* A service is written with a row that is there, hence of the quote of its
\* mandate, or its request writes nothing.
LEMMA PrestazioneConserva ==
  ASSUME ContrattiInv, NEW x \in Prestazioni, NEW riga \in PrestazioneRiga,
         prestazione' = [prestazione EXCEPT ![x] = riga],
         prestazione[x] # Nessuno => riga.mandato = prestazione[x].mandato,
         mandato[riga.mandato] # Nessuno,
         Vivo(mandato, riga.mandato) => VoceDelMandato(riga.voce, riga.mandato),
         \A r \in Richieste : req'[r] = req[r] \/ req'[r] = Ferma,
         req' \in [Richieste -> Richiesta],
         UNCHANGED <<preventivo, voce, mandato, contatore, offerti>>
  PROVE  ContrattiInv'
<1>1. riga # Nessuno
  BY RigheAssumption
<1>2. TypeOK'
  BY DEF ContrattiInv, TypeOK
<1>3. Cresce
  BY <1>1 DEF ContrattiInv, TypeOK, Cresce
<1>4. (\A r \in Richieste : Sa(req[r])') /\ LucchettiEsclusivi'
  BY <1>3, RichiesteRestano
<1>5. /\ IsFiniteSet(Emessi)'
      /\ NumeriSenzaBuchi'
      /\ UnMandatoVivo'
      /\ ImportoAccettato'
  BY <1>3, MandatiRestano
<1>6. RigheCollegate' /\ AccettatiOfferti' /\ TotaleDelleVoci'
  BY <1>1 DEF ContrattiInv, TypeOK, RigheCollegate, AccettatiOfferti, TotaleDelleVoci, VociDi, Presente
<1>7. VoceDelPreventivo'
  BY DEF ContrattiInv, TypeOK, VoceDelPreventivo, VoceDelMandato, VociDi, Vivo
<1>8. QED
  BY <1>2, <1>4, <1>5, <1>6, <1>7 DEF ContrattiInv

\* A request that ends without a write.
LEMMA RispostaConserva ==
  ASSUME ContrattiInv, NEW r \in Richieste, Rispondi(r), UNCHANGED <<tabelle, offerti>>
  PROVE  ContrattiInv'
<1>1. Sa(Ferma)
  BY FermaOK DEF Sa, Ferma
<1>2. QED
  BY <1>1, FermaOK, LetturaConserva DEF Rispondi

\* The rows of the quote are replaced by others, or left as they are, and the
\* total with them; services that named a deleted row name none.
LEMMA ModificaConserva ==
  ASSUME ContrattiInv, NEW r \in Richieste, ModificaConferma(r)
  PROVE  ContrattiInv'
<1> DEFINE via == req[r].tolte
           stato == StatoScritto(r)
<1>1. /\ req[r].fase = "modifica"
      /\ prestazione' = [x \in Prestazioni |->
           IF prestazione[x] # Nessuno /\ prestazione[x].voce \in via
             THEN [prestazione[x] EXCEPT !.voce = Nessuno]
             ELSE prestazione[x]]
      /\ req' = [req EXCEPT ![r] = Ferma]
      /\ UNCHANGED <<mandato, contatore>>
  BY DEF ModificaConferma, Rispondi
<1>2. PICK p \in Preventivi :
      /\ p = req[r].preventivo /\ preventivo[p] # Nessuno
      /\ via = IF req[r].righe THEN VociDi(p) ELSE {}
      /\ preventivo[p] \in Preventivo
      /\ stato \in StatiPreventivo
  BY <1>1, Tipi DEF ContrattiInv, Sa, StatoScritto, Preventivo, Richiesta
<1>3. PICK t \in Voci :
        /\ ScriviPreventivo(p, [preventivo[p] EXCEPT !.stato = stato, !.totale = t])
        /\ \/ /\ ~req[r].righe /\ t = preventivo[p].totale /\ voce' = voce
           \/ /\ req[r].righe /\ voce[t] = Nessuno
              /\ voce' = [[v \in Voci |-> IF v \in via THEN Tolta ELSE voce[v]] EXCEPT ![t] = p]
  <2>1. CASE ~req[r].righe
    <3>1. /\ ScriviPreventivo(p, [preventivo[p] EXCEPT !.stato = stato])
          /\ voce' = voce
      BY <1>2, <2>1 DEF ModificaConferma
    <3>2. [preventivo[p] EXCEPT !.stato = stato, !.totale = preventivo[p].totale]
            = [preventivo[p] EXCEPT !.stato = stato]
      BY <1>2 DEF Preventivo
    <3>3. preventivo[p].totale \in Voci
      BY <1>2 DEF Preventivo
    <3>4. QED
      BY <2>1, <3>1, <3>2, <3>3
  <2>2. CASE req[r].righe
    BY <1>2, <2>2 DEF ModificaConferma
  <2>3. QED
    BY <2>1, <2>2
<1> DEFINE riga == [preventivo[p] EXCEPT !.stato = stato, !.totale = t]
<1>4. riga \in Preventivo /\ riga.totale = t
  BY <1>2 DEF Preventivo
<1>5. via \in SUBSET Voci
  BY <1>1, Tipi DEF ContrattiInv, Richiesta
<1> HIDE DEF via, stato, riga
<1>6. /\ preventivo' = [preventivo EXCEPT ![p] = riga]
      /\ preventivo' \in [Preventivi -> Preventivo \cup {Nessuno}]
      /\ offerti' \in [Preventivi -> SUBSET Voci]
      /\ \A x \in Preventivi : preventivo[x] # Nessuno => preventivo'[x] # Nessuno
      /\ preventivo'[p] = riga /\ preventivo'[p] # Nessuno
      /\ \A x \in Preventivi : offerti[x] \subseteq offerti'[x]
      /\ AccettatiOfferti'
  BY <1>2, <1>3, <1>4, Scrittura DEF ContrattiInv, riga
<1>7. /\ voce' \in [Voci -> Preventivi \cup {Nessuno, Tolta}]
      /\ \A v \in Voci : voce[v] # Nessuno => voce'[v] \in {voce[v], Tolta}
      /\ \A v \in Voci : v \notin via /\ voce[v] # Nessuno => voce'[v] = voce[v]
      /\ \A v \in Voci, x \in Preventivi : x # p => (voce'[v] = x <=> voce[v] = x)
  BY <1>2, <1>3, <1>5, NessunoAssumption DEF ContrattiInv, TypeOK, VociDi
<1>8. \A x \in Prestazioni :
        IF prestazione[x] # Nessuno /\ prestazione[x].voce \in via
          THEN /\ prestazione'[x] \in PrestazioneRiga
               /\ prestazione'[x] # Nessuno
               /\ prestazione'[x].mandato = prestazione[x].mandato
               /\ prestazione'[x].voce = Nessuno
          ELSE prestazione'[x] = prestazione[x]
  BY <1>1, Tipi, RigheAssumption DEF ContrattiInv, PrestazioneRiga
<1>9. prestazione' \in [Prestazioni -> PrestazioneRiga \cup {Nessuno}]
  BY <1>1, <1>8 DEF ContrattiInv, TypeOK
<1>10. TypeOK'
  BY <1>1, <1>6, <1>7, <1>9, FermaOK DEF ContrattiInv, TypeOK
<1>11. Cresce
  BY <1>1, <1>6, <1>7, <1>8 DEF Cresce
<1>12. (\A x \in Richieste : Sa(req[x])') /\ LucchettiEsclusivi'
  <2>1. \A x \in Richieste : x # r /\ req[x].fase = "modifica" =>
          req[x].preventivo \in Preventivi /\ req[x].preventivo # p
    BY <1>1, <1>2 DEF ContrattiInv, Sa, LucchettiEsclusivi
  <2>2. \A x \in Richieste :
            \/ req'[x] = Ferma
            \/ /\ req'[x] = req[x]
               /\ req[x].fase = "modifica" =>
                    \A v \in Voci : voce'[v] = req[x].preventivo <=> voce[v] = req[x].preventivo
               /\ req[x].fase = "numerato" => contatore' = contatore
    BY <1>1, <1>7, <2>1 DEF ContrattiInv, TypeOK
  <2>3. QED
    BY <1>11, <2>2, RichiesteRestano
<1>13. /\ IsFiniteSet(Emessi)'
       /\ NumeriSenzaBuchi'
       /\ UnMandatoVivo'
       /\ ImportoAccettato'
  BY <1>1, <1>11, MandatiRestano
<1>14. RigheCollegate'
  <2>1. \A v \in Voci : Presente(v)' => preventivo'[voce'[v]] # Nessuno
    BY <1>2, <1>3, <1>6, <1>7, NessunoAssumption DEF ContrattiInv, RigheCollegate, Presente, TypeOK
  <2>2. QED
    BY <1>1, <1>8, <2>1 DEF ContrattiInv, RigheCollegate
<1>15. TotaleDelleVoci'
  <2>1. VociDi(p)' = {t}
    <3>1. VociDi(p) = {preventivo[p].totale}
      BY <1>2 DEF ContrattiInv, TotaleDelleVoci
    <3>2. QED
      BY <1>2, <1>3, <3>1, NessunoAssumption DEF VociDi
  <2>2. \A x \in Preventivi : x # p => VociDi(x)' = VociDi(x)
    BY <1>7 DEF VociDi
  <2>3. \A x \in Preventivi : x # p => preventivo'[x] = preventivo[x]
    BY <1>6 DEF ContrattiInv, TypeOK
  <2>4. \A x \in Preventivi : preventivo'[x] # Nessuno => VociDi(x)' = {preventivo'[x].totale}
    BY <1>4, <1>6, <2>1, <2>2, <2>3 DEF ContrattiInv, TotaleDelleVoci
  <2>5. QED
    BY <2>4 DEF TotaleDelleVoci, VociDi
<1>16. VoceDelPreventivo'
  <2> SUFFICES ASSUME NEW x \in Prestazioni, prestazione'[x] # Nessuno,
                      Vivo(mandato, prestazione'[x].mandato),
                      prestazione'[x].voce # Nessuno
               PROVE  /\ prestazione'[x].voce \in Voci
                      /\ voce'[prestazione'[x].voce] = mandato[prestazione'[x].mandato].preventivo
    BY <1>1 DEF VoceDelPreventivo, VoceDelMandato, VociDi, Vivo
  <2>1. prestazione'[x] = prestazione[x] /\ prestazione[x].voce \notin via
    BY <1>8
  <2>2. /\ prestazione[x].voce \in Voci
        /\ voce[prestazione[x].voce] = mandato[prestazione[x].mandato].preventivo
    BY <2>1 DEF ContrattiInv, VoceDelPreventivo, VoceDelMandato, VociDi
  <2>3. mandato[prestazione[x].mandato].preventivo \in Preventivi
    BY <2>1, Tipi DEF ContrattiInv, PrestazioneRiga, MandatoRiga, Vivo
  <2>4. QED
    BY <1>7, <2>1, <2>2, <2>3, NessunoAssumption
<1>17. QED
  BY <1>6, <1>10, <1>12, <1>13, <1>14, <1>15, <1>16 DEF ContrattiInv

\* A conversion commits: its number is the next one, nobody else holds one, the
\* amount is one the client had accepted and the index has found no live
\* mandate of the quote.
LEMMA ConversioneConserva ==
  ASSUME ContrattiInv, NEW r \in Richieste, NEW m \in Mandati, ConvertiConferma(r, m)
  PROVE  ContrattiInv'
<1>1. PICK p \in Preventivi :
        /\ p = req[r].preventivo /\ preventivo[p] # Nessuno
        /\ req[r].fase = "numerato" /\ req[r].numero = contatore + 1
        /\ req[r].totale \in offerti[p]
  BY DEF ConvertiConferma, ContrattiInv, Sa
<1> DEFINE nuovo == [preventivo |-> p, numero |-> contatore + 1, importo |-> req[r].totale,
                     stato |-> "in_corso", vivo |-> TRUE]
           riga == [preventivo[p] EXCEPT !.stato = "convertito"]
<1>2. /\ ~GiaConvertito(p)
      /\ mandato[m] = Nessuno
      /\ mandato' = [mandato EXCEPT ![m] = nuovo]
      /\ contatore' = contatore + 1
      /\ ScriviPreventivo(p, riga)
      /\ req' = [req EXCEPT ![r] = Ferma]
      /\ UNCHANGED <<voce, prestazione>>
  BY <1>1 DEF ConvertiConferma, Rispondi
<1>3. /\ contatore \in Nat
      /\ offerti[p] \subseteq Voci
      /\ preventivo[p] \in Preventivo
  BY <1>1, Tipi DEF ContrattiInv, TypeOK
<1>4. /\ nuovo \in MandatoRiga /\ nuovo # Nessuno
      /\ nuovo.preventivo = p /\ nuovo.numero = contatore + 1
      /\ nuovo.importo \in offerti[p]
  <2>1. contatore + 1 \in Nat /\ req[r].totale \in Voci /\ "in_corso" \in StatiMandato
    BY <1>1, <1>3, StatiAssumption
  <2>2. nuovo \in MandatoRiga
    BY <2>1 DEF MandatoRiga
  <2>3. nuovo # Nessuno
    BY <2>2, RigheAssumption
  <2>4. QED
    BY <1>1, <2>2, <2>3
<1>5. riga \in Preventivo /\ riga.totale = preventivo[p].totale
  BY <1>3, StatiAssumption DEF Preventivo
<1> HIDE DEF nuovo, riga
<1>6. /\ preventivo' = [preventivo EXCEPT ![p] = riga]
      /\ preventivo' \in [Preventivi -> Preventivo \cup {Nessuno}]
      /\ offerti' \in [Preventivi -> SUBSET Voci]
      /\ \A x \in Preventivi : preventivo[x] # Nessuno => preventivo'[x] # Nessuno
      /\ preventivo'[p] = riga /\ preventivo'[p] # Nessuno
      /\ \A x \in Preventivi : offerti[x] \subseteq offerti'[x]
      /\ AccettatiOfferti'
  BY <1>2, <1>5, Scrittura DEF ContrattiInv
<1>7. TypeOK'
  BY <1>2, <1>3, <1>4, <1>6, FermaOK DEF ContrattiInv, TypeOK
<1>8. mandato'[m] = nuovo /\ \A n \in Mandati : n # m => mandato'[n] = mandato[n]
  BY <1>2 DEF ContrattiInv, TypeOK
<1>9. Cresce
  BY <1>2, <1>6, <1>8 DEF Cresce
<1>10. (\A x \in Richieste : Sa(req[x])') /\ LucchettiEsclusivi'
  <2>1. \A x \in Richieste : x # r => req[x].fase # "numerato" /\ req'[x] = req[x]
    BY <1>1, <1>2 DEF ContrattiInv, TypeOK, LucchettiEsclusivi
  <2>2. req'[r] = Ferma
    BY <1>2 DEF ContrattiInv, TypeOK
  <2>3. \A x \in Richieste :
            \/ req'[x] = Ferma
            \/ /\ req'[x] = req[x]
               /\ req[x].fase = "modifica" =>
                    \A v \in Voci : voce'[v] = req[x].preventivo <=> voce[v] = req[x].preventivo
               /\ req[x].fase = "numerato" => contatore' = contatore
    BY <1>2, <2>1, <2>2
  <2>4. QED
    BY <1>9, <2>3, RichiesteRestano
<1>11. Emessi' = Emessi \cup {m} /\ m \notin Emessi
  BY <1>2, <1>4, <1>8 DEF Emessi
<1>12. IsFiniteSet(Emessi)' /\ NumeriSenzaBuchi'
  <2>1. IsFiniteSet(Emessi) /\ Cardinality(Emessi) = contatore
    BY DEF ContrattiInv, NumeriSenzaBuchi
  <2>2. IsFiniteSet(Emessi') /\ Cardinality(Emessi') = contatore'
    BY <1>2, <1>11, <2>1, FS_AddElement
  <2>3. \A n \in Emessi : mandato'[n].numero = mandato[n].numero
    BY <1>8, <1>11 DEF Emessi
  <2>4. {mandato'[n].numero : n \in Emessi'} = {mandato[n].numero : n \in Emessi} \cup {contatore + 1}
    BY <1>4, <1>8, <1>11, <2>3
  <2>5. 1..contatore' = (1..contatore) \cup {contatore + 1}
    BY <1>2, <1>3
  <2>6. QED
    BY <2>2, <2>4, <2>5 DEF ContrattiInv, NumeriSenzaBuchi
<1>13. UnMandatoVivo'
  BY <1>2, <1>4, <1>8 DEF ContrattiInv, UnMandatoVivo, GiaConvertito, Vivo
<1>14. ImportoAccettato'
  <2>1. ASSUME NEW n \in Emessi PROVE mandato'[n].importo \in offerti'[mandato'[n].preventivo]
    <3>1. /\ mandato[n].importo \in offerti[mandato[n].preventivo]
          /\ mandato[n].preventivo \in Preventivi
          /\ mandato'[n] = mandato[n]
      BY <1>8, <1>11, Tipi DEF ContrattiInv, ImportoAccettato, Emessi, MandatoRiga
    <3>2. QED
      BY <1>6, <3>1
  <2>2. mandato'[m].importo \in offerti'[mandato'[m].preventivo]
    BY <1>4, <1>6, <1>8
  <2>3. QED
    BY <1>11, <2>1, <2>2 DEF ImportoAccettato
<1>15. RigheCollegate'
  BY <1>2, <1>6, <1>9 DEF ContrattiInv, RigheCollegate, Presente, Cresce, TypeOK, PrestazioneRiga
<1>16. TotaleDelleVoci'
  BY <1>1, <1>2, <1>5, <1>6 DEF ContrattiInv, TypeOK, TotaleDelleVoci, VociDi
<1>17. VoceDelPreventivo'
  <2>1. \A x \in Prestazioni : prestazione[x] # Nessuno =>
          prestazione[x].mandato \in Mandati /\ prestazione[x].mandato # m
    BY <1>2, Tipi DEF ContrattiInv, RigheCollegate, PrestazioneRiga
  <2>2. QED
    BY <1>2, <1>8, <2>1 DEF ContrattiInv, VoceDelPreventivo, VoceDelMandato, VociDi, Vivo
<1>18. QED
  BY <1>6, <1>7, <1>10, <1>12, <1>13, <1>14, <1>15, <1>16, <1>17 DEF ContrattiInv

\* The steps that only read, or take a lock.
LEMMA LettureConservano ==
  ASSUME ContrattiInv, NEW r \in Richieste
  PROVE  /\ \A p \in Preventivi, s \in StatiPreventivo \cup {Nessuno}, righe \in BOOLEAN :
              ModificaInizia(r, p, s, righe) => ContrattiInv'
         /\ \A p \in Preventivi : ConvertiLeggi(r, p) => ContrattiInv'
         /\ ConvertiNumera(r) => ContrattiInv'
         /\ ConvertiRifiuta(r) => ContrattiInv'
         /\ \A m \in Mandati, v \in Voci \cup {Nessuno} : RegistraLeggi(r, m, v) => ContrattiInv'
         /\ \A x \in Prestazioni, v \in Voci : CorreggiLeggi(r, x, v) => ContrattiInv'
         /\ Interrompi(r) => ContrattiInv'
<1>1. ASSUME NEW p \in Preventivi, NEW s \in StatiPreventivo \cup {Nessuno}, NEW righe \in BOOLEAN,
             ModificaInizia(r, p, s, righe)
      PROVE  ContrattiInv'
  <2> DEFINE q == [Ferma EXCEPT !.fase = "modifica", !.preventivo = p, !.stato = s, !.righe = righe,
                                !.tolte = IF righe THEN VociDi(p) ELSE {}]
  <2>1. /\ q \in Richiesta /\ q.fase = "modifica" /\ q.preventivo = p /\ q.righe = righe
        /\ q.tolte = IF righe THEN VociDi(p) ELSE {}
    BY DEF Ferma, Richiesta, Fasi, VociDi
  <2>2. /\ preventivo[p] # Nessuno /\ ~TestataBloccata(p)
        /\ req' = [req EXCEPT ![r] = q] /\ UNCHANGED <<tabelle, offerti>>
    BY <1>1 DEF ModificaInizia, Inizia
  <2> HIDE DEF q
  <2>3. Sa(q)
    BY <2>1, <2>2 DEF Sa
  <2>4. QED
    BY <2>1, <2>2, <2>3, LetturaConserva
<1>2. ASSUME NEW p \in Preventivi, ConvertiLeggi(r, p)
      PROVE  ContrattiInv'
  <2> DEFINE q == [Ferma EXCEPT !.fase = "converti", !.preventivo = p,
                                !.totale = preventivo[p].totale]
  <2>1. /\ preventivo[p] # Nessuno /\ preventivo[p].stato = "accettato"
        /\ req' = [req EXCEPT ![r] = q] /\ UNCHANGED <<tabelle, offerti>>
    BY <1>2 DEF ConvertiLeggi, Convertibile, Inizia, Vivo
  <2>2. preventivo[p].totale \in Voci /\ preventivo[p].totale \in offerti[p]
    BY <2>1, Tipi DEF ContrattiInv, AccettatiOfferti, Preventivo
  <2>3. q \in Richiesta /\ q.fase = "converti" /\ q.preventivo = p /\ q.totale = preventivo[p].totale
    BY <2>2 DEF Ferma, Richiesta, Fasi
  <2> HIDE DEF q
  <2>4. Sa(q)
    BY <2>1, <2>2, <2>3 DEF Sa
  <2>5. QED
    BY <2>1, <2>3, <2>4, LetturaConserva
<1>3. ASSUME ConvertiNumera(r)
      PROVE  ContrattiInv'
  <2>0. PICK n \in Nat : n = contatore + 1
    BY DEF ContrattiInv, TypeOK
  <2> DEFINE q == [req[r] EXCEPT !.fase = "numerato", !.numero = n]
  <2>1. /\ req[r] \in Richiesta /\ Sa(req[r])
        /\ req[r].fase = "converti" /\ ~ContatoreBloccato
        /\ req' = [req EXCEPT ![r] = q] /\ UNCHANGED <<tabelle, offerti>>
    BY <1>3, <2>0 DEF ConvertiNumera, ContrattiInv, TypeOK
  <2>2. /\ q \in Richiesta /\ q.fase = "numerato" /\ q.numero = n
        /\ q.preventivo = req[r].preventivo /\ q.totale = req[r].totale
    BY <2>1 DEF Richiesta, Fasi
  <2> HIDE DEF q
  <2>3. Sa(q)
    BY <2>0, <2>1, <2>2 DEF Sa
  <2>4. QED
    BY <2>1, <2>2, <2>3, LetturaConserva
<1>4. ASSUME ConvertiRifiuta(r) \/ Interrompi(r)
      PROVE  ContrattiInv'
  BY <1>4, RispostaConserva DEF ConvertiRifiuta, Interrompi
<1>5. ASSUME NEW m \in Mandati, NEW v \in Voci \cup {Nessuno}, RegistraLeggi(r, m, v)
      PROVE  ContrattiInv'
  <2> DEFINE q == [Ferma EXCEPT !.fase = "registra", !.mandato = m, !.voce = v]
  <2>1. q \in Richiesta /\ q.fase = "registra" /\ q.mandato = m /\ q.voce = v
    BY DEF Ferma, Richiesta, Fasi
  <2>2. /\ mandato[m] # Nessuno
        /\ v # Nessuno => voce[v] = mandato[m].preventivo
        /\ req' = [req EXCEPT ![r] = q] /\ UNCHANGED <<tabelle, offerti>>
    BY <1>5 DEF RegistraLeggi, Inizia, Vivo, VoceDelMandato, VociDi
  <2> HIDE DEF q
  <2>3. Sa(q)
    BY <2>1, <2>2 DEF Sa
  <2>4. QED
    BY <2>1, <2>2, <2>3, LetturaConserva
<1>6. ASSUME NEW x \in Prestazioni, NEW v \in Voci, CorreggiLeggi(r, x, v)
      PROVE  ContrattiInv'
  <2> DEFINE q == [Ferma EXCEPT !.fase = "correggi", !.prestazione = x, !.voce = v]
  <2>1. q \in Richiesta /\ q.fase = "correggi" /\ q.prestazione = x /\ q.voce = v
    BY DEF Ferma, Richiesta, Fasi
  <2>2. /\ prestazione[x] # Nessuno
        /\ Vivo(mandato, prestazione[x].mandato)
             => voce[v] = mandato[prestazione[x].mandato].preventivo
        /\ req' = [req EXCEPT ![r] = q] /\ UNCHANGED <<tabelle, offerti>>
    BY <1>6, NessunoAssumption DEF CorreggiLeggi, Inizia, Vivo, VoceDelMandato, VociDi
  <2> HIDE DEF q
  <2>3. Sa(q)
    BY <2>1, <2>2 DEF Sa
  <2>4. QED
    BY <2>1, <2>2, <2>3, LetturaConserva
<1>7. QED
  BY <1>1, <1>2, <1>3, <1>4, <1>5, <1>6

\* The steps that write a service.
LEMMA PrestazioniConservano ==
  ASSUME ContrattiInv, NEW r \in Richieste
  PROVE  /\ RegistraScrivi(r) => ContrattiInv'
         /\ CorreggiScrivi(r) => ContrattiInv'
<1>1. ASSUME RegistraScrivi(r) PROVE ContrattiInv'
  <2>1. /\ req[r].fase = "registra" /\ Rispondi(r)
        /\ UNCHANGED <<preventivo, voce, mandato, contatore, offerti>>
    BY <1>1 DEF RegistraScrivi
  <2>2. CASE ChiaveEsterna(req[r].voce)
    <3>1. PICK x \in Prestazioni :
            /\ prestazione[x] = Nessuno
            /\ prestazione' = [prestazione EXCEPT ![x] =
                 [mandato |-> req[r].mandato, voce |-> req[r].voce, vivo |-> TRUE]]
      BY <1>1, <2>2 DEF RegistraScrivi
    <3> DEFINE riga == [mandato |-> req[r].mandato, voce |-> req[r].voce, vivo |-> TRUE]
    <3>2. /\ req[r] \in Richiesta
          /\ req[r].mandato \in Mandati /\ mandato[req[r].mandato] # Nessuno
          /\ req[r].voce # Nessuno => voce[req[r].voce] \in {mandato[req[r].mandato].preventivo, Tolta}
      BY <2>1, Tipi DEF ContrattiInv, Sa
    <3>3. VoceDelMandato(req[r].voce, req[r].mandato)
      BY <2>2, <3>2, NessunoAssumption DEF VoceDelMandato, ChiaveEsterna, Presente, VociDi, Richiesta
    <3>4. riga \in PrestazioneRiga /\ riga.mandato = req[r].mandato /\ riga.voce = req[r].voce
      BY <3>2 DEF PrestazioneRiga, Richiesta
    <3> HIDE DEF riga
    <3>5. prestazione' = [prestazione EXCEPT ![x] = riga]
      BY <3>1 DEF riga
    <3>6. /\ \A y \in Richieste : req'[y] = req[y] \/ req'[y] = Ferma
          /\ req' \in [Richieste -> Richiesta]
      BY <2>1, FermaOK DEF Rispondi, ContrattiInv, TypeOK
    <3>7. /\ mandato[riga.mandato] # Nessuno
          /\ VoceDelMandato(riga.voce, riga.mandato)
      BY <3>2, <3>3, <3>4
    <3>8. QED
      BY <2>1, <3>1, <3>4, <3>5, <3>6, <3>7, PrestazioneConserva
  <2>3. CASE ~ChiaveEsterna(req[r].voce)
    BY <1>1, <2>1, <2>3, RispostaConserva DEF RegistraScrivi, tabelle
  <2>4. QED
    BY <2>2, <2>3
<1>2. ASSUME CorreggiScrivi(r) PROVE ContrattiInv'
  <2> DEFINE x == req[r].prestazione
             riga == [prestazione[x] EXCEPT !.voce = req[r].voce]
  <2>1. /\ req[r].fase = "correggi" /\ Rispondi(r)
        /\ UNCHANGED <<preventivo, voce, mandato, contatore, offerti>>
        /\ prestazione' = IF ChiaveEsterna(req[r].voce)
                            THEN [prestazione EXCEPT ![x].voce = req[r].voce]
                            ELSE prestazione
    BY <1>2 DEF CorreggiScrivi
  <2>2. CASE ChiaveEsterna(req[r].voce)
    <3>1. /\ x \in Prestazioni /\ prestazione[x] # Nessuno /\ req[r].voce \in Voci
          /\ prestazione[x] \in PrestazioneRiga
          /\ Vivo(mandato, prestazione[x].mandato)
                => voce[req[r].voce] \in {mandato[prestazione[x].mandato].preventivo, Tolta}
      BY <2>1, Tipi DEF ContrattiInv, Sa
    <3>2. riga \in PrestazioneRiga /\ riga.mandato = prestazione[x].mandato /\ riga.voce = req[r].voce
      BY <3>1 DEF PrestazioneRiga
    <3>3. prestazione' = [prestazione EXCEPT ![x] = riga]
      BY <2>1, <2>2
    <3> HIDE DEF riga
    <3>4. mandato[riga.mandato] # Nessuno
      BY <3>1, <3>2 DEF ContrattiInv, RigheCollegate
    <3>5. Vivo(mandato, riga.mandato) => VoceDelMandato(riga.voce, riga.mandato)
      BY <2>2, <3>1, <3>2, NessunoAssumption DEF VoceDelMandato, ChiaveEsterna, Presente, VociDi
    <3>6. /\ \A y \in Richieste : req'[y] = req[y] \/ req'[y] = Ferma
          /\ req' \in [Richieste -> Richiesta]
      BY <2>1, FermaOK DEF Rispondi, ContrattiInv, TypeOK
    <3> HIDE DEF x
    <3>7. QED
      BY <2>1, <3>1, <3>2, <3>3, <3>4, <3>5, <3>6, PrestazioneConserva
  <2>3. CASE ~ChiaveEsterna(req[r].voce)
    BY <2>1, <2>3, RispostaConserva DEF tabelle
  <2>4. QED
    BY <2>2, <2>3
<1>3. QED
  BY <1>1, <1>2

\* A deleted service keeps its mandate and its row.
LEMMA EliminaPrestazioneConserva ==
  ASSUME ContrattiInv, NEW x \in Prestazioni, PrestazioneElimina(x)
  PROVE  ContrattiInv'
<1> DEFINE riga == [prestazione[x] EXCEPT !.vivo = FALSE]
<1>1. /\ prestazione[x] # Nessuno /\ prestazione[x] \in PrestazioneRiga
      /\ prestazione' = [prestazione EXCEPT ![x] = riga]
      /\ UNCHANGED <<preventivo, voce, mandato, contatore, req, offerti>>
  BY Tipi DEF PrestazioneElimina, Vivo, ContrattiInv
<1>2. /\ riga \in PrestazioneRiga
      /\ riga.mandato = prestazione[x].mandato /\ riga.voce = prestazione[x].voce
  BY <1>1 DEF PrestazioneRiga
<1> HIDE DEF riga
<1>3. /\ mandato[riga.mandato] # Nessuno
      /\ Vivo(mandato, riga.mandato) => VoceDelMandato(riga.voce, riga.mandato)
  BY <1>1, <1>2 DEF ContrattiInv, RigheCollegate, VoceDelPreventivo
<1>4. req' \in [Richieste -> Richiesta]
  BY <1>1 DEF ContrattiInv, TypeOK
<1>5. QED
  BY <1>1, <1>2, <1>3, <1>4, PrestazioneConserva

\* Every step of every request keeps the invariant.
LEMMA PassoConserva == ContrattiInv /\ [Next]_vars => ContrattiInv'
<1> SUFFICES ASSUME ContrattiInv, [Next]_vars PROVE ContrattiInv'
  OBVIOUS
<1>1. ASSUME NEW r \in Richieste, PassoPreventivo(r) \/ Conversione(r)
      PROVE  ContrattiInv'
  BY <1>1, LettureConservano, ModificaConserva, ConversioneConserva DEF PassoPreventivo, Conversione
<1>2. ASSUME NEW r \in Richieste, PassoPrestazione(r) \/ Interrompi(r)
      PROVE  ContrattiInv'
  BY <1>2, LettureConservano, PrestazioniConservano DEF PassoPrestazione
<1>3. ASSUME NEW m \in Mandati, NEW s \in StatiMandato, MandatoAggiorna(m, s)
      PROVE  ContrattiInv'
  <2> DEFINE riga == [mandato[m] EXCEPT !.stato = s]
  <2>1. /\ mandato[m] # Nessuno /\ mandato[m] \in MandatoRiga
        /\ mandato' = [mandato EXCEPT ![m] = riga]
        /\ UNCHANGED <<preventivo, voce, contatore, prestazione, req, offerti>>
    BY <1>3, Tipi DEF MandatoAggiorna, ContrattiInv
  <2>2. /\ riga \in MandatoRiga
        /\ riga.preventivo = mandato[m].preventivo /\ riga.numero = mandato[m].numero
        /\ riga.importo = mandato[m].importo /\ riga.vivo = mandato[m].vivo
    BY <2>1 DEF MandatoRiga
  <2> HIDE DEF riga
  <2>3. QED
    BY <2>1, <2>2, MandatoConserva
<1>4. ASSUME NEW m \in Mandati, MandatoElimina(m)
      PROVE  ContrattiInv'
  <2> DEFINE riga == [mandato[m] EXCEPT !.vivo = FALSE]
  <2>1. /\ mandato[m] # Nessuno /\ mandato[m] \in MandatoRiga
        /\ mandato' = [mandato EXCEPT ![m] = riga]
        /\ UNCHANGED <<preventivo, voce, contatore, prestazione, req, offerti>>
    BY <1>4, Tipi DEF MandatoElimina, ContrattiInv
  <2>2. /\ riga \in MandatoRiga
        /\ riga.preventivo = mandato[m].preventivo /\ riga.numero = mandato[m].numero
        /\ riga.importo = mandato[m].importo /\ ~riga.vivo
    BY <2>1 DEF MandatoRiga
  <2> HIDE DEF riga
  <2>3. QED
    BY <2>1, <2>2, MandatoConserva
<1>5. CASE UNCHANGED vars
  <2>1. Cresce
    BY <1>5 DEF vars, tabelle, Cresce
  <2>2. (\A x \in Richieste : Sa(req[x])') /\ LucchettiEsclusivi'
    BY <1>5, <2>1, RichiesteRestano DEF vars, tabelle
  <2>3. /\ IsFiniteSet(Emessi)' /\ NumeriSenzaBuchi' /\ UnMandatoVivo' /\ ImportoAccettato'
    BY <1>5, <2>1, MandatiRestano DEF vars, tabelle
  <2>4. TypeOK' /\ RigheCollegate' /\ AccettatiOfferti' /\ TotaleDelleVoci'
    BY <1>5 DEF vars, tabelle, ContrattiInv, TypeOK, RigheCollegate, AccettatiOfferti,
                TotaleDelleVoci, VociDi, Presente
  <2>5. VoceDelPreventivo'
    BY <1>5 DEF vars, tabelle, ContrattiInv, VoceDelPreventivo, VoceDelMandato, Vivo, VociDi
  <2>6. QED
    BY <2>2, <2>3, <2>4, <2>5 DEF ContrattiInv
<1>6. ASSUME NEW p \in Preventivi, PreventivoElimina(p)
      PROVE  ContrattiInv'
  BY <1>6, EliminaConserva
<1>7. ASSUME NEW p \in Preventivi, NEW v \in Voci, NEW s \in StatiPreventivo, PreventivoCrea(p, v, s)
      PROVE  ContrattiInv'
  BY <1>7, CreaConserva
<1>8. ASSUME NEW x \in Prestazioni, PrestazioneElimina(x)
      PROVE  ContrattiInv'
  BY <1>8, EliminaPrestazioneConserva
<1>9. QED
  BY <1>1, <1>2, <1>3, <1>4, <1>5, <1>6, <1>7, <1>8 DEF Next

\* The invariant of quotes, mandates and services holds whatever requests run
\* together and are rolled back.
THEOREM Contratti == Spec => []ContrattiInv
<1>1. ContrattiInv /\ [Next]_vars => ContrattiInv'
  BY PassoConserva
<1>2. QED
  BY <1>1, InizioInv, PTL DEF Spec

\* convertiAMandato: a quote has one live mandate at most, although the check that
\* it is accepted and the insert are apart.
THEOREM MandatiCorretti == Spec => []UnMandatoVivo
<1>1. ContrattiInv => UnMandatoVivo
  BY DEF ContrattiInv
<1>2. QED
  BY <1>1, Contratti, PTL

\* numero_counter: the numbers of the mandates have no holes and no repetitions,
\* whatever conversions run together or are rolled back.
THEOREM NumeriProgressivi == Spec => []NumeriSenzaBuchi
<1>1. ContrattiInv => NumeriSenzaBuchi
  BY DEF ContrattiInv
<1>2. QED
  BY <1>1, Contratti, PTL

\* The amount of a mandate is one that the client had accepted, however edits
\* of the quote interleave with the conversion.
THEOREM ImportiAccettati == Spec => []ImportoAccettato
<1>1. ContrattiInv => ImportoAccettato
  BY DEF ContrattiInv
<1>2. QED
  BY <1>1, Contratti, PTL

\* The total of a quote is that of its rows, whatever edits run together.
THEOREM VociCorrette == Spec => []TotaleDelleVoci
<1>1. ContrattiInv => TotaleDelleVoci
  BY DEF ContrattiInv
<1>2. QED
  BY <1>1, Contratti, PTL

\* A service names a row of the quote of its mandate.
THEOREM VociDelMandato == Spec => []VoceDelPreventivo
<1>1. ContrattiInv => VoceDelPreventivo
  BY DEF ContrattiInv
<1>2. QED
  BY <1>1, Contratti, PTL

-----------------------------------------------------------------------------
(* Mandates implement RegistroMandati.                                     *)

\* An entry of the register is there when the mandate is.
LEMMA VociDelRegistro ==
  ASSUME TypeOK
  PROVE  \A m \in Mandati :
            /\ mandato[m] = Nessuno => MandatiEmessi[m] = Nessuno
            /\ mandato[m] # Nessuno =>
                 /\ MandatiEmessi[m] = [preventivo |-> mandato[m].preventivo,
                                        numero |-> mandato[m].numero,
                                        importo |-> mandato[m].importo,
                                        vivo |-> mandato[m].vivo]
                 /\ MandatiEmessi[m].preventivo = mandato[m].preventivo
                 /\ MandatiEmessi[m].vivo = mandato[m].vivo
  BY DEF MandatiEmessi

\* The commit of a conversion issues the next mandate.
LEMMA ConversioneEmette ==
  ASSUME ContrattiInv, NEW r \in Richieste, NEW m \in Mandati, ConvertiConferma(r, m)
  PROVE  Registro!Passo
<1>1. PICK p \in Preventivi :
        /\ p = req[r].preventivo
        /\ req[r].fase = "numerato" /\ req[r].numero = contatore + 1
        /\ req[r].totale \in Voci
  BY DEF ConvertiConferma, ContrattiInv, Sa, TypeOK
<1>2. PICK i \in Voci : i = req[r].totale
  BY <1>1
<1> DEFINE nuovo == [preventivo |-> p, numero |-> contatore + 1, importo |-> i,
                     stato |-> "in_corso", vivo |-> TRUE]
<1>3. /\ ~GiaConvertito(p)
      /\ mandato[m] = Nessuno
      /\ mandato' = [mandato EXCEPT ![m] = nuovo]
      /\ contatore' = contatore + 1
  BY <1>1, <1>2 DEF ConvertiConferma
<1>4. mandato'[m] = nuovo /\ \A n \in Mandati : n # m => mandato'[n] = mandato[n]
  BY <1>3 DEF ContrattiInv, TypeOK
<1>5. nuovo # Nessuno
  <2>1. contatore + 1 \in Nat /\ "in_corso" \in StatiMandato
    BY StatiAssumption DEF ContrattiInv, TypeOK
  <2>2. nuovo \in MandatoRiga
    BY <2>1 DEF MandatoRiga
  <2>3. QED
    BY <2>2, RigheAssumption
<1>6. MandatiEmessi[m] = Nessuno
  BY <1>3 DEF MandatiEmessi
<1>7. \A n \in Mandati : MandatiEmessi[n] # Nessuno /\ MandatiEmessi[n].vivo
                            => MandatiEmessi[n].preventivo # p
  BY <1>3, VociDelRegistro DEF ContrattiInv, GiaConvertito, Vivo
<1>8. MandatiEmessi' = [MandatiEmessi EXCEPT ![m] =
         [preventivo |-> p, numero |-> contatore + 1, importo |-> i, vivo |-> TRUE]]
  <2> DEFINE voceNuova == [preventivo |-> p, numero |-> contatore + 1, importo |-> i, vivo |-> TRUE]
  <2>1. MandatiEmessi'[m] = voceNuova
    <3>1. mandato'[m] # Nessuno
      BY <1>4, <1>5
    <3>2. /\ mandato'[m].preventivo = p /\ mandato'[m].numero = contatore + 1
          /\ mandato'[m].importo = i /\ mandato'[m].vivo = TRUE
      BY <1>4
    <3> HIDE DEF nuovo
    <3>3. QED
      BY <3>1, <3>2 DEF MandatiEmessi
  <2>2. \A n \in Mandati : n # m => MandatiEmessi'[n] = MandatiEmessi[n]
    BY <1>4 DEF MandatiEmessi
  <2>3. /\ MandatiEmessi' = [n \in Mandati |-> MandatiEmessi'[n]]
        /\ MandatiEmessi = [n \in Mandati |-> MandatiEmessi[n]]
    BY DEF MandatiEmessi
  <2> HIDE DEF voceNuova
  <2>4. MandatiEmessi' = [MandatiEmessi EXCEPT ![m] = voceNuova]
    BY <2>1, <2>2, <2>3
  <2>5. QED
    BY <2>4 DEF voceNuova
<1>9. Registro!Emetti(m, p, i)
  BY <1>3, <1>6, <1>7, <1>8 DEF Registro!Emetti, Registro!Vivo
<1>10. QED
  BY <1>9 DEF Registro!Passo

\* An entry with another last field.
LEMMA VoceCambiata ==
  ASSUME NEW a, NEW b, NEW c, NEW d, NEW x
  PROVE  [[preventivo |-> a, numero |-> b, importo |-> c, vivo |-> d] EXCEPT !.vivo = x] =
           [preventivo |-> a, numero |-> b, importo |-> c, vivo |-> x]
  OBVIOUS

\* The deletion of a mandate revokes it, a second one changes nothing.
LEMMA EliminareRevoca ==
  ASSUME ContrattiInv, NEW m \in Mandati, MandatoElimina(m)
  PROVE  Registro!Passo \/ UNCHANGED <<MandatiEmessi, contatore>>
<1> DEFINE riga == [mandato[m] EXCEPT !.vivo = FALSE]
<1>1. /\ mandato[m] # Nessuno /\ mandato[m] \in MandatoRiga
      /\ mandato' = [mandato EXCEPT ![m] = riga]
      /\ contatore' = contatore
  BY Tipi DEF MandatoElimina, ContrattiInv
<1>2. /\ riga \in MandatoRiga /\ riga # Nessuno
      /\ riga.preventivo = mandato[m].preventivo /\ riga.numero = mandato[m].numero
      /\ riga.importo = mandato[m].importo /\ riga.vivo = FALSE
  BY <1>1, RigheAssumption DEF MandatoRiga
<1> HIDE DEF riga
<1>3. mandato'[m] = riga /\ \A n \in Mandati : n # m => mandato'[n] = mandato[n]
  BY <1>1 DEF ContrattiInv, TypeOK
<1>4. MandatiEmessi' = [MandatiEmessi EXCEPT ![m] =
         [preventivo |-> mandato[m].preventivo, numero |-> mandato[m].numero,
          importo |-> mandato[m].importo, vivo |-> FALSE]]
  BY <1>2, <1>3 DEF MandatiEmessi
<1>5. MandatiEmessi[m] = [preventivo |-> mandato[m].preventivo, numero |-> mandato[m].numero,
                          importo |-> mandato[m].importo, vivo |-> mandato[m].vivo]
  BY <1>1 DEF MandatiEmessi
<1>6. CASE mandato[m].vivo
  <2>1. mandato[m].numero \in Nat \ {0}
    <3>1. /\ contatore \in Nat /\ m \in Emessi
          /\ {mandato[n].numero : n \in Emessi} = 1..contatore
      BY <1>1 DEF Emessi, ContrattiInv, TypeOK, NumeriSenzaBuchi
    <3>2. mandato[m].numero \in 1..contatore
      BY <3>1
    <3>3. QED
      BY <3>1, <3>2
  <2>2. MandatiEmessi[m] \in Registro!Mandato
    BY <1>1, <1>5, <2>1 DEF Registro!Mandato, MandatoRiga
  <2>3. MandatiEmessi[m] # Nessuno /\ MandatiEmessi[m].vivo
    <3>1. MandatiEmessi[m] # Nessuno
      BY <2>2, RegistroAssumption
    <3>2. MandatiEmessi[m].vivo
      BY <1>5, <1>6
    <3>3. QED
      BY <3>1, <3>2
  <2>4. MandatiEmessi' = [MandatiEmessi EXCEPT ![m].vivo = FALSE]
    <3>1. [MandatiEmessi[m] EXCEPT !.vivo = FALSE] =
             [preventivo |-> mandato[m].preventivo, numero |-> mandato[m].numero,
              importo |-> mandato[m].importo, vivo |-> FALSE]
      <4>1. PICK a, b, c, d, x :
              /\ a = mandato[m].preventivo /\ b = mandato[m].numero
              /\ c = mandato[m].importo /\ d = mandato[m].vivo /\ x = FALSE
        OBVIOUS
      <4>2. MandatiEmessi[m] = [preventivo |-> a, numero |-> b, importo |-> c, vivo |-> d]
        BY <1>5, <4>1
      <4>3. [MandatiEmessi[m] EXCEPT !.vivo = x] =
              [preventivo |-> a, numero |-> b, importo |-> c, vivo |-> x]
        BY <4>2, VoceCambiata
      <4>4. QED
        BY <4>1, <4>3
    <3>2. MandatiEmessi = [n \in Mandati |-> MandatiEmessi[n]]
      BY DEF MandatiEmessi
    <3>3. QED
      BY <1>4, <3>1, <3>2
  <2>5. Registro!Revoca(m)
    BY <1>1, <2>3, <2>4 DEF Registro!Revoca, Registro!Vivo
  <2>6. QED
    BY <2>5 DEF Registro!Passo
<1>7. CASE ~mandato[m].vivo
  <2>1. MandatiEmessi'[m] = MandatiEmessi[m]
    BY <1>1, <1>2, <1>3, <1>5, <1>7 DEF MandatiEmessi, MandatoRiga
  <2>2. MandatiEmessi' = MandatiEmessi
    BY <1>3, <2>1 DEF MandatiEmessi
  <2>3. QED
    BY <1>1, <2>2
<1>8. QED
  BY <1>6, <1>7

\* A change of state is not seen by the register.
LEMMA AggiornareNonSiVede ==
  ASSUME ContrattiInv, NEW m \in Mandati, NEW s \in StatiMandato, MandatoAggiorna(m, s)
  PROVE  UNCHANGED <<MandatiEmessi, contatore>>
<1> DEFINE riga == [mandato[m] EXCEPT !.stato = s]
<1>1. /\ mandato[m] # Nessuno /\ mandato[m] \in MandatoRiga
      /\ mandato' = [mandato EXCEPT ![m] = riga]
      /\ contatore' = contatore
  BY Tipi DEF MandatoAggiorna, ContrattiInv
<1>2. /\ riga \in MandatoRiga /\ riga # Nessuno
      /\ riga.preventivo = mandato[m].preventivo /\ riga.numero = mandato[m].numero
      /\ riga.importo = mandato[m].importo /\ riga.vivo = mandato[m].vivo
  BY <1>1, RigheAssumption DEF MandatoRiga
<1> HIDE DEF riga
<1>3. mandato'[m] = riga /\ \A n \in Mandati : n # m => mandato'[n] = mandato[n]
  BY <1>1 DEF ContrattiInv, TypeOK
<1>4. MandatiEmessi'[m] = MandatiEmessi[m]
  BY <1>1, <1>2, <1>3 DEF MandatiEmessi
<1>5. MandatiEmessi' = MandatiEmessi
  BY <1>3, <1>4 DEF MandatiEmessi
<1>6. QED
  BY <1>1, <1>5

\* Every step is one of the register or leaves it alone.
LEMMA PassoDelRegistro ==
  ContrattiInv /\ [Next]_vars => [Registro!Passo]_(Registro!registroVars)
<1> SUFFICES ASSUME ContrattiInv, [Next]_vars
             PROVE  Registro!Passo \/ UNCHANGED <<MandatiEmessi, contatore>>
  BY DEF Registro!registroVars
<1>1. CASE UNCHANGED <<mandato, contatore>>
  BY <1>1 DEF MandatiEmessi
<1>2. ASSUME NEW r \in Richieste,
             \/ PassoPreventivo(r) \/ PassoPrestazione(r) \/ Interrompi(r)
             \/ ConvertiNumera(r) \/ ConvertiRifiuta(r)
             \/ \E p \in Preventivi : ConvertiLeggi(r, p)
      PROVE  UNCHANGED <<mandato, contatore>>
  BY <1>2 DEF PassoPreventivo, ModificaInizia, ModificaConferma, PassoPrestazione, RegistraLeggi,
     RegistraScrivi, CorreggiLeggi, CorreggiScrivi, Interrompi, ConvertiNumera, ConvertiRifiuta,
     ConvertiLeggi, Inizia, tabelle
<1>3. ASSUME NEW r \in Richieste, Conversione(r)
      PROVE  Registro!Passo \/ UNCHANGED <<mandato, contatore>>
  BY <1>2, <1>3, ConversioneEmette DEF Conversione
<1>4. ASSUME \/ \E p \in Preventivi, v \in Voci, s \in StatiPreventivo : PreventivoCrea(p, v, s)
             \/ \E p \in Preventivi : PreventivoElimina(p)
             \/ \E x \in Prestazioni : PrestazioneElimina(x)
             \/ UNCHANGED vars
      PROVE  UNCHANGED <<mandato, contatore>>
  BY <1>4 DEF PreventivoCrea, PreventivoElimina, PrestazioneElimina, vars, tabelle
<1>5. ASSUME NEW m \in Mandati,
             MandatoElimina(m) \/ \E s \in StatiMandato : MandatoAggiorna(m, s)
      PROVE  Registro!Passo \/ UNCHANGED <<MandatiEmessi, contatore>>
  BY <1>5, EliminareRevoca, AggiornareNonSiVede
<1>6. QED
  BY <1>1, <1>2, <1>3, <1>4, <1>5 DEF Next

\* The services of quotes and mandates keep the promise of RegistroMandati to
\* whoever reads the mandates.
THEOREM RealizzaRegistro == Spec => RegistroMandatiSpec
<1>1. Init => Registro!Inizio
  BY DEF Init, Registro!Inizio, MandatiEmessi
<1>2. QED
  BY <1>1, PassoDelRegistro, Contratti, PTL DEF Spec, RegistroMandatiSpec, Registro!RegistroSpec
=============================================================================
