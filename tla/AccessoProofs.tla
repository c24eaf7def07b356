---------------------------- MODULE AccessoProofs ----------------------------
(***************************************************************************)
(* Theorems about who gets in and what he sees: the tenant of a query      *)
(* (ContestoRls), for any number of tenants, flows, connections and nested *)
(* frames; the answers that guards keep in Redis (CacheAccesso), for any   *)
(* time to live, any patience and any number of requests; and the wrong    *)
(* guesses a lockout lets through (Lockout), for any threshold and window. *)
(***************************************************************************)
EXTENDS ContestoRls, CacheAccesso, Lockout, SequenceTheorems, FunctionTheorems,
        FiniteSetTheorems, TLAPS

-----------------------------------------------------------------------------
(* The tenant of a query.                                                  *)

Connessione == [di : Flussi \cup {Nessuno}, tenant : Tenant \cup {Nessuno}, sa : BOOLEAN]

LEMMA PilaNota ==
  ASSUME RlsInv, NEW f \in Flussi
  PROVE  /\ pila[f] \in Seq(Cornice) /\ Len(pila[f]) \in Nat
         /\ DOMAIN pila[f] = 1..Len(pila[f])
         /\ \A i \in 1..Len(pila[f]) : pila[f][i] \in Cornice
         /\ Ordinate(connessione, f, pila[f])
<1>1. pila[f] \in Seq(Cornice)
  BY DEF RlsInv, RlsTipi
<1>2. QED
  BY <1>1, LenProperties, ElementOfSeq DEF RlsInv

\* A connection that a frame holds is its flow's.
LEMMA DelSuoFlusso ==
  ASSUME RlsInv, NEW f \in Flussi, NEW i \in 1..Len(pila[f]), pila[f][i].tipo \in ConConnessione
  PROVE  pila[f][i].conn \in Connessioni /\ connessione[pila[f][i].conn].di = f
BY PilaNota DEF Ordinate, InOrdine, Impostata, Cornice, ConConnessione

\* A step of flow f, whose frames are then s, that touches no connection of
\* another flow.
LEMMA FlussoMuove ==
  ASSUME RlsInv, NEW f \in Flussi, NEW s \in Seq(Cornice), pila' = [pila EXCEPT ![f] = s],
         Ordinate(connessione', f, s),
         connessione' \in [Connessioni -> Connessione],
         \A c \in Connessioni :
            /\ connessione[c].di \notin {f, Nessuno} => connessione'[c] = connessione[c]
            /\ connessione'[c].di = Nessuno => connessione'[c] = SenzaSettings
  PROVE  RlsInv'
<1>1. pila \in [Flussi -> Seq(Cornice)]
  BY DEF RlsInv, RlsTipi
<1>2. RlsTipi'
  BY <1>1 DEF RlsTipi, Connessione
<1>3. ASSUME NEW g \in Flussi, g # f PROVE Ordinate(connessione', g, pila'[g])
  <2>1. pila'[g] = pila[g]
    BY <1>1, <1>3
  <2>2. ASSUME NEW i \in 1..Len(pila[g]), pila[g][i].tipo \in ConConnessione
        PROVE  Impostata(connessione'[pila[g][i].conn], g, pila[g][i])
    <3>1. /\ pila[g][i].conn \in Connessioni /\ connessione[pila[g][i].conn].di = g
      BY <2>2, DelSuoFlusso
    <3>2. connessione'[pila[g][i].conn] = connessione[pila[g][i].conn]
      BY <1>3, <3>1, RlsNessunoAssumption
    <3>3. QED
      BY <2>2, <3>2, PilaNota DEF Ordinate, InOrdine
  <2>3. QED
    BY <2>1, <2>2, PilaNota DEF Ordinate, InOrdine
<1>4. Ordinate(connessione', f, pila'[f])
  BY <1>1
<1>5. QED
  BY <1>2, <1>3, <1>4 DEF RlsInv

\* A frame stays in order if the connection it holds does not change, nor the
\* frames below.
LEMMA RestaInOrdine ==
  ASSUME NEW f \in Flussi, NEW k, NEW h, NEW p \in Seq(Cornice), NEW s \in Seq(Cornice),
         NEW i \in 1..Len(p), InOrdine(k, f, p, i), \A j \in 1..i : s[j] = p[j],
         p[i].tipo \in ConConnessione => h[p[i].conn] = k[p[i].conn]
  PROVE  InOrdine(h, f, s, i)
<1>1. i \in Nat /\ i \in 1..i /\ \A j \in 1..(i - 1) : j \in 1..i
  BY LenProperties
<1>2. s[i] = p[i] /\ \A j \in 1..(i - 1) : s[j] = p[j]
  BY <1>1
<1>3. QED
  BY <1>2 DEF InOrdine

\* So do all of them when the last is left out, and with one more in order.
LEMMA OrdinateSenzaUltima ==
  ASSUME NEW f \in Flussi, NEW k, NEW h, NEW p \in Seq(Cornice), Ordinate(k, f, p), p # <<>>,
         \A i \in 1..(Len(p) - 1) : p[i].tipo \in ConConnessione => h[p[i].conn] = k[p[i].conn]
  PROVE  /\ SubSeq(p, 1, Len(p) - 1) \in Seq(Cornice)
         /\ Ordinate(h, f, SubSeq(p, 1, Len(p) - 1))
<1>1. /\ Len(p) \in Nat /\ \A i \in 1..Len(p) : p[i] \in Cornice
  BY LenProperties, ElementOfSeq
<1>2. Len(p) # 0
  BY <1>1, EmptySeq
<1>3. PICK n : n = Len(p) - 1
  OBVIOUS
<1>31. n \in 0..Len(p)
  BY <1>1, <1>2, <1>3
<1>32. \A i \in 1..n : p[i].tipo \in ConConnessione => h[p[i].conn] = k[p[i].conn]
  BY <1>3
<1>4. 1 \in Int /\ n \in Int /\ \A i \in 1..n : p[i] \in Cornice
  BY <1>1, <1>3, <1>31
<1>5. /\ SubSeq(p, 1, n) \in Seq(Cornice)
      /\ Len(SubSeq(p, 1, n)) = IF 1 <= n THEN n - 1 + 1 ELSE 0
      /\ \A i \in 1..(n - 1 + 1) : SubSeq(p, 1, n)[i] = p[1 + i - 1]
  BY <1>4, SubSeqProperties
<1>6. PICK s \in Seq(Cornice) : s = SubSeq(p, 1, n)
  BY <1>5
<1>7. Len(s) = n /\ \A i \in 1..n : s[i] = p[i]
  BY <1>5, <1>6, <1>31
<1>8. ASSUME NEW i \in 1..n PROVE InOrdine(h, f, s, i)
  <2>1. i \in 1..Len(p) /\ \A j \in 1..i : s[j] = p[j]
    BY <1>1, <1>31, <1>7
  <2>2. QED
    BY <2>1, <1>32, RestaInOrdine DEF Ordinate
<1>9. QED
  BY <1>3, <1>6, <1>7, <1>8 DEF Ordinate

LEMMA OrdinateConUnaInPiu ==
  ASSUME NEW f \in Flussi, NEW k, NEW h, NEW p \in Seq(Cornice), Ordinate(k, f, p),
         \A i \in 1..Len(p) : p[i].tipo \in ConConnessione => h[p[i].conn] = k[p[i].conn],
         NEW x \in Cornice,
         x.tipo # "transazione" => x.tenant = IF x.sa THEN Nessuno ELSE TenantDi[f],
         x.tipo = "operazione" => \E j \in 1..Len(p) : p[j].tipo \in Contesti /\ p[j].sa = x.sa,
         x.tipo \in ConConnessione => Impostata(h[x.conn], f, x),
         x.tipo \in ConConnessione =>
            \A j \in 1..Len(p) : p[j].tipo \in ConConnessione => p[j].conn # x.conn
  PROVE  Append(p, x) \in Seq(Cornice) /\ Ordinate(h, f, Append(p, x))
<1>01. PICK s, n : s = Append(p, x) /\ n = Len(p)
  OBVIOUS
<1>1. /\ s \in Seq(Cornice) /\ s = Append(p, x) /\ n = Len(p) /\ Len(s) = n + 1
      /\ s[n + 1] = x /\ n \in Nat /\ \A i \in 1..n : s[i] = p[i]
  BY <1>01, LenProperties, AppendProperties
<1>2. /\ n \in 0..Len(p) /\ \A i \in 1..n : s[i] = p[i]
      /\ \A i \in 1..n : p[i].tipo \in ConConnessione => h[p[i].conn] = k[p[i].conn]
  BY <1>1
<1>3. ASSUME NEW i \in 1..n PROVE InOrdine(h, f, s, i)
  <2>1. i \in 1..Len(p) /\ \A j \in 1..i : s[j] = p[j]
    BY <1>1, <1>2
  <2>2. InOrdine(k, f, p, i) /\ (p[i].tipo \in ConConnessione => h[p[i].conn] = k[p[i].conn])
    BY <2>1 DEF Ordinate
  <2>3. QED
    BY <2>1, <2>2, <1>1, RestaInOrdine
<1>4. PICK m : m = n + 1
  OBVIOUS
<1>5. s[m] = x /\ m - 1 = n /\ Len(s) = m
  BY <1>1, <1>4
<1>6. InOrdine(h, f, s, m)
  <2>1. \A j \in 1..(m - 1) : j \in 1..Len(p) /\ s[j] = p[j]
    BY <1>1, <1>5
  <2>2. x.tipo = "operazione" =>
           \E j \in 1..(m - 1) : s[j].tipo \in Contesti /\ s[j].sa = x.sa
    BY <1>1, <1>5
  <2>3. x.tipo \in ConConnessione =>
           \A j \in 1..(m - 1) : s[j].tipo \in ConConnessione => s[j].conn # x.conn
    BY <2>1
  <2>4. QED
    BY <1>5, <2>2, <2>3 DEF InOrdine
<1>7. QED
  BY <1>1, <1>3, <1>5, <1>6 DEF Ordinate

-----------------------------------------------------------------------------

LEMMA PassoContesto ==
  ASSUME RlsInv, NEW f \in Flussi, NEW sa \in BOOLEAN, RunInContext(f, sa)
  PROVE  RlsInv'
<1> DEFINE a == [tipo |-> "contesto", tenant |-> IF sa THEN Nessuno ELSE TenantDi[f], sa |-> sa]
<1>1. a \in Cornice /\ a.tipo = "contesto" /\ a.tenant = IF a.sa THEN Nessuno ELSE TenantDi[f]
  BY FlussiAssumption DEF Cornice
<1>2. pila' = [pila EXCEPT ![f] = Append(pila[f], a)] /\ UNCHANGED connessione
  BY DEF RunInContext, Spinge, RlsInv, RlsTipi
<1>3. PICK x \in Cornice : x = a
  BY <1>1
<1> HIDE DEF a
<1>4. Append(pila[f], x) \in Seq(Cornice) /\ Ordinate(connessione, f, Append(pila[f], x))
  BY <1>1, <1>3, PilaNota, OrdinateConUnaInPiu DEF ConConnessione
<1>5. QED
  BY <1>2, <1>3, <1>4, FlussoMuove DEF RlsInv, RlsTipi, Connessione

\* A frame that takes a free connection: no frame had it, and it has no
\* settings.
LEMMA PassoApre ==
  ASSUME RlsInv, NEW f \in Flussi, NEW c \in Connessioni, NEW x \in Cornice,
         Prende(f, c), Spinge(f, x), x.conn = c, x.tipo \in ConConnessione,
         x.tipo # "transazione" =>
            ~x.pronta /\ x.tenant = IF x.sa THEN Nessuno ELSE TenantDi[f],
         x.tipo = "operazione" =>
            \E j \in 1..Len(pila[f]) : pila[f][j].tipo \in Contesti /\ pila[f][j].sa = x.sa
  PROVE  RlsInv'
<1>2. /\ pila' = [pila EXCEPT ![f] = Append(pila[f], x)]
      /\ connessione' = [connessione EXCEPT ![c].di = f]
  BY DEF Prende, Spinge, RlsInv, RlsTipi
<1>3. connessione[c] = SenzaSettings /\ connessione[c].di = Nessuno
  BY DEF RlsInv, Prende
<1>4. /\ connessione'[c].di = f /\ connessione'[c].tenant = Nessuno
      /\ connessione'[c].sa = FALSE
      /\ \A d \in Connessioni : d # c => connessione'[d] = connessione[d]
  BY <1>2, <1>3 DEF RlsInv, RlsTipi, SenzaSettings
<1>5. ASSUME NEW i \in 1..Len(pila[f]), pila[f][i].tipo \in ConConnessione
      PROVE  pila[f][i].conn # c /\ connessione'[pila[f][i].conn] = connessione[pila[f][i].conn]
  BY <1>3, <1>4, <1>5, DelSuoFlusso, RlsNessunoAssumption
<1>6. Impostata(connessione'[x.conn], f, x)
  BY <1>4 DEF Impostata
<1>7. PICK h : h = connessione'
  OBVIOUS
<1>8. Append(pila[f], x) \in Seq(Cornice) /\ Ordinate(h, f, Append(pila[f], x))
  BY <1>5, <1>6, <1>7, PilaNota, OrdinateConUnaInPiu
<1>9. connessione' \in [Connessioni -> Connessione]
  BY <1>2 DEF RlsInv, RlsTipi, Connessione
<1>10. \A d \in Connessioni :
          /\ connessione[d].di \notin {f, Nessuno} => connessione'[d] = connessione[d]
          /\ connessione'[d].di = Nessuno => connessione'[d] = SenzaSettings
  BY <1>3, <1>4, RlsNessunoAssumption DEF RlsInv
<1>11. QED
  BY <1>2, <1>7, <1>8, <1>9, <1>10, FlussoMuove

LEMMA PassoApreUna ==
  ASSUME RlsInv, NEW f \in Flussi, NEW c \in Connessioni,
         \/ \E sa \in BOOLEAN : ApreAtomica(f, c, sa)
         \/ ApreTransazione(f, c) \/ ApreOperazione(f, c)
  PROVE  RlsInv'
<1>1. ASSUME NEW sa \in BOOLEAN, ApreAtomica(f, c, sa) PROVE RlsInv'
  <2> DEFINE x == [tipo |-> "atomica", tenant |-> IF sa THEN Nessuno ELSE TenantDi[f],
                   sa |-> sa, conn |-> c, pronta |-> FALSE]
  <2>1. /\ x \in Cornice /\ x.tipo = "atomica" /\ x.conn = c /\ ~x.pronta
        /\ x.tenant = IF x.sa THEN Nessuno ELSE TenantDi[f]
    BY FlussiAssumption DEF Cornice
  <2>2. Prende(f, c) /\ Spinge(f, x)
    BY <1>1 DEF ApreAtomica
  <2> HIDE DEF x
  <2>3. QED
    BY <2>1, <2>2, PassoApre DEF ConConnessione
<1>2. CASE ApreTransazione(f, c)
  <2> DEFINE x == [tipo |-> "transazione", conn |-> c]
  <2>1. x \in Cornice /\ x.tipo = "transazione" /\ x.conn = c
    BY DEF Cornice
  <2>2. Prende(f, c) /\ Spinge(f, x)
    BY <1>2 DEF ApreTransazione
  <2> HIDE DEF x
  <2>3. QED
    BY <2>1, <2>2, PassoApre DEF ConConnessione
<1>3. CASE ApreOperazione(f, c)
  <2>1. PICK y \in Contesto(f) :
           Spinge(f, [tipo |-> "operazione", tenant |-> y.tenant, sa |-> y.sa,
                      conn |-> c, pronta |-> FALSE])
    BY <1>3 DEF ApreOperazione
  <2>2. PICK j \in 1..Len(pila[f]) : y = pila[f][j] /\ y.tipo \in Contesti
    BY PilaNota DEF Contesto
  <2>3. /\ y \in Cornice /\ y.tipo \in {"contesto", "atomica"}
        /\ y.tenant = IF y.sa THEN Nessuno ELSE TenantDi[f]
    BY <2>2, PilaNota DEF Ordinate, InOrdine, Contesti
  <2>4. y.sa \in BOOLEAN /\ y.tenant \in Tenant \cup {Nessuno}
    BY <2>3 DEF Cornice
  <2> DEFINE x == [tipo |-> "operazione", tenant |-> y.tenant, sa |-> y.sa,
                   conn |-> c, pronta |-> FALSE]
  <2>5. /\ x \in Cornice /\ x.tipo = "operazione" /\ x.conn = c /\ ~x.pronta /\ x.sa = y.sa
        /\ x.tenant = IF x.sa THEN Nessuno ELSE TenantDi[f]
    BY <2>3, <2>4 DEF Cornice
  <2>6. Prende(f, c) /\ Spinge(f, x)
    BY <1>3, <2>1 DEF ApreOperazione
  <2> HIDE DEF x
  <2>7. QED
    BY <2>2, <2>5, <2>6, PassoApre DEF ConConnessione
<1>4. QED
  BY <1>1, <1>2, <1>3

LEMMA PassoEsce ==
  ASSUME RlsInv, NEW f \in Flussi, EsceDalContesto(f)
  PROVE  RlsInv'
<1>1. PICK s : s = SubSeq(pila[f], 1, Len(pila[f]) - 1)
  OBVIOUS
<1>2. s \in Seq(Cornice) /\ Ordinate(connessione, f, s)
  BY <1>1, PilaNota, OrdinateSenzaUltima DEF EsceDalContesto, Dentro
<1>3. pila' = [pila EXCEPT ![f] = s] /\ UNCHANGED connessione
  BY <1>1 DEF EsceDalContesto, RlsInv, RlsTipi
<1>4. QED
  BY <1>2, <1>3, FlussoMuove DEF RlsInv, RlsTipi, Connessione

\* The end of a transaction takes its settings away with it.
LEMMA PassoChiude ==
  ASSUME RlsInv, NEW f \in Flussi, Chiude(f)
  PROVE  RlsInv'
<1>1. PICK n : n = Len(pila[f])
  OBVIOUS
<1>2. n \in Nat /\ n # 0 /\ n \in 1..n /\ pila[f] # <<>>
  BY <1>1, PilaNota, EmptySeq DEF Chiude, Dentro
<1>3. PICK c : c = pila[f][n].conn
  OBVIOUS
<1>4. /\ pila' = [pila EXCEPT ![f] = SubSeq(pila[f], 1, Len(pila[f]) - 1)]
      /\ connessione' = [connessione EXCEPT ![c] = SenzaSettings]
      /\ pila[f][n].tipo \in ConConnessione
  BY <1>1, <1>3 DEF Chiude, Dentro, Cima, Rilasciata, ConConnessione, RlsInv, RlsTipi
<1>5. c \in Connessioni /\ connessione[c].di = f
  BY <1>1, <1>2, <1>3, <1>4, DelSuoFlusso
<1>6. /\ connessione'[c] = SenzaSettings
      /\ \A d \in Connessioni : d # c => connessione'[d] = connessione[d]
  BY <1>4, <1>5 DEF RlsInv, RlsTipi
<1>7. ASSUME NEW i \in 1..(Len(pila[f]) - 1), pila[f][i].tipo \in ConConnessione
      PROVE  connessione'[pila[f][i].conn] = connessione[pila[f][i].conn]
  <2>1. i \in 1..n /\ i \in 1..(n - 1)
    BY <1>1, <1>2
  <2>2. pila[f][i].conn # c
    BY <1>1, <1>2, <1>3, <1>4, <1>7, <2>1, PilaNota DEF Ordinate, InOrdine
  <2>3. pila[f][i].conn \in Connessioni
    BY <1>1, <1>7, <2>1, DelSuoFlusso
  <2>4. QED
    BY <1>6, <2>2, <2>3
<1>8. PICK s, h : s = SubSeq(pila[f], 1, Len(pila[f]) - 1) /\ h = connessione'
  OBVIOUS
<1>9. s \in Seq(Cornice) /\ Ordinate(h, f, s)
  BY <1>2, <1>7, <1>8, PilaNota, OrdinateSenzaUltima
<1>10. connessione' \in [Connessioni -> Connessione]
  <2>1. SenzaSettings \in Connessione
    BY DEF SenzaSettings, Connessione
  <2>2. QED
    BY <1>4, <2>1 DEF RlsInv, RlsTipi, Connessione
<1>11. \A d \in Connessioni :
         /\ connessione[d].di \notin {f, Nessuno} => connessione'[d] = connessione[d]
         /\ connessione'[d].di = Nessuno => connessione'[d] = SenzaSettings
  BY <1>5, <1>6 DEF RlsInv
<1>12. QED
  BY <1>4, <1>8, <1>9, <1>10, <1>11, FlussoMuove

LEMMA PassoSetLocal ==
  ASSUME RlsInv, NEW f \in Flussi, SetLocal(f)
  PROVE  RlsInv'
<1>1. PICK n, p : n = Len(pila[f]) /\ p = pila[f]
  OBVIOUS
<1>2. n \in Nat /\ n # 0 /\ n \in 1..n /\ p \in Seq(Cornice) /\ p[n] \in Cornice
  BY <1>1, PilaNota, EmptySeq DEF SetLocal, Dentro
<1>3. PICK x, c : x = p[n] /\ c = x.conn
  OBVIOUS
<1>4. x \in Cornice /\ x.tipo \in {"atomica", "operazione"} /\ x.tipo \in ConConnessione
  BY <1>1, <1>2, <1>3 DEF SetLocal, Dentro, Cima, ConConnessione
<1>5. /\ c \in Connessioni /\ connessione[c].di = f /\ x.tenant \in Tenant \cup {Nessuno}
      /\ x.sa \in BOOLEAN
  BY <1>1, <1>2, <1>3, <1>4, DelSuoFlusso DEF Cornice
<1>6. PICK y \in Cornice : y = [x EXCEPT !.pronta = TRUE]
  BY <1>4 DEF Cornice
<1>7. /\ y.tipo = x.tipo /\ y.conn = x.conn /\ y.tenant = x.tenant /\ y.sa = x.sa
      /\ y.pronta = TRUE
  BY <1>4, <1>6 DEF Cornice
<1>8. PICK s : s = [p EXCEPT ![n] = y]
  OBVIOUS
<1>9. /\ s \in Seq(Cornice) /\ Len(s) = n /\ s[n] = y
      /\ \A i \in 1..n : i # n => s[i] = p[i]
  BY <1>1, <1>2, <1>8, ExceptSeq
<1>10. pila' = [pila EXCEPT ![f] = s]
  <2>1. pila' = [pila EXCEPT ![f] = [pila[f] EXCEPT ![n] = [pila[f][n] EXCEPT !.pronta = TRUE]]]
    BY <1>1 DEF SetLocal, RlsInv, RlsTipi
  <2>2. QED
    BY <2>1, <1>1, <1>3, <1>6, <1>8
<1>11. connessione' = [connessione EXCEPT ![c].tenant = x.tenant, ![c].sa = x.sa]
  BY <1>1, <1>3 DEF SetLocal, Cima
<1>12. /\ connessione'[c].di = f /\ connessione'[c].tenant = x.tenant
       /\ connessione'[c].sa = x.sa
       /\ \A d \in Connessioni : d # c => connessione'[d] = connessione[d]
       /\ connessione' \in [Connessioni -> Connessione]
  <2>1. connessione \in [Connessioni -> Connessione]
    BY DEF RlsInv, RlsTipi, Connessione
  <2>2. PICK z \in Connessione : z = [connessione[c] EXCEPT !.tenant = x.tenant, !.sa = x.sa]
    BY <1>5, <2>1 DEF Connessione
  <2>3. z.di = f /\ z.tenant = x.tenant /\ z.sa = x.sa
    BY <1>5, <2>1, <2>2 DEF Connessione
  <2>4. connessione' = [connessione EXCEPT ![c] = z]
    BY <1>5, <1>11, <2>1, <2>2
  <2>5. QED
    BY <1>5, <2>1, <2>3, <2>4
<1>13. PICK h : h = connessione'
  OBVIOUS
<1>14. ASSUME NEW i \in 1..n PROVE InOrdine(h, f, s, i)
  <2>1. InOrdine(connessione, f, p, i) /\ i \in 1..Len(p)
    BY <1>1, PilaNota DEF Ordinate
  <2>2. CASE i = n
    <3>1. \A j \in 1..(n - 1) : s[j] = p[j]
      BY <1>2, <1>9
    <3>2. Impostata(h[y.conn], f, y)
      BY <1>3, <1>4, <1>7, <1>12, <1>13 DEF Impostata
    <3>3. QED
      BY <1>3, <1>7, <1>9, <2>1, <2>2, <3>1, <3>2 DEF InOrdine
  <2>3. CASE i # n
    <3>1. \A j \in 1..i : s[j] = p[j]
      BY <1>2, <1>9, <2>3
    <3>2. p[i].tipo \in ConConnessione => p[i].conn # c /\ p[i].conn \in Connessioni
      <4>1. i \in 1..(n - 1) /\ i \in 1..n /\ InOrdine(connessione, f, p, n)
        BY <1>1, <1>2, <2>3, PilaNota DEF Ordinate
      <4>2. QED
        BY <1>1, <1>3, <1>4, <4>1, DelSuoFlusso DEF InOrdine
    <3>3. p[i].tipo \in ConConnessione => h[p[i].conn] = connessione[p[i].conn]
      BY <1>12, <1>13, <3>2
    <3>4. QED
      BY <1>2, <1>9, <2>1, <3>1, <3>3, RestaInOrdine
  <2>4. QED
    BY <2>2, <2>3
<1>15. Ordinate(connessione', f, s)
  BY <1>9, <1>13, <1>14 DEF Ordinate
<1>16. \A d \in Connessioni :
         /\ connessione[d].di \notin {f, Nessuno} => connessione'[d] = connessione[d]
         /\ connessione'[d].di = Nessuno => connessione'[d] = SenzaSettings
  BY <1>5, <1>12, RlsNessunoAssumption DEF RlsInv
<1>17. QED
  BY <1>9, <1>10, <1>12, <1>15, <1>16, FlussoMuove

LEMMA PassoFallisce ==
  ASSUME RlsInv, NEW f \in Flussi, FlussoFallisce(f)
  PROVE  RlsInv'
<1>1. PICK s : s = <<>>
  OBVIOUS
<1>2. s \in Seq(Cornice) /\ Len(s) = 0
  BY <1>1
<1>3. Ordinate(connessione', f, s)
  BY <1>2 DEF Ordinate
<1>4. pila' = [pila EXCEPT ![f] = s]
  BY <1>1 DEF FlussoFallisce
<1>5. SenzaSettings \in Connessione
  BY DEF SenzaSettings, Connessione
<1>6. /\ connessione' \in [Connessioni -> Connessione]
      /\ \A d \in Connessioni :
           /\ connessione[d].di \notin {f, Nessuno} => connessione'[d] = connessione[d]
           /\ connessione'[d].di = Nessuno => connessione'[d] = SenzaSettings
  BY <1>5 DEF FlussoFallisce, Rilasciata, RlsInv, RlsTipi, Connessione
<1>7. QED
  BY <1>2, <1>3, <1>4, <1>6, FlussoMuove

LEMMA RlsPasso ==
  ASSUME RlsInv, [RlsNext]_rlsVars
  PROVE  RlsInv'
<1>1. CASE UNCHANGED rlsVars
  BY <1>1 DEF rlsVars, RlsInv, RlsTipi
<1>2. CASE RlsNext
  <2>1. PICK f \in Flussi :
          \/ \E sa \in BOOLEAN : RunInContext(f, sa) \/ \E c \in Connessioni : ApreAtomica(f, c, sa)
          \/ \E c \in Connessioni : ApreTransazione(f, c) \/ ApreOperazione(f, c)
          \/ EsceDalContesto(f) \/ SetLocal(f) \/ Chiude(f) \/ FlussoFallisce(f)
    BY <1>2 DEF RlsNext
  <2>2. QED
    BY <2>1, PassoContesto, PassoApreUna, PassoEsce, PassoSetLocal, PassoChiude, PassoFallisce
<1>3. QED
  BY <1>1, <1>2

LEMMA RlsInizio == RlsInit => RlsInv
<1> SUFFICES ASSUME RlsInit PROVE RlsInv
  OBVIOUS
<1>1. /\ pila = [f \in Flussi |-> <<>>]
      /\ connessione = [c \in Connessioni |-> SenzaSettings]
  BY DEF RlsInit
<1>2. RlsTipi
  BY <1>1 DEF RlsTipi, SenzaSettings
<1>3. ASSUME NEW f \in Flussi PROVE Ordinate(connessione, f, pila[f])
  BY <1>1 DEF Ordinate
<1>4. QED
  BY <1>1, <1>2, <1>3 DEF RlsInv

\* runInTenantContext, the atomic helpers, plain transactions and $allOperations
\* keep the frames of a request and the settings of its connections together:
\* whatever it nests and whatever fails, a held connection has the settings of
\* the frame that holds it or none, and a free one none.
THEOREM ConnessioniInOrdine == RlsSpec => []RlsInv
<1>1. RlsInit => RlsInv
  BY RlsInizio
<1>2. RlsInv /\ [RlsNext]_rlsVars => RlsInv'
  BY RlsPasso
<1>3. QED
  BY <1>1, <1>2, PTL DEF RlsSpec

-----------------------------------------------------------------------------
\* A system frame that holds a connection is below a context of the system, or is
\* one itself.
LEMMA SistemaAmmette ==
  ASSUME RlsInv, NEW f \in Flussi, NEW i \in 1..Len(pila[f]),
         pila[f][i].tipo \in {"atomica", "operazione"}, pila[f][i].sa
  PROVE  Ammesse(f) = Tenant
<1>1. DOMAIN pila[f] = 1..Len(pila[f]) /\ InOrdine(connessione, f, pila[f], i)
      /\ Len(pila[f]) \in Nat
  BY PilaNota DEF Ordinate
<1>2. PICK j \in 1..Len(pila[f]) : pila[f][j].tipo \in Contesti /\ pila[f][j].sa
  <2>1. CASE pila[f][i].tipo = "atomica"
    BY <2>1 DEF Contesti
  <2>2. CASE pila[f][i].tipo = "operazione"
    <3>1. PICK j \in 1..(i - 1) :
             pila[f][j].tipo \in Contesti /\ pila[f][j].sa = pila[f][i].sa
      BY <1>1, <2>2 DEF InOrdine
    <3>2. j \in 1..Len(pila[f]) /\ pila[f][j].sa
      BY <1>1, <3>1
    <3>3. QED
      BY <3>1, <3>2
  <2>3. QED
    BY <2>1, <2>2
<1>3. pila[f][j] \in Cornici(f)
  BY <1>1 DEF Cornici
<1>4. QED
  BY <1>2, <1>3 DEF Ammesse

\* No query of a request sees rows of another tenant outside a system context,
\* for any number of requests, connections and nested frames.
THEOREM OgnunoIlSuoTenant == RlsSpec => []SoloIlProprioTenant
<1>1. ASSUME RlsInv PROVE SoloIlProprioTenant
  <2> SUFFICES ASSUME NEW f \in Flussi, NEW c \in Interrogabili(f)
               PROVE  Visibili(c) \subseteq Ammesse(f)
    BY DEF SoloIlProprioTenant
  <2>1. CASE c \in Connessioni /\ connessione[c].di = Nessuno
    <3>1. connessione[c].sa = FALSE /\ connessione[c].tenant = Nessuno
      BY <1>1, <2>1 DEF RlsInv, SenzaSettings
    <3>2. QED
      BY <3>1, RlsNessunoAssumption DEF Visibili
  <2>2. ASSUME NEW i \in 1..Len(pila[f]), pila[f][i].conn = c,
               \/ pila[f][i].tipo = "transazione"
               \/ pila[f][i].tipo \in {"atomica", "operazione"} /\ pila[f][i].pronta
        PROVE  Visibili(c) \subseteq Ammesse(f)
    <3>1. /\ InOrdine(connessione, f, pila[f], i)
          /\ pila[f][i].tipo \in ConConnessione
      BY <1>1, <2>2, PilaNota DEF Ordinate, ConConnessione
    <3>2. Impostata(connessione[c], f, pila[f][i])
      BY <2>2, <3>1 DEF InOrdine
    <3>3. CASE pila[f][i].tipo = "transazione"
      BY <3>2, <3>3, RlsNessunoAssumption DEF Impostata, Visibili
    <3>4. CASE pila[f][i].tipo \in {"atomica", "operazione"} /\ pila[f][i].pronta
      <4>1. connessione[c].tenant = pila[f][i].tenant /\ connessione[c].sa = pila[f][i].sa
        BY <3>2, <3>4 DEF Impostata
      <4>2. CASE pila[f][i].sa
        <5>1. Ammesse(f) = Tenant
          BY <1>1, <3>4, <4>2, SistemaAmmette
        <5>2. QED
          BY <4>1, <4>2, <5>1 DEF Visibili
      <4>3. CASE ~pila[f][i].sa
        <5>1. connessione[c].tenant = TenantDi[f] /\ ~connessione[c].sa
          BY <3>1, <3>4, <4>1, <4>3 DEF InOrdine
        <5>2. TenantDi[f] \in Ammesse(f)
          BY FlussiAssumption DEF Ammesse
        <5>3. QED
          BY <5>1, <5>2 DEF Visibili
      <4>4. QED
        BY <4>2, <4>3
    <3>5. QED
      BY <2>2, <3>3, <3>4
  <2>3. QED
    BY <1>1, <2>1, <2>2, PilaNota DEF Interrogabili, Cornici
<1>2. QED
  BY <1>1, ConnessioniInOrdine, PTL

-----------------------------------------------------------------------------
(* The answers in Redis.                                                   *)

LEMMA CacheNote ==
  ASSUME CacheInv
  PROVE  /\ Ttl \in Nat \ {0} /\ Pazienza \in Nat /\ Limite \in Nat
         /\ Limite = Ttl - 1 + 2 * Pazienza
         /\ vale \in BOOLEAN /\ cache.valore \in BOOLEAN /\ cache.resta \in 0..Ttl
         /\ \A b \in BOOLEAN : eta[b] \in 0..(Limite + 1)
         /\ \A r \in Controlli :
              /\ controllo[r] \in Controllo
              /\ controllo[r].da \in 0..Pazienza
              /\ controllo[r].fase \in {"fuori", "cerca", "imposta", "risposta"}
              /\ controllo[r].fase \in {"imposta", "risposta"} => controllo[r].valore \in BOOLEAN
              /\ controllo[r].fase = "fuori" => controllo[r].da = 0
<1>1. Ttl \in Nat \ {0} /\ Pazienza \in Nat /\ Limite \in Nat /\ Limite = Ttl - 1 + 2 * Pazienza
  BY CacheAssumption DEF Limite
<1>2. /\ vale \in BOOLEAN /\ cache.valore \in BOOLEAN /\ cache.resta \in 0..Ttl
      /\ \A b \in BOOLEAN : eta[b] \in 0..(Limite + 1)
  BY DEF CacheInv, CacheTipi
<1>3. ASSUME NEW r \in Controlli
      PROVE  /\ controllo[r] \in Controllo
             /\ controllo[r].da \in 0..Pazienza
             /\ controllo[r].fase \in {"fuori", "cerca", "imposta", "risposta"}
             /\ controllo[r].fase \in {"imposta", "risposta"} => controllo[r].valore \in BOOLEAN
             /\ controllo[r].fase = "fuori" => controllo[r].da = 0
  <2>1. controllo[r] \in Controllo
    BY DEF CacheInv, CacheTipi
  <2>2. QED
    BY <1>1, <2>1 DEF Controllo
<1>4. QED
  BY <1>1, <1>2, <1>3

\* A request goes on, with an answer as recent as it must be.
LEMMA ControlloMuove ==
  ASSUME CacheInv, NEW r \in Controlli, NEW q \in Controllo,
         controllo' = [controllo EXCEPT ![r] = q], UNCHANGED <<vale, eta>>,
         cache' \in [valore : BOOLEAN, resta : 0..Ttl],
         cache'.resta > 0 => eta[cache'.valore] <= Pazienza + Ttl - cache'.resta,
         q.fase = "imposta" => eta[q.valore] <= q.da,
         q.fase = "risposta" => eta[q.valore] <= Pazienza + Ttl - 1 + q.da
  PROVE  CacheInv'
<1>1. /\ controllo' \in [Controlli -> Controllo]
      /\ controllo'[r] = q
      /\ \A p \in Controlli : p # r => controllo'[p] = controllo[p]
  BY DEF CacheInv, CacheTipi
<1>2. ASSUME NEW p \in Controlli
      PROVE  /\ controllo'[p].fase = "imposta" => eta'[controllo'[p].valore] <= controllo'[p].da
             /\ controllo'[p].fase = "risposta" =>
                  eta'[controllo'[p].valore] <= Pazienza + Ttl - 1 + controllo'[p].da
  <2>1. CASE p = r
    BY <1>1, <2>1
  <2>2. CASE p # r
    BY <1>1, <2>2 DEF CacheInv
  <2>3. QED
    BY <2>1, <2>2
<1>3. QED
  BY <1>1, <1>2 DEF CacheInv, CacheTipi

LEMMA PassoTrova ==
  ASSUME CacheInv, NEW r \in Controlli, Trova(r)
  PROVE  CacheInv'
<1> DEFINE a == [fase |-> "risposta", da |-> 0, valore |-> cache.valore]
<1>1. /\ a \in Controllo /\ a.fase = "risposta" /\ a.da = 0 /\ a.valore = cache.valore
      /\ controllo' = [controllo EXCEPT ![r] = a]
  BY CacheNote DEF Controllo, Trova
<1>2. PICK q \in Controllo : q = a
  BY <1>1
<1> HIDE DEF a
<1>3. eta[q.valore] <= Pazienza + Ttl - 1 + q.da
  <2>1. eta[cache.valore] <= Pazienza + Ttl - cache.resta /\ cache.resta > 0
    BY DEF Trova, CacheInv
  <2>2. QED
    BY <1>1, <1>2, <2>1, CacheNote
<1>4. QED
  BY <1>1, <1>2, <1>3, ControlloMuove DEF Trova, CacheInv, CacheTipi

LEMMA PassoNonTrova ==
  ASSUME CacheInv, NEW r \in Controlli, NonTrova(r) \/ Esce(r)
  PROVE  CacheInv'
<1>1. CASE NonTrova(r)
  <2>1. controllo[r].fase = "fuori" /\ controllo[r] \in Controllo
    BY <1>1, CacheNote DEF NonTrova, InGuardia
  <2>2. PICK q \in Controllo : q = [controllo[r] EXCEPT !.fase = "cerca"]
    BY <2>1, CacheNote DEF Controllo
  <2>3. q.fase = "cerca"
    BY <2>1, <2>2 DEF Controllo
  <2>4. controllo' = [controllo EXCEPT ![r] = q]
    BY <1>1, <2>2 DEF NonTrova, CacheInv, CacheTipi
  <2>5. QED
    BY <1>1, <2>3, <2>4, ControlloMuove DEF NonTrova, CacheInv, CacheTipi
<1>2. CASE Esce(r)
  <2>1. PICK q \in Controllo : q = Fuori
    BY CacheNote DEF Controllo, Fuori
  <2>2. q.fase = "fuori"
    BY <2>1 DEF Fuori
  <2>3. QED
    BY <1>2, <2>1, <2>2, ControlloMuove DEF Esce, CacheInv, CacheTipi
<1>3. QED
  BY <1>1, <1>2

LEMMA PassoCerca ==
  ASSUME CacheInv, NEW r \in Controlli, Cerca(r)
  PROVE  CacheInv'
<1> DEFINE a == [fase |-> "imposta", da |-> controllo[r].da, valore |-> vale]
<1>1. /\ a \in Controllo /\ a.fase = "imposta" /\ a.da = controllo[r].da /\ a.valore = vale
      /\ controllo' = [controllo EXCEPT ![r] = a]
  BY CacheNote DEF Controllo, Cerca, CacheInv, CacheTipi
<1>2. PICK q \in Controllo : q = a
  BY <1>1
<1> HIDE DEF a
<1>3. eta[q.valore] <= q.da
  BY <1>1, <1>2, CacheNote DEF CacheInv
<1>4. QED
  BY <1>1, <1>2, <1>3, ControlloMuove DEF Cerca, CacheInv, CacheTipi

LEMMA PassoImposta ==
  ASSUME CacheInv, NEW r \in Controlli, Imposta(r)
  PROVE  CacheInv'
<1>1. /\ controllo[r].fase = "imposta" /\ controllo[r] \in Controllo
      /\ controllo[r].valore \in BOOLEAN /\ eta[controllo[r].valore] <= controllo[r].da
  BY CacheNote DEF Imposta, CacheInv
<1>2. PICK q \in Controllo : q = [controllo[r] EXCEPT !.fase = "risposta"]
  BY <1>1 DEF Controllo
<1>3. q.fase = "risposta" /\ q.da = controllo[r].da /\ q.valore = controllo[r].valore
  BY <1>1, <1>2 DEF Controllo
<1>4. controllo' = [controllo EXCEPT ![r] = q]
  BY <1>2 DEF Imposta, CacheInv, CacheTipi
<1>5. eta[q.valore] <= Pazienza + Ttl - 1 + q.da
  BY <1>1, <1>3, CacheNote
<1>6. CASE cache' = cache
  BY <1>3, <1>4, <1>5, <1>6, ControlloMuove DEF Imposta, CacheInv, CacheTipi
<1>7. CASE cache' = VoceNuova(r)
  <2>1. /\ cache' \in [valore : BOOLEAN, resta : 0..Ttl]
        /\ cache'.valore = controllo[r].valore /\ cache'.resta = Ttl
    BY <1>1, <1>7, CacheNote DEF VoceNuova
  <2>2. eta[cache'.valore] <= Pazienza + Ttl - cache'.resta
    BY <1>1, <2>1, CacheNote
  <2>3. QED
    BY <1>3, <1>4, <1>5, <2>1, <2>2, ControlloMuove DEF Imposta
<1>8. QED
  BY <1>6, <1>7 DEF Imposta

\* Time passes for the answers and for the requests alike.
LEMMA PassoTrascorre ==
  ASSUME CacheInv, Trascorre
  PROVE  CacheInv'
<1>1. /\ vale' = vale
      /\ eta' \in [BOOLEAN -> 0..(Limite + 1)]
      /\ \A b \in BOOLEAN : eta'[b] <= eta[b] + 1
      /\ eta'[vale] = 0
  <2>1. \A b \in BOOLEAN : eta'[b] = IF b = vale \/ eta[b] > Limite THEN eta[b] ELSE eta[b] + 1
    BY DEF Trascorre
  <2>2. \A b \in BOOLEAN : eta'[b] \in 0..(Limite + 1) /\ eta'[b] <= eta[b] + 1
    BY <2>1, CacheNote
  <2>3. eta'[vale] = 0
    BY <2>1, CacheNote DEF CacheInv
  <2>4. eta' \in [BOOLEAN -> 0..(Limite + 1)]
    BY <2>2 DEF Trascorre
  <2>5. QED
    BY <2>2, <2>3, <2>4 DEF Trascorre
<1>2. /\ cache' \in [valore : BOOLEAN, resta : 0..Ttl] /\ cache'.valore = cache.valore
      /\ cache'.resta = IF cache.resta = 0 THEN 0 ELSE cache.resta - 1
  <2>1. cache \in [valore : BOOLEAN, resta : 0..Ttl]
    BY DEF CacheInv, CacheTipi
  <2>2. cache' = [cache EXCEPT !.resta = IF cache.resta = 0 THEN 0 ELSE cache.resta - 1]
    BY <2>1 DEF Trascorre
  <2>3. (IF cache.resta = 0 THEN 0 ELSE cache.resta - 1) \in 0..Ttl
    BY CacheNote
  <2>4. QED
    BY <2>1, <2>2, <2>3
<1>3. cache'.resta > 0 => eta'[cache'.valore] <= Pazienza + Ttl - cache'.resta
  <2>1. SUFFICES ASSUME cache'.resta > 0 PROVE eta'[cache'.valore] <= Pazienza + Ttl - cache'.resta
    OBVIOUS
  <2>2. cache.resta > 0 /\ cache'.resta = cache.resta - 1
    BY <1>2, <2>1, CacheNote
  <2>3. eta[cache.valore] <= Pazienza + Ttl - cache.resta
    BY <2>2 DEF CacheInv
  <2>4. eta'[cache.valore] <= eta[cache.valore] + 1 /\ eta'[cache.valore] \in Nat
    BY <1>1, CacheNote
  <2>5. QED
    BY <1>2, <2>2, <2>3, <2>4, CacheNote
<1>4. ASSUME NEW r \in Controlli
      PROVE  /\ controllo'[r] \in Controllo
             /\ controllo'[r].fase = "imposta" => eta'[controllo'[r].valore] <= controllo'[r].da
             /\ controllo'[r].fase = "risposta" =>
                  eta'[controllo'[r].valore] <= Pazienza + Ttl - 1 + controllo'[r].da
  <2>1. CASE ~InGuardia(r)
    <3>1. controllo'[r] = controllo[r]
      BY <2>1 DEF Trascorre
    <3>2. QED
      BY <2>1, <3>1, CacheNote DEF InGuardia
  <2>2. CASE InGuardia(r)
    <3>1. /\ controllo'[r] = [controllo[r] EXCEPT !.da = controllo[r].da + 1]
          /\ controllo[r].da < Pazienza
      BY <2>2 DEF Trascorre
    <3>2. controllo[r] \in Controllo /\ controllo[r].da + 1 \in 0..Pazienza
      BY <3>1, CacheNote
    <3>3. controllo[r].fase \in {"cerca", "imposta", "risposta"}
      BY <2>2, CacheNote DEF InGuardia
    <3>4. /\ controllo'[r] \in Controllo
          /\ controllo'[r].fase = controllo[r].fase /\ controllo'[r].da = controllo[r].da + 1
          /\ controllo[r].fase \in {"imposta", "risposta"} =>
               controllo'[r].valore = controllo[r].valore
      BY <3>1, <3>2, <3>3 DEF Controllo
    <3>5. controllo[r].fase \in {"imposta", "risposta"} =>
             /\ eta'[controllo[r].valore] <= eta[controllo[r].valore] + 1
             /\ eta'[controllo[r].valore] \in Nat /\ eta[controllo[r].valore] \in Nat
      BY <1>1, CacheNote
    <3>6. /\ controllo[r].fase = "imposta" => eta[controllo[r].valore] <= controllo[r].da
          /\ controllo[r].fase = "risposta" =>
                 eta[controllo[r].valore] <= Pazienza + Ttl - 1 + controllo[r].da
      BY DEF CacheInv
    <3>7. QED
      BY <3>4, <3>5, <3>6, CacheNote
  <2>3. QED
    BY <2>1, <2>2
<1>5. controllo' \in [Controlli -> Controllo]
  BY <1>4 DEF Trascorre
<1>6. QED
  BY <1>1, <1>2, <1>3, <1>4, <1>5 DEF CacheInv, CacheTipi

LEMMA PassoCambia ==
  ASSUME CacheInv, Cambia
  PROVE  CacheInv'
<1>1. PICK w \in BOOLEAN : w = ~vale
  BY CacheNote
<1>2. /\ vale' = w /\ eta' = [eta EXCEPT ![w] = 0] /\ UNCHANGED <<cache, controllo>>
  BY <1>1 DEF Cambia
<1>3. /\ eta' \in [BOOLEAN -> 0..(Limite + 1)] /\ eta'[w] = 0
      /\ \A b \in BOOLEAN : eta'[b] \in Nat /\ eta[b] \in Nat /\ eta'[b] <= eta[b]
  <2>1. eta \in [BOOLEAN -> 0..(Limite + 1)] /\ 0 \in 0..(Limite + 1)
    BY CacheNote DEF CacheInv, CacheTipi
  <2>2. /\ eta' \in [BOOLEAN -> 0..(Limite + 1)] /\ eta'[w] = 0
        /\ \A b \in BOOLEAN : b # w => eta'[b] = eta[b]
    BY <1>2, <2>1
  <2>3. QED
    BY <2>1, <2>2, CacheNote
<1>4. cache.resta > 0 => eta'[cache.valore] <= Pazienza + Ttl - cache.resta
  <2>1. cache.resta > 0 => eta[cache.valore] <= Pazienza + Ttl - cache.resta
    BY DEF CacheInv
  <2>2. QED
    BY <1>3, <2>1, CacheNote
<1>5. ASSUME NEW r \in Controlli
      PROVE  /\ controllo[r].fase = "imposta" => eta'[controllo[r].valore] <= controllo[r].da
             /\ controllo[r].fase = "risposta" =>
                  eta'[controllo[r].valore] <= Pazienza + Ttl - 1 + controllo[r].da
  <2>1. /\ controllo[r].fase = "imposta" => eta[controllo[r].valore] <= controllo[r].da
        /\ controllo[r].fase = "risposta" =>
             eta[controllo[r].valore] <= Pazienza + Ttl - 1 + controllo[r].da
    BY DEF CacheInv
  <2>2. controllo[r].fase \in {"imposta", "risposta"} =>
           /\ eta'[controllo[r].valore] <= eta[controllo[r].valore]
           /\ eta'[controllo[r].valore] \in Nat /\ eta[controllo[r].valore] \in Nat
    BY <1>3, CacheNote
  <2>3. QED
    BY <2>1, <2>2, CacheNote
<1>6. QED
  BY <1>2, <1>3, <1>4, <1>5 DEF CacheInv, CacheTipi

\* TenantConsistencyGuard and PermissionsGuard: an answer in Redis was the true
\* one no longer ago than the time it has been there and what a request may
\* take before it sets it.
THEOREM RispostePassate == CacheSpec => []CacheInv
<1>1. CacheInit => CacheInv
  <2> SUFFICES ASSUME CacheInit PROVE CacheInv
    OBVIOUS
  <2>1. Ttl \in Nat /\ Limite \in Nat
    BY CacheAssumption DEF Limite
  <2>2. /\ vale \in BOOLEAN /\ cache = [valore |-> FALSE, resta |-> 0]
        /\ controllo = [r \in Controlli |-> Fuori]
        /\ eta = [b \in BOOLEAN |-> IF b = vale THEN 0 ELSE Limite + 1]
    BY DEF CacheInit
  <2>3. CacheTipi
    BY <2>1, <2>2 DEF CacheTipi, Controllo, Fuori
  <2>4. QED
    BY <2>2, <2>3 DEF CacheInv, Fuori
<1>2. CacheInv /\ [CacheNext]_cacheVars => CacheInv'
  <2> SUFFICES ASSUME CacheInv, [CacheNext]_cacheVars PROVE CacheInv'
    OBVIOUS
  <2>1. CASE UNCHANGED cacheVars
    BY <2>1 DEF cacheVars, CacheInv, CacheTipi
  <2>2. CASE CacheNext
    BY <2>2, PassoTrascorre, PassoCambia, PassoTrova, PassoNonTrova, PassoCerca, PassoImposta
    DEF CacheNext
  <2>3. QED
    BY <2>1, <2>2
<1>3. QED
  BY <1>1, <1>2, PTL DEF CacheSpec

\* No guard lets a request through, or refuses it, on an answer that has not
\* been true for longer than the time to live and twice what a request may
\* take, whatever requests look it up and set it at the same time.
THEOREM NessunaRispostaVecchia == CacheSpec => []RispostaRecente
<1>1. ASSUME CacheInv PROVE RispostaRecente
  <2> SUFFICES ASSUME NEW r \in Controlli, controllo[r].fase = "risposta"
               PROVE  eta[controllo[r].valore] <= Limite
    BY DEF RispostaRecente
  <2>1. eta[controllo[r].valore] <= Pazienza + Ttl - 1 + controllo[r].da
    BY <1>1 DEF CacheInv
  <2>2. controllo[r].valore \in BOOLEAN /\ eta[controllo[r].valore] \in Nat
    BY <1>1, CacheNote
  <2>3. QED
    BY <1>1, <2>1, <2>2, CacheNote
<1>2. QED
  BY <1>1, RispostePassate, PTL

-----------------------------------------------------------------------------
(* The guesses that a lockout lets through.                                *)

\* The elements of E have different owners.
LEMMA UnoPerRichiesta ==
  ASSUME IsFiniteSet(Tentativi), NEW S \in SUBSET Membri, IsFiniteSet(S), NEW E \in SUBSET S,
         NEW k \in Int, Cardinality(S \ E) <= k,
         \A m, n \in E : m.di = n.di => m = n
  PROVE  Cardinality(S) <= k + Cardinality(Tentativi)
<1> DEFINE f == [m \in E |-> m.di]
<1>1. f \in Injection(E, Tentativi)
  BY DEF Injection, IsInjective, Membri
<1>2. IsFiniteSet(E) /\ Cardinality(E) <= Cardinality(Tentativi)
  BY <1>1, FS_Injection
<1>3. IsFiniteSet(S \ E)
  BY FS_Subset
<1> DEFINE D == S \ E
<1>4. Cardinality(S) = Cardinality(D) + Cardinality(E)
  <2>1. S = D \cup E /\ D \cap E = {}
    OBVIOUS
  <2>2. Cardinality(D \cup E) = Cardinality(D) + Cardinality(E) - Cardinality(D \cap E)
    BY <1>2, <1>3, FS_Union
  <2>3. Cardinality(S) = Cardinality(D \cup E)
    BY <2>1
  <2>4. Cardinality(D \cap E) = 0
    BY <2>1, FS_EmptySet
  <2>5. Cardinality(D) \in Nat /\ Cardinality(E) \in Nat
    BY <1>2, <1>3, FS_CardinalityType
  <2> HIDE DEF D
  <2>6. QED
    BY <2>2, <2>3, <2>4, <2>5
<1>5. Cardinality(S \ E) \in Nat /\ Cardinality(E) \in Nat /\ Cardinality(Tentativi) \in Nat
  BY <1>2, <1>3, FS_CardinalityType
<1>6. QED
  BY <1>2, <1>4, <1>5

LEMMA NonDiPiu ==
  ASSUME NEW A, IsFiniteSet(A), NEW B \in SUBSET A, NEW k \in Int, Cardinality(A) <= k
  PROVE  IsFiniteSet(B) /\ Cardinality(B) <= k
<1>1. IsFiniteSet(B) /\ Cardinality(B) <= Cardinality(A)
  BY FS_Subset
<1>2. Cardinality(A) \in Nat /\ Cardinality(B) \in Nat
  BY <1>1, FS_CardinalityType
<1>3. QED
  BY <1>1, <1>2

LEMMA LockCosti ==
  /\ Threshold \in Nat \ {0} /\ Window \in Nat \ {0} /\ Duration \in Nat /\ MaxOra \in Nat
  /\ \A t \in Tempi : t \in Nat
  /\ \A m \in Membri : m.di \in Tentativi /\ m.quando \in Nat
BY LockoutAssumption DEF Tempi, Membri

LEMMA InizioLock == IsFiniteSet(Tentativi) /\ LockoutInit => LockInv
<1> SUFFICES ASSUME IsFiniteSet(Tentativi), LockoutInit PROVE LockInv
  OBVIOUS
<1>1. LockTipi
  BY LockCosti, FS_EmptySet DEF LockoutInit, LockTipi, Tempi, Fasi, Inattivo
<1>2. NessunaPersa
  BY LockCosti DEF LockoutInit, NessunaPersa, InRegistra, Inattivo
<1>3. TentativiLimitati
  <2> SUFFICES ASSUME NEW t \in Tempi
               PROVE  Cardinality({m \in sbagliate : m.quando <= t /\ t < m.quando + Window})
                        <= Threshold + Cardinality(Tentativi) - 1
    BY DEF TentativiLimitati
  <2> DEFINE A == {m \in sbagliate : m.quando <= t /\ t < m.quando + Window}
  <2>1. A = {}
    BY DEF LockoutInit
  <2>2. Cardinality(Tentativi) \in Nat /\ Cardinality(A) = 0
    BY <2>1, FS_CardinalityType, FS_EmptySet
  <2> HIDE DEF A
  <2>3. Cardinality(A) <= Threshold + Cardinality(Tentativi) - 1
    BY <2>2, LockCosti
  <2>4. QED
    BY <2>3 DEF A
<1>4. Eccesso({})
  <2>1. Contate \ {} = {}
    BY DEF Contate, LockoutInit
  <2>2. Cardinality(Contate \ {}) = 0
    <3>1. Cardinality({}) = 0
      BY FS_EmptySet
    <3>2. QED
      BY ONLY <2>1, <3>1
  <2>3. Cardinality(Contate \ {}) <= Threshold - 1
    <3>1. Threshold \in Nat /\ Threshold # 0
      BY LockoutAssumption
    <3>2. QED
      BY ONLY <2>2, <3>1, SMT
  <2>4. {} \in SUBSET Contate
    OBVIOUS
  <2>5. QED
    BY <2>3, <2>4 DEF Eccesso
<1>5. locked <= ora + Duration
  BY LockCosti DEF LockoutInit
<1>6. QED
  BY <1>1, <1>2, <1>3, <1>4, <1>5 DEF LockInv

\* What is left to show of a step that adds no guess.
LEMMA SenzaSbagli ==
  ASSUME LockInv, LockTipi', NessunaPersa', (locked <= ora + Duration)', sbagliate' = sbagliate,
         NEW S, Eccesso(S)'
  PROVE  LockInv'
<1>1. TentativiLimitati'
  BY DEF LockInv, TentativiLimitati
<1>2. S \in SUBSET Contate'
  BY DEF Eccesso
<1>3. QED
  BY <1>1, <1>2 DEF LockInv

LEMMA PassoPassa ==
  ASSUME LockInv, Passa, Window <= Duration
  PROVE  LockInv'
<1>1. PICK S \in SUBSET Contate : Eccesso(S)
  BY DEF LockInv
<1>2. ora \in Nat /\ ora' = ora + 1 /\ ora' \in Tempi /\ locked \in Nat /\ scadeSet \in Nat
  BY LockCosti DEF LockInv, LockTipi, Passa, Tempi
<1>3. LockTipi'
  BY <1>2 DEF LockInv, LockTipi, Passa
<1>4. (locked <= ora + Duration)'
  BY <1>2, LockCosti DEF LockInv, Passa
<1>5. NessunaPersa'
  <2>1. \A m \in sbagliate \cup attempts : m.quando \in Nat
    BY LockCosti DEF LockInv, LockTipi
  <2>2. QED
    BY <1>2, <2>1, LockCosti DEF LockInv, NessunaPersa, InRegistra, Passa
<1>6. Contate' \subseteq Contate
  BY <1>2, LockCosti DEF Contate, Passa, LockInv, LockTipi
<1> PICK R : R = S \cap Contate'
  OBVIOUS
<1>7. Eccesso(R)'
  <2>1. Contate' \ R \subseteq Contate \ S /\ Threshold - 1 \in Int
    BY <1>6, LockCosti
  <2>2. IsFiniteSet(Contate \ S) /\ Cardinality(Contate \ S) <= Threshold - 1
    BY <1>1, FS_Subset DEF LockInv, LockTipi, Contate, Eccesso
  <2>3. Cardinality(Contate' \ R) <= Threshold - 1
    BY <2>1, <2>2, NonDiPiu
  <2>4. QED
    BY <1>1, <2>3 DEF Eccesso, Passa
<1>8. QED
  BY <1>3, <1>4, <1>5, <1>7, SenzaSbagli DEF Passa

LEMMA PassoControlla ==
  ASSUME LockInv, NEW r \in Tentativi, Controlla(r)
  PROVE  LockInv'
<1>1. PICK S \in SUBSET Contate : Eccesso(S)
  BY DEF LockInv
<1>2. /\ ora \in Nat /\ locked \in Nat /\ locked <= ora
      /\ tentativo \in [Tentativi -> Fasi] /\ tentativo[r].fase = "inattivo"
  BY LockCosti DEF LockInv, LockTipi, Controlla, Bloccato, Tempi, Inattivo
<1>3. /\ tentativo' \in [Tentativi -> Fasi] /\ tentativo'[r].fase = "verifica"
      /\ \A q \in Tentativi : q # r => tentativo'[q] = tentativo[q]
  BY <1>2 DEF Controlla, Fasi
<1>4. LockTipi' /\ (locked <= ora + Duration)'
  BY <1>3 DEF LockInv, LockTipi, Controlla
<1>5. \A q \in Tentativi, m \in Membri : InRegistra(q, m)' <=> InRegistra(q, m)
  BY <1>2, <1>3 DEF InRegistra
<1>6. NessunaPersa'
  <2>1. NessunaPersa /\ sbagliate \subseteq Membri
    BY DEF LockInv, LockTipi
  <2>2. UNCHANGED <<ora, attempts, sbagliate, scadeSet>>
    BY DEF Controlla
  <2>3. QED
    BY <1>5, <2>1, <2>2 DEF NessunaPersa
<1>7. \A m \in S : m.di \in Tentativi /\ m.di # r
  <2> SUFFICES ASSUME NEW m \in S, m.di = r PROVE FALSE
    BY LockCosti DEF Contate, LockInv, LockTipi
  <2>1. locked >= m.quando + Window
    BY <1>1, <1>2 DEF Eccesso
  <2>2. m.quando + Window > ora /\ m.quando \in Nat
    BY LockCosti DEF Contate, LockInv, LockTipi
  <2>3. QED
    BY <1>2, <2>1, <2>2, LockCosti
<1>8. Eccesso(S)'
  <2>1. UNCHANGED <<ora, attempts, sbagliate, locked>> /\ Contate' = Contate
    BY DEF Controlla, Contate
  <2>2. QED
    BY <1>1, <1>3, <1>7, <2>1 DEF Eccesso
<1>9. QED
  BY <1>4, <1>6, <1>8, SenzaSbagli DEF Controlla

LEMMA PassoPromuove ==
  ASSUME LockInv, NEW r \in Tentativi, Promuove(r), Window <= Duration
  PROVE  LockInv'
<1>1. PICK S \in SUBSET Contate : Eccesso(S)
  BY DEF LockInv
<1>2. /\ ora \in Nat /\ locked \in Nat /\ locked' = ora + Duration /\ locked <= locked'
      /\ tentativo \in [Tentativi -> Fasi] /\ tentativo[r].fase = "promuove"
  BY LockCosti DEF LockInv, LockTipi, Promuove, Tempi
<1>3. /\ tentativo' \in [Tentativi -> Fasi] /\ tentativo'[r].fase = "inattivo"
      /\ \A q \in Tentativi : q # r => tentativo'[q] = tentativo[q]
  BY <1>2 DEF Promuove, Fasi, Inattivo
<1>4. LockTipi' /\ (locked <= ora + Duration)'
  BY <1>2, <1>3, LockCosti DEF LockInv, LockTipi, Promuove
<1>5. \A q \in Tentativi, m \in Membri : InRegistra(q, m)' <=> InRegistra(q, m)
  BY <1>2, <1>3 DEF InRegistra
<1>6. NessunaPersa'
  <2>1. NessunaPersa /\ sbagliate \subseteq Membri
    BY DEF LockInv, LockTipi
  <2>2. UNCHANGED <<ora, attempts, sbagliate, scadeSet>>
    BY DEF Promuove
  <2>3. QED
    BY <1>5, <2>1, <2>2 DEF NessunaPersa
<1>7. \A m \in S : /\ m.di \in Tentativi /\ m.quando \in Nat /\ m.quando <= ora
                   /\ locked' >= m.quando + Window
  BY <1>2, LockCosti DEF Contate, LockInv, LockTipi, NessunaPersa
<1>8. Eccesso(S)'
  <2>1. UNCHANGED <<ora, attempts, sbagliate>> /\ Contate' = Contate
    BY DEF Promuove, Contate
  <2>2. \A m \in S : \/ tentativo'[m.di].fase = "promuove"
                     \/ tentativo'[m.di].fase = "inattivo" /\ locked' >= m.quando + Window
    BY <1>1, <1>2, <1>3, <1>7 DEF Eccesso
  <2>3. QED
    BY <1>1, <2>1, <2>2 DEF Eccesso
<1>9. QED
  BY <1>4, <1>6, <1>8, SenzaSbagli DEF Promuove

LEMMA PassoAzzera ==
  ASSUME LockInv, IsFiniteSet(Tentativi), NEW r \in Tentativi, Azzera(r)
  PROVE  LockInv'
<1>1. /\ ora \in Nat /\ ora' = ora /\ scadeSet' = scadeSet /\ locked' = 0
      /\ attempts' = {} /\ sbagliate' = {}
      /\ tentativo \in [Tentativi -> Fasi] /\ tentativo[r].fase = "verifica"
  BY LockCosti DEF LockInv, LockTipi, Azzera, Tempi
<1>2. /\ tentativo' \in [Tentativi -> Fasi] /\ tentativo'[r].fase = "inattivo"
      /\ \A q \in Tentativi : q # r => tentativo'[q] = tentativo[q]
  BY <1>1 DEF Azzera, Fasi, Inattivo
<1>3. LockTipi' /\ (locked <= ora + Duration)'
  BY <1>1, <1>2, FS_EmptySet, LockCosti DEF LockInv, LockTipi
<1>4. NessunaPersa'
  BY <1>1, <1>2 DEF LockInv, NessunaPersa, InRegistra
<1>5. TentativiLimitati'
  <2> SUFFICES ASSUME NEW t \in Tempi
               PROVE  Cardinality({m \in sbagliate' : m.quando <= t /\ t < m.quando + Window})
                        <= Threshold + Cardinality(Tentativi) - 1
    BY DEF TentativiLimitati
  <2> DEFINE A == {m \in sbagliate' : m.quando <= t /\ t < m.quando + Window}
  <2>1. A = {}
    BY <1>1
  <2>2. Cardinality(Tentativi) \in Nat /\ Cardinality(A) = 0
    BY <2>1, FS_CardinalityType, FS_EmptySet
  <2> HIDE DEF A
  <2>3. Cardinality(A) <= Threshold + Cardinality(Tentativi) - 1
    BY <2>2, LockCosti
  <2>4. QED
    BY <2>3 DEF A
<1>6. Eccesso({})'
  <2>1. Contate' = {} /\ {} \ {} = {}
    BY <1>1 DEF Contate
  <2>2. Cardinality(Contate' \ {}) <= Threshold - 1
    BY <2>1, FS_EmptySet, LockCosti
  <2>3. QED
    BY <2>2 DEF Eccesso
<1>7. QED
  BY <1>3, <1>4, <1>5, <1>6 DEF LockInv

LEMMA PassoRegistra ==
  ASSUME LockInv, NEW r \in Tentativi, Registra(r)
  PROVE  LockInv'
<1>1. PICK S \in SUBSET Contate : Eccesso(S)
  BY DEF LockInv
<1>2. PICK mm : mm = tentativo[r].membro
  OBVIOUS
<1>3. /\ mm \in Membri /\ mm.quando \in Nat /\ mm.quando <= ora /\ mm.di = r
      /\ InRegistra(r, mm) /\ tentativo[r].fase = "registra"
  BY <1>2, LockCosti DEF LockInv, LockTipi, NessunaPersa, InRegistra, Registra, Fasi
<1>4. /\ ora \in Nat /\ scadeSet \in Nat /\ locked \in Nat /\ scadeSet' = ora + Window
      /\ attempts' = ConTentativo(mm)
      /\ UNCHANGED <<ora, locked, sbagliate>>
      /\ attempts \subseteq Membri /\ sbagliate \subseteq Membri /\ IsFiniteSet(attempts)
  BY <1>2, LockCosti DEF LockInv, LockTipi, Registra, Tempi
<1>5. /\ tentativo' \in [Tentativi -> Fasi]
      /\ tentativo'[r].fase \in {"inattivo", "promuove"}
      /\ Cardinality(attempts') >= Threshold => tentativo'[r].fase = "promuove"
      /\ \A q \in Tentativi : q # r => tentativo'[q] = tentativo[q]
  BY <1>2, <1>4 DEF LockInv, LockTipi, Registra, Raggiunge, Fasi, Inattivo
<1>6. attempts' \subseteq attempts \cup {mm} /\ IsFiniteSet(attempts')
  <2>1. attempts' \subseteq attempts \cup {mm}
    BY <1>4 DEF ConTentativo
  <2>2. IsFiniteSet(attempts \cup {mm})
    BY <1>4, FS_AddElement
  <2>3. QED
    BY <2>1, <2>2, FS_Subset
<1>7. LockTipi' /\ (locked <= ora + Duration)'
  BY <1>3, <1>4, <1>5, <1>6, LockCosti DEF LockInv, LockTipi
<1>8. NessunaPersa'
  <2>1. \A m \in sbagliate' \cup attempts' : m.quando <= ora'
    BY <1>3, <1>4, <1>6 DEF LockInv, NessunaPersa
  <2>2. \A q \in Tentativi, m \in Membri : InRegistra(q, m)' <=> (q # r /\ InRegistra(q, m))
    BY <1>5 DEF InRegistra
  <2>3. ASSUME NEW m \in sbagliate, m.quando + Window > ora
        PROVE  \/ m \in attempts' /\ scadeSet' >= m.quando + Window
               \/ \E q \in Tentativi : InRegistra(q, m)'
    <3>1. m \in Membri /\ m.quando \in Nat /\ m.quando <= ora
      BY <1>4, LockCosti DEF LockInv, NessunaPersa
    <3>2. scadeSet' >= m.quando + Window /\ m.quando + Window > mm.quando
      BY <1>3, <1>4, <2>3, <3>1, LockCosti
    <3>3. CASE m \in attempts /\ scadeSet >= m.quando + Window
      <4>1. scadeSet > ora
        BY <1>4, <2>3, <3>1, <3>3, LockCosti
      <4>2. QED
        BY <1>4, <3>2, <3>3, <4>1 DEF ConTentativo
    <3>4. CASE m = mm
      BY <1>4, <3>2, <3>4 DEF ConTentativo
    <3>5. CASE m # mm /\ \E q \in Tentativi : InRegistra(q, m)
      BY <1>2, <2>2, <3>1, <3>5 DEF InRegistra
    <3>6. QED
      BY <2>3, <3>3, <3>4, <3>5 DEF LockInv, NessunaPersa
  <2>4. QED
    BY <1>4, <2>1, <2>2, <2>3 DEF LockInv, NessunaPersa
<1>9. Contate' \subseteq Contate \cup {mm} /\ Contate' \subseteq attempts'
  BY <1>4, <1>6 DEF Contate
<1>10. \A m \in S : m.di \in Tentativi /\ m.di # r
  BY <1>1, <1>3, LockCosti DEF Eccesso, Contate, LockInv, LockTipi
<1>11. Threshold - 1 \in Int
  BY LockCosti
<1>12. CASE Cardinality(attempts') >= Threshold
  <2> PICK R : R = (S \cup {mm}) \cap Contate'
    OBVIOUS
  <2>1. Cardinality(Contate' \ R) <= Threshold - 1
    <3>1. Contate' \ R \subseteq Contate \ S
      BY <1>9
    <3>2. IsFiniteSet(Contate \ S) /\ Cardinality(Contate \ S) <= Threshold - 1
      BY <1>1, FS_Subset DEF LockInv, LockTipi, Contate, Eccesso
    <3>3. QED
      BY <1>11, <3>1, <3>2, NonDiPiu
  <2>2. \A m, n \in R : m.di = n.di => m = n
    BY <1>1, <1>3, <1>10 DEF Eccesso
  <2>3. \A m \in R : \/ tentativo'[m.di].fase = "promuove"
                     \/ tentativo'[m.di].fase = "inattivo" /\ locked' >= m.quando + Window
    <3> SUFFICES ASSUME NEW m \in R
                 PROVE  \/ tentativo'[m.di].fase = "promuove"
                        \/ tentativo'[m.di].fase = "inattivo" /\ locked' >= m.quando + Window
      OBVIOUS
    <3>1. CASE m = mm
      BY <1>3, <1>5, <1>12, <3>1
    <3>2. CASE m \in S
      BY <1>1, <1>4, <1>5, <1>10, <3>2 DEF Eccesso
    <3>3. QED
      BY <3>1, <3>2
  <2>4. Eccesso(R)'
    BY <2>1, <2>2, <2>3 DEF Eccesso
  <2>5. QED
    BY <1>4, <1>7, <1>8, <2>4, SenzaSbagli
<1>13. CASE ~(Cardinality(attempts') >= Threshold)
  <2>1. Cardinality(attempts') <= Threshold - 1
    BY <1>6, <1>13, FS_CardinalityType, LockCosti
  <2>2. Cardinality(Contate' \ {}) <= Threshold - 1
    BY <1>6, <1>9, <1>11, <2>1, NonDiPiu
  <2>3. Eccesso({})'
    BY <2>2 DEF Eccesso
  <2>4. QED
    BY <1>4, <1>7, <1>8, <2>3, SenzaSbagli
<1>14. QED
  BY <1>12, <1>13

LEMMA PassoSbaglia ==
  ASSUME LockInv, IsFiniteSet(Tentativi), NEW r \in Tentativi, Sbaglia(r)
  PROVE  LockInv'
<1>1. PICK S \in SUBSET Contate : Eccesso(S)
  BY DEF LockInv
<1>2. PICK s \in Sigle :
        LET membro == [di |-> r, quando |-> ora, sigla |-> s] IN
        /\ membro \notin attempts \cup sbagliate
        /\ tentativo' = [tentativo EXCEPT ![r] = [fase |-> "registra", membro |-> membro]]
        /\ sbagliate' = sbagliate \cup {membro}
  BY DEF Sbaglia
<1>3. PICK mm : mm = [di |-> r, quando |-> ora, sigla |-> s]
  OBVIOUS
<1>4. /\ mm \in Membri /\ mm.di = r /\ mm.quando = ora /\ ora \in Nat /\ ora \in Tempi
      /\ mm \notin attempts /\ sbagliate' = sbagliate \cup {mm}
      /\ UNCHANGED <<ora, attempts, scadeSet, locked>>
      /\ attempts \subseteq Membri /\ sbagliate \subseteq Membri
      /\ tentativo \in [Tentativi -> Fasi] /\ tentativo[r].fase = "verifica"
  BY <1>2, <1>3, LockCosti DEF LockInv, LockTipi, Membri, Sbaglia
<1>5. /\ tentativo' \in [Tentativi -> Fasi]
      /\ tentativo'[r].fase = "registra" /\ tentativo'[r].membro = mm
      /\ \A q \in Tentativi : q # r => tentativo'[q] = tentativo[q]
  BY <1>2, <1>3, <1>4 DEF Fasi
<1>6. LockTipi' /\ (locked <= ora + Duration)'
  BY <1>4, <1>5, FS_AddElement DEF LockInv, LockTipi
<1>7. NessunaPersa'
  <2>1. \A q \in Tentativi, m \in Membri :
          InRegistra(q, m)' <=> (IF q = r THEN m = mm ELSE InRegistra(q, m))
    BY <1>5 DEF InRegistra
  <2>2. InRegistra(r, mm)'
    BY <1>5 DEF InRegistra
  <2>3. \A q \in Tentativi, m \in Membri : InRegistra(q, m)' => m.di = q /\ m.quando <= ora
    BY <1>4, <2>1 DEF LockInv, NessunaPersa
  <2>4. \A q \in Tentativi, m \in Membri : InRegistra(q, m) => InRegistra(q, m)'
    BY <1>4, <2>1 DEF InRegistra
  <2>5. ASSUME NEW m \in sbagliate', m.quando + Window > ora
        PROVE  \/ m \in attempts /\ scadeSet >= m.quando + Window
               \/ \E q \in Tentativi : InRegistra(q, m)'
    <3>1. CASE m = mm
      BY <2>2, <3>1
    <3>2. CASE m \in sbagliate
      BY <1>4, <2>4, <2>5, <3>2 DEF LockInv, NessunaPersa
    <3>3. QED
      BY <1>4, <3>1, <3>2
  <2>6. QED
    BY <1>4, <2>3, <2>5 DEF LockInv, NessunaPersa
<1>8. Contate' = Contate
  BY <1>4 DEF Contate
<1>9. \A m \in S : m.di \in Tentativi /\ m.di # r
  BY <1>1, <1>4, LockCosti DEF Eccesso, Contate, LockInv, LockTipi
<1>10. Eccesso(S)'
  BY <1>1, <1>4, <1>5, <1>8, <1>9 DEF Eccesso
\* The guesses of the window are counted, or in flight: one for each request.
<1>11. PICK Finestra : Finestra = {m \in sbagliate' : m.quando + Window > ora}
  OBVIOUS
<1>12. PICK E : E = S \cup {m \in Finestra : \E q \in Tentativi : InRegistra(q, m)'}
  OBVIOUS
<1>13. /\ Finestra \in SUBSET Membri /\ IsFiniteSet(Finestra) /\ E \in SUBSET Finestra
       /\ Finestra \ E \subseteq Contate \ S
  <2>1. Finestra \in SUBSET Membri /\ IsFiniteSet(Finestra)
    BY <1>6, <1>11, FS_Subset DEF LockTipi
  <2>2. Contate \subseteq Finestra
    BY <1>4, <1>11 DEF Contate
  <2>3. \A m \in Finestra : m \in Contate \/ \E q \in Tentativi : InRegistra(q, m)'
    BY <1>4, <1>7, <1>8, <1>11 DEF NessunaPersa, Contate
  <2>4. QED
    BY <1>12, <2>1, <2>2, <2>3
<1>14. Cardinality(Finestra \ E) <= Threshold - 1 /\ Threshold - 1 \in Int
  <2>1. IsFiniteSet(Contate \ S) /\ Cardinality(Contate \ S) <= Threshold - 1
    BY <1>1, FS_Subset DEF LockInv, LockTipi, Contate, Eccesso
  <2>2. Threshold - 1 \in Int
    BY LockCosti
  <2>3. QED
    BY <1>13, <2>1, <2>2, NonDiPiu
<1>15. \A m, n \in E : m.di = n.di => m = n
  <2> SUFFICES ASSUME NEW m \in E, NEW n \in E, m.di = n.di PROVE m = n
    OBVIOUS
  <2>1. \A x \in E : x \in Membri
    BY <1>13
  <2>2. \A x \in E : x \notin S =>
          tentativo'[x.di].fase = "registra" /\ tentativo'[x.di].membro = x
    BY <1>7, <1>12, <2>1 DEF NessunaPersa, InRegistra
  <2>3. \A x \in S : tentativo'[x.di].fase # "registra"
    BY <1>10 DEF Eccesso
  <2>4. CASE m \in S /\ n \in S
    BY <1>1, <2>4 DEF Eccesso
  <2>5. CASE m \notin S /\ n \notin S
    BY <2>2, <2>5
  <2>6. QED
    BY <2>2, <2>3, <2>4, <2>5
<1>16. Cardinality(Finestra) <= Threshold + Cardinality(Tentativi) - 1
  <2>1. Cardinality(Finestra) <= Threshold - 1 + Cardinality(Tentativi)
    BY <1>13, <1>14, <1>15, UnoPerRichiesta
  <2>2. Cardinality(Tentativi) \in Nat /\ Cardinality(Finestra) \in Nat
    BY <1>13, FS_CardinalityType
  <2>3. QED
    BY <2>1, <2>2, LockCosti
<1>17. TentativiLimitati'
  <2> SUFFICES ASSUME NEW t \in Tempi
               PROVE  Cardinality({m \in sbagliate' : m.quando <= t /\ t < m.quando + Window})
                        <= Threshold + Cardinality(Tentativi) - 1
    BY DEF TentativiLimitati
  <2> DEFINE A == {m \in sbagliate' : m.quando <= t /\ t < m.quando + Window}
  <2>1. t \in Nat /\ Threshold + Cardinality(Tentativi) - 1 \in Int
    BY FS_CardinalityType, LockCosti
  <2>2. CASE t < ora
    <3>1. A = {m \in sbagliate : m.quando <= t /\ t < m.quando + Window}
      BY <1>4, <2>1, <2>2
    <3>2. QED
      BY <3>1 DEF LockInv, TentativiLimitati
  <2>3. CASE t >= ora
    <3>1. A \subseteq Finestra
      BY <1>4, <1>11, <2>1, <2>3, LockCosti
    <3>2. QED
      BY <1>13, <1>16, <2>1, <3>1, NonDiPiu
  <2>4. QED
    BY <1>4, <2>1, <2>2, <2>3
<1>18. S \in SUBSET Contate'
  BY <1>8
<1>19. QED
  BY <1>6, <1>7, <1>10, <1>17, <1>18 DEF LockInv

\* The invariant of the guesses: what the window still covers is counted or on its
\* way, and each guess beyond the threshold has locked the key or is about to.
THEOREM TentativiContati ==
  ASSUME IsFiniteSet(Tentativi), Window <= Duration
  PROVE  LockoutSpec => []LockInv
<1>1. LockInv /\ [LockoutNext]_lockoutVars => LockInv'
  <2> SUFFICES ASSUME LockInv, [LockoutNext]_lockoutVars PROVE LockInv'
    OBVIOUS
  <2>1. CASE UNCHANGED lockoutVars
    BY <2>1 DEF lockoutVars, LockInv, LockTipi, NessunaPersa, InRegistra, TentativiLimitati,
                Eccesso, Contate
  <2>2. CASE LockoutNext
    BY <2>2, PassoPassa, PassoControlla, PassoSbaglia, PassoRegistra, PassoPromuove,
       PassoAzzera
    DEF LockoutNext
  <2>3. QED
    BY <2>1, <2>2
<1>2. QED
  BY <1>1, InizioLock, PTL DEF LockoutSpec

\* However many requests guess at the same time, and whatever right password
\* comes in between, a window of a key has at most the threshold of wrong guesses
\* and one more for each further request, where a lock lasts a window at least.
THEOREM BloccoLimitaITentativi ==
  ASSUME IsFiniteSet(Tentativi), Window <= Duration
  PROVE  LockoutSpec => []TentativiLimitati
<1>1. LockInv => TentativiLimitati
  BY DEF LockInv
<1>2. QED
  BY <1>1, TentativiContati, PTL
=============================================================================
