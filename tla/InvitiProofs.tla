----------------------------- MODULE InvitiProofs -----------------------------
(***************************************************************************)
(* Theorems about Inviti, for every set of companies, addresses, links and *)
(* requests: a link gives one user, a company with users has an            *)
(* administrator.  They come from InvitiInv, which every step preserves.   *)
(***************************************************************************)
EXTENDS Inviti, TLAPS

\* No step deletes a user, or changes its company or role.
Restano ==
    \A e \in Email : Esiste(cliente, e) =>
        /\ Esiste(cliente, e)'
        /\ cliente'[e].azienda = cliente[e].azienda
        /\ cliente'[e].ruolo = cliente[e].ruolo

\* No step takes an invite away.
InvitiRestano ==
    \A a \in Aziende, e \in Email : Esiste(invito[a], e) => Esiste(invito[a], e)'

\* Rows and requests are as the types say.
LEMMA RigheTipi ==
  ASSUME InvitiTipi
  PROVE  /\ \A a \in Aziende, e \in Email : Esiste(invito[a], e) => invito[a][e] \in InvitoRiga
         /\ \A e \in Email : Esiste(cliente, e) => cliente[e] \in ClienteRiga
         /\ \A r \in Accettazioni :
              accetta[r].fase # "ferma" => accetta[r] \in InAccettazione
         /\ \A t \in Token : nati[t] \in Nat
  BY DEF InvitiTipi, Esiste, Pausa

\* What an administrator is to a company is not undone.
LEMMA AdminResta ==
  ASSUME Restano, NEW a \in Aziende, HaAdmin(a)
  PROVE  HaAdmin(a)'
  BY DEF Restano, HaAdmin

\* What a request knows stays true.
LEMMA SaAncora ==
  ASSUME Restano, InvitiRestano, NEW q \in InAccettazione \cup {Pausa}, SaInvito(q)
  PROVE  SaInvito(q)'
<1>1. CASE q.fase = "ferma"
  BY <1>1 DEF SaInvito
<1>2. CASE q.fase # "ferma"
  <2>1. q.azienda \in Aziende /\ q.email \in Email
    BY <1>2 DEF InAccettazione, Pausa
  <2>2. /\ Esiste(invito[q.azienda], q.email)
        /\ q.fase = "deciso" => q.ruolo = "admin" \/ HaAdmin(q.azienda)
        /\ q.fase \in {"creato", "segnato"} => Esiste(cliente, q.email)
    BY <1>2 DEF SaInvito
  <2>3. Esiste(invito[q.azienda], q.email)'
    BY <2>1, <2>2 DEF InvitiRestano
  <2>4. HaAdmin(q.azienda) => HaAdmin(q.azienda)'
    BY <2>1, AdminResta
  <2>5. Esiste(cliente, q.email) => Esiste(cliente, q.email)'
    BY <2>1 DEF Restano
  <2>6. QED
    BY <2>2, <2>3, <2>4, <2>5 DEF SaInvito
<1>3. QED
  BY <1>1, <1>2

\* The requests that a step does not move.
LEMMA SaGliAltri ==
  ASSUME InvitiInv, Restano, InvitiRestano,
         NEW r \in Accettazioni, accetta'[r] = accetta[r]
  PROVE  SaInvito(accetta[r])'
<1>1. PICK q \in InAccettazione \cup {Pausa} : q = accetta[r]
  BY DEF InvitiInv, InvitiTipi
<1>2. SaInvito(q)'
  BY <1>1, SaAncora DEF InvitiInv
<1>3. QED
  BY <1>1, <1>2 DEF SaInvito

\* A step that carries no new link, makes nobody and keeps everybody leaves
\* what links promise.
LEMMA LinkRestano ==
  ASSUME InvitiInv, Restano, nati' = nati,
         \A t \in Token, a \in Aziende, e \in Email : Porta(t, a, e)' => Porta(t, a, e)
  PROVE  LinkDiUnInvito' /\ LinkSpeso' /\ UnUtentePerLink'
<1>1. LinkDiUnInvito'
  BY DEF InvitiInv, LinkDiUnInvito
<1>2. LinkSpeso'
  BY DEF InvitiInv, LinkSpeso, Restano
<1>3. UnUtentePerLink'
  BY DEF InvitiInv, UnUtentePerLink
<1>4. QED
  BY <1>1, <1>2, <1>3

\* A step that makes no user and keeps company and role of everybody.
LEMMA AdminRestano ==
  ASSUME InvitiInv, Restano, \A e \in Email : Esiste(cliente, e)' => Esiste(cliente, e)
  PROVE  AziendaHaAdmin'
<1> SUFFICES ASSUME NEW e \in Email, Esiste(cliente, e)'
             PROVE  \E f \in Email : /\ Esiste(cliente, f)'
                                     /\ cliente'[f].azienda = cliente'[e].azienda
                                     /\ cliente'[f].ruolo = "admin"
  BY DEF AziendaHaAdmin
<1>1. PICK f \in Email : /\ Esiste(cliente, f)
                         /\ cliente[f].azienda = cliente[e].azienda
                         /\ cliente[f].ruolo = "admin"
  BY DEF InvitiInv, AziendaHaAdmin
<1>2. Esiste(cliente, e) /\ Esiste(cliente, f)
  BY <1>1
<1>3. QED
  BY <1>1, <1>2 DEF Restano

\* Nobody is invited and nothing is carried at the start.
LEMMA InizioInviti == InvitiInit => InvitiInv
  BY InvitiAssumption DEF InvitiInit, InvitiInv, InvitiTipi, LinkDiUnInvito, LinkSpeso, Porta,
     Esiste, SaInvito, Pausa, AziendaHaAdmin, UnUtentePerLink

-----------------------------------------------------------------------------
(* The steps.                                                              *)

\* A fresh link: nobody carries it, nobody was born of it.
LEMMA CreaInvitoInv ==
  ASSUME InvitiInv, NEW a \in Aziende, NEW e \in Email, NEW ruolo \in Ruoli, NEW t \in Token,
         CreaInvito(a, e, ruolo, t)
  PROVE  InvitiInv'
<1> DEFINE riga == [token |-> t, ruolo |-> ruolo, usato |-> FALSE, scaduto |-> FALSE]
<1>1. riga \in InvitoRiga /\ riga.token = t
  BY DEF InvitoRiga
<1>2. /\ invito' = [invito EXCEPT ![a][e] = riga]
      /\ cliente' = cliente /\ accetta' = accetta /\ nati' = nati
  BY DEF CreaInvito
<1> HIDE DEF riga
<1>3. InvitiTipi
  BY DEF InvitiInv
<1>4. /\ invito' \in [Aziende -> [Email -> InvitoRiga \cup {Nessuno}]]
      /\ invito'[a][e] = riga
      /\ \A b \in Aziende, f \in Email : b # a \/ f # e => invito'[b][f] = invito[b][f]
      /\ InvitiRestano
  <2>1. /\ invito' \in [Aziende -> [Email -> InvitoRiga \cup {Nessuno}]]
        /\ invito'[a][e] = riga
        /\ \A b \in Aziende, f \in Email : b # a \/ f # e => invito'[b][f] = invito[b][f]
    BY <1>1, <1>2, <1>3 DEF InvitiTipi
  <2>2. riga # Nessuno
    BY <1>1, InvitiAssumption
  <2>3. InvitiRestano
    BY <2>1, <2>2 DEF InvitiRestano, Esiste
  <2>4. QED
    BY <2>1, <2>3
<1>5. Restano
  BY <1>2 DEF Restano, Esiste
<1>6. \A b \in Aziende, f \in Email : ~Porta(t, b, f)
  BY DEF CreaInvito, TokenMaiUsato, Porta
<1>7. \A b \in Aziende, f \in Email : Porta(t, b, f)' => b = a /\ f = e
  BY <1>2, <1>4, <1>6 DEF Porta, Esiste
<1>8. \A u \in Token, b \in Aziende, f \in Email : u # t /\ Porta(u, b, f)' => Porta(u, b, f)
  BY <1>1, <1>2, <1>4 DEF Porta, Esiste
<1>9. nati'[t] = 0
  BY <1>2 DEF CreaInvito, TokenMaiUsato
<1>10. InvitiTipi'
  BY <1>2, <1>3, <1>4 DEF InvitiTipi
<1>11. LinkDiUnInvito'
  BY <1>7, <1>8 DEF InvitiInv, LinkDiUnInvito
<1>12. LinkSpeso'
  BY <1>2, <1>8, <1>9 DEF InvitiInv, LinkSpeso, Esiste
<1>13. \A r \in Accettazioni : SaInvito(accetta[r])'
  BY <1>2, <1>4, <1>5, SaGliAltri
<1>14. AziendaHaAdmin' /\ UnUtentePerLink'
  BY <1>2 DEF InvitiInv, AziendaHaAdmin, UnUtentePerLink, Esiste
<1>15. QED
  BY <1>10, <1>11, <1>12, <1>13, <1>14 DEF InvitiInv

\* A row that keeps its link and role: revocation, expiry, use.
LEMMA StessoLinkInv ==
  ASSUME InvitiInv, NEW a \in Aziende, NEW e \in Email, NEW riga \in InvitoRiga,
         Esiste(invito[a], e), riga.token = invito[a][e].token,
         invito' = [invito EXCEPT ![a][e] = riga], nati' = nati, cliente' = cliente
  PROVE  /\ invito' \in [Aziende -> [Email -> InvitoRiga \cup {Nessuno}]]
         /\ Restano /\ InvitiRestano /\ AziendaHaAdmin'
         /\ \A b \in Aziende, f \in Email :
              Esiste(invito[b], f)' => /\ Esiste(invito[b], f)
                                       /\ invito'[b][f].token = invito[b][f].token
<1>1. /\ invito' \in [Aziende -> [Email -> InvitoRiga \cup {Nessuno}]]
      /\ invito'[a][e] = riga
      /\ \A b \in Aziende, f \in Email : b # a \/ f # e => invito'[b][f] = invito[b][f]
      /\ InvitiRestano
  <2>1. InvitiTipi
    BY DEF InvitiInv
  <2>2. /\ invito' \in [Aziende -> [Email -> InvitoRiga \cup {Nessuno}]]
        /\ invito'[a][e] = riga
        /\ \A b \in Aziende, f \in Email : b # a \/ f # e => invito'[b][f] = invito[b][f]
    BY <2>1 DEF InvitiTipi
  <2>3. riga # Nessuno
    BY InvitiAssumption
  <2>4. InvitiRestano
    BY <2>2, <2>3 DEF InvitiRestano, Esiste
  <2>5. QED
    BY <2>2, <2>4
<1>2. Restano
  BY DEF Restano, Esiste
<1>3. AziendaHaAdmin'
  BY DEF InvitiInv, AziendaHaAdmin, Esiste
<1>4. \A b \in Aziende, f \in Email :
        Esiste(invito[b], f)' => /\ Esiste(invito[b], f)
                                 /\ invito'[b][f].token = invito[b][f].token
  BY <1>1 DEF Esiste
<1>5. QED
  BY <1>1, <1>2, <1>3, <1>4

LEMMA RevocaScadeInv ==
  ASSUME InvitiInv, NEW a \in Aziende, NEW e \in Email, RevocaInvito(a, e) \/ Scade(a, e)
  PROVE  InvitiInv'
<1>1. Esiste(invito[a], e) /\ invito[a][e] \in InvitoRiga /\ InvitiTipi
  BY RigheTipi DEF RevocaInvito, Scade, InvitiInv
<1>2. PICK riga \in InvitoRiga : /\ riga.token = invito[a][e].token
                                 /\ invito' = [invito EXCEPT ![a][e] = riga]
  <2>1. CASE RevocaInvito(a, e)
    <3>1. [invito[a][e] EXCEPT !.usato = TRUE] \in InvitoRiga
      BY <1>1 DEF InvitoRiga
    <3>2. [invito[a][e] EXCEPT !.usato = TRUE].token = invito[a][e].token
      BY <1>1 DEF InvitoRiga
    <3>3. invito' = [invito EXCEPT ![a][e] = [invito[a][e] EXCEPT !.usato = TRUE]]
      BY <2>1, <1>1 DEF RevocaInvito, InvitiTipi
    <3>4. QED
      BY <3>1, <3>2, <3>3
  <2>2. CASE Scade(a, e)
    <3>1. [invito[a][e] EXCEPT !.scaduto = TRUE] \in InvitoRiga
      BY <1>1 DEF InvitoRiga
    <3>2. [invito[a][e] EXCEPT !.scaduto = TRUE].token = invito[a][e].token
      BY <1>1 DEF InvitoRiga
    <3>3. invito' = [invito EXCEPT ![a][e] = [invito[a][e] EXCEPT !.scaduto = TRUE]]
      BY <2>2, <1>1 DEF Scade, InvitiTipi
    <3>4. QED
      BY <3>1, <3>2, <3>3
  <2>3. QED
    BY <2>1, <2>2
<1>3. cliente' = cliente /\ accetta' = accetta /\ nati' = nati
  BY DEF RevocaInvito, Scade
<1>4. /\ invito' \in [Aziende -> [Email -> InvitoRiga \cup {Nessuno}]]
      /\ Restano /\ InvitiRestano /\ AziendaHaAdmin'
      /\ \A b \in Aziende, f \in Email :
           Esiste(invito[b], f)' => /\ Esiste(invito[b], f)
                                    /\ invito'[b][f].token = invito[b][f].token
  BY <1>1, <1>2, <1>3, StessoLinkInv
<1>5. \A t \in Token, b \in Aziende, f \in Email : Porta(t, b, f)' => Porta(t, b, f)
  BY <1>3, <1>4 DEF Porta
<1>6. LinkDiUnInvito' /\ LinkSpeso' /\ UnUtentePerLink'
  BY <1>3, <1>4, <1>5, LinkRestano
<1>7. InvitiTipi' /\ \A r \in Accettazioni : SaInvito(accetta[r])'
  BY <1>1, <1>3, <1>4, SaGliAltri DEF InvitiTipi
<1>8. QED
  BY <1>4, <1>6, <1>7 DEF InvitiInv

\* A step of one request; the others rely on what they did.
LEMMA PassoRichiesta ==
  ASSUME InvitiInv, Restano, InvitiRestano, NEW r \in Accettazioni,
         NEW q \in InAccettazione \cup {Pausa}, SaInvito(q)',
         accetta' = [accetta EXCEPT ![r] = q]
  PROVE  /\ accetta' \in [Accettazioni -> InAccettazione \cup {Pausa}]
         /\ accetta'[r] = q
         /\ \A s \in Accettazioni : s # r => accetta'[s] = accetta[s]
         /\ \A s \in Accettazioni : SaInvito(accetta[s])'
<1>1. /\ accetta' \in [Accettazioni -> InAccettazione \cup {Pausa}]
      /\ accetta'[r] = q
      /\ \A s \in Accettazioni : s # r => accetta'[s] = accetta[s]
  BY DEF InvitiInv, InvitiTipi
<1>2. SaInvito(accetta[r])'
  BY <1>1 DEF SaInvito
<1>3. \A s \in Accettazioni : s # r => SaInvito(accetta[s])'
  BY <1>1, SaGliAltri
<1>4. QED
  BY <1>1, <1>2, <1>3

\* A request that reads: it takes the link of the invite, which is there.
LEMMA AccettaLeggiInv ==
  ASSUME InvitiInv, NEW r \in Accettazioni, NEW a \in Aziende, NEW e \in Email,
         AccettaLeggi(r, a, e)
  PROVE  InvitiInv'
<1>1. Esiste(invito[a], e) /\ invito[a][e] \in InvitoRiga /\ InvitiTipi
  BY RigheTipi DEF AccettaLeggi, InvitiInv
<1>2. PICK q \in InAccettazione :
        /\ q = [fase |-> "letto", azienda |-> a, email |-> e,
                token |-> invito[a][e].token, ruolo |-> invito[a][e].ruolo]
        /\ q.fase = "letto" /\ q.azienda = a /\ q.email = e /\ q.token = invito[a][e].token
  <2> DEFINE letto == [fase |-> "letto", azienda |-> a, email |-> e,
                       token |-> invito[a][e].token, ruolo |-> invito[a][e].ruolo]
  <2>1. invito[a][e].token \in Token /\ invito[a][e].ruolo \in Ruoli
    BY <1>1 DEF InvitoRiga
  <2>2. letto \in InAccettazione
    BY <2>1 DEF InAccettazione
  <2>3. QED
    BY <2>2
<1>3. /\ accetta' = [accetta EXCEPT ![r] = q]
      /\ invito' = invito /\ cliente' = cliente /\ nati' = nati
  BY <1>2 DEF AccettaLeggi
<1>4. Restano /\ InvitiRestano
  BY <1>3 DEF Restano, InvitiRestano, Esiste
<1>5. SaInvito(q)'
  BY <1>1, <1>2, <1>3 DEF SaInvito, Esiste
<1>6. /\ accetta' \in [Accettazioni -> InAccettazione \cup {Pausa}]
      /\ accetta'[r] = q
      /\ \A s \in Accettazioni : s # r => accetta'[s] = accetta[s]
      /\ \A s \in Accettazioni : SaInvito(accetta[s])'
  BY <1>3, <1>4, <1>5, PassoRichiesta
<1>7. \A t \in Token, b \in Aziende, f \in Email : Porta(t, b, f)' => Porta(t, b, f)
  BY <1>1, <1>2, <1>3, <1>6 DEF Porta, Esiste
<1>8. LinkDiUnInvito' /\ LinkSpeso' /\ UnUtentePerLink'
  BY <1>3, <1>4, <1>7, LinkRestano
<1>9. InvitiTipi'
  BY <1>1, <1>3, <1>6 DEF InvitiTipi
<1>10. AziendaHaAdmin'
  BY <1>3 DEF InvitiInv, AziendaHaAdmin, Esiste
<1>11. QED
  BY <1>6, <1>8, <1>9, <1>10 DEF InvitiInv

\* A request that goes on, or ends, with the link it has.
LEMMA RichiestaAvanti ==
  ASSUME InvitiInv, Restano, InvitiRestano, NEW r \in Accettazioni,
         NEW q \in InAccettazione \cup {Pausa}, SaInvito(q)',
         accetta' = [accetta EXCEPT ![r] = q],
         q.fase # "ferma" => /\ accetta[r].fase # "ferma"
                             /\ q.azienda = accetta[r].azienda
                             /\ q.email = accetta[r].email
                             /\ q.token = accetta[r].token,
         \A b \in Aziende, f \in Email :
            Esiste(invito[b], f)' => /\ Esiste(invito[b], f)
                                     /\ invito'[b][f].token = invito[b][f].token
  PROVE  /\ accetta' \in [Accettazioni -> InAccettazione \cup {Pausa}]
         /\ \A s \in Accettazioni : SaInvito(accetta[s])'
         /\ \A t \in Token, b \in Aziende, f \in Email : Porta(t, b, f)' => Porta(t, b, f)
<1>1. /\ accetta' \in [Accettazioni -> InAccettazione \cup {Pausa}]
      /\ accetta'[r] = q
      /\ \A s \in Accettazioni : s # r => accetta'[s] = accetta[s]
      /\ \A s \in Accettazioni : SaInvito(accetta[s])'
  BY PassoRichiesta
<1>2. ASSUME NEW t \in Token, NEW b \in Aziende, NEW f \in Email, Porta(t, b, f)'
      PROVE  Porta(t, b, f)
  <2>1. CASE Esiste(invito[b], f)' /\ invito'[b][f].token = t
    BY <2>1 DEF Porta
  <2>2. CASE \E s \in Accettazioni :
               /\ accetta'[s].fase # "ferma"
               /\ accetta'[s].azienda = b /\ accetta'[s].email = f /\ accetta'[s].token = t
    BY <1>1, <2>2 DEF Porta
  <2>3. QED
    BY <1>2, <2>1, <2>2 DEF Porta
<1>3. QED
  BY <1>1, <1>2

\* A failure: the request forgets.
LEMMA AccettaFallisceInv ==
  ASSUME InvitiInv, NEW r \in Accettazioni, AccettaFallisce(r)
  PROVE  InvitiInv'
<1>1. /\ accetta' = [accetta EXCEPT ![r] = Pausa]
      /\ invito' = invito /\ cliente' = cliente /\ nati' = nati
  BY DEF AccettaFallisce
<1>2. Pausa.fase = "ferma" /\ SaInvito(Pausa)'
  BY DEF Pausa, SaInvito
<1>3. Restano /\ InvitiRestano
  BY <1>1 DEF Restano, InvitiRestano, Esiste
<1>4. /\ accetta' \in [Accettazioni -> InAccettazione \cup {Pausa}]
      /\ \A s \in Accettazioni : SaInvito(accetta[s])'
      /\ \A t \in Token, b \in Aziende, f \in Email : Porta(t, b, f)' => Porta(t, b, f)
  <2>1. \A b \in Aziende, f \in Email :
          Esiste(invito[b], f)' => /\ Esiste(invito[b], f)
                                   /\ invito'[b][f].token = invito[b][f].token
    BY <1>1 DEF Esiste
  <2>2. QED
    BY <1>1, <1>2, <1>3, <2>1, RichiestaAvanti
<1>5. LinkDiUnInvito' /\ LinkSpeso' /\ UnUtentePerLink'
  BY <1>1, <1>3, <1>4, LinkRestano
<1>6. InvitiTipi' /\ AziendaHaAdmin'
  BY <1>1, <1>4 DEF InvitiInv, InvitiTipi, AziendaHaAdmin, Esiste
<1>7. QED
  BY <1>4, <1>5, <1>6 DEF InvitiInv

\* The role is chosen: who is not made administrator has found one.
LEMMA AccettaRuoloInv ==
  ASSUME InvitiInv, NEW r \in Accettazioni, AccettaRuolo(r)
  PROVE  InvitiInv'
<1>1. PICK p \in InAccettazione : p = accetta[r] /\ p.fase = "letto"
  BY RigheTipi DEF AccettaRuolo, InvitiInv
<1>2. PICK g \in Ruoli : g = IF AdminEsistente(p.azienda) THEN p.ruolo ELSE "admin"
  BY <1>1 DEF InAccettazione, Ruoli
<1> DEFINE q == [p EXCEPT !.fase = "deciso", !.ruolo = g]
<1>3. /\ accetta' = [accetta EXCEPT ![r] = q]
      /\ invito' = invito /\ cliente' = cliente /\ nati' = nati
  BY <1>1, <1>2 DEF AccettaRuolo, InvitiInv, InvitiTipi
<1>4. /\ q \in InAccettazione /\ q.fase = "deciso" /\ q.ruolo = g
      /\ q.azienda = p.azienda /\ q.email = p.email /\ q.token = p.token
  BY DEF InAccettazione
<1> HIDE DEF q
<1>5. Restano /\ InvitiRestano
  BY <1>3 DEF Restano, InvitiRestano, Esiste
<1>6. SaInvito(q)'
  <2>1. Esiste(invito[p.azienda], p.email)
    BY <1>1 DEF InvitiInv, SaInvito
  <2>2. g = "admin" \/ HaAdmin(p.azienda)
    BY <1>2 DEF AdminEsistente, HaAdmin
  <2>3. HaAdmin(p.azienda) => HaAdmin(p.azienda)'
    BY <1>5, AdminResta DEF InAccettazione
  <2>4. QED
    BY <1>3, <1>4, <2>1, <2>2, <2>3 DEF SaInvito, Esiste
<1>7. \A b \in Aziende, f \in Email :
        Esiste(invito[b], f)' => /\ Esiste(invito[b], f)
                                 /\ invito'[b][f].token = invito[b][f].token
  BY <1>3 DEF Esiste
<1>8. /\ accetta' \in [Accettazioni -> InAccettazione \cup {Pausa}]
      /\ \A s \in Accettazioni : SaInvito(accetta[s])'
      /\ \A t \in Token, b \in Aziende, f \in Email : Porta(t, b, f)' => Porta(t, b, f)
  BY <1>1, <1>3, <1>4, <1>5, <1>6, <1>7, RichiestaAvanti
<1>9. LinkDiUnInvito' /\ LinkSpeso' /\ UnUtentePerLink'
  BY <1>3, <1>5, <1>8, LinkRestano
<1>10. InvitiTipi' /\ AziendaHaAdmin'
  BY <1>3, <1>8 DEF InvitiInv, InvitiTipi, AziendaHaAdmin, Esiste
<1>11. QED
  BY <1>8, <1>9, <1>10 DEF InvitiInv

\* The creation: the address was free, so the link had given nobody.
LEMMA AccettaCreaInv ==
  ASSUME InvitiInv, NEW r \in Accettazioni, AccettaCrea(r)
  PROVE  InvitiInv'
<1>1. PICK p \in InAccettazione : p = accetta[r] /\ p.fase = "deciso"
  BY RigheTipi DEF AccettaCrea, InvitiInv
<1>2. /\ p.azienda \in Aziende /\ p.email \in Email /\ p.token \in Token /\ p.ruolo \in Ruoli
  BY DEF InAccettazione
<1>3. CASE ~EmailLibera(p.email)
  <2>1. AccettaFallisce(r)
    BY <1>1, <1>3 DEF AccettaCrea, AccettaFallisce
  <2>2. QED
    BY <2>1, AccettaFallisceInv
<1>4. CASE EmailLibera(p.email)
  <2> DEFINE nuovo == [azienda |-> p.azienda, ruolo |-> p.ruolo, conRuolo |-> FALSE]
             q == [p EXCEPT !.fase = "creato"]
  <2>1. /\ cliente' = [cliente EXCEPT ![p.email] = nuovo]
        /\ nati' = [nati EXCEPT ![p.token] = @ + 1]
        /\ accetta' = [accetta EXCEPT ![r] = q]
        /\ invito' = invito
    BY <1>1, <1>4 DEF AccettaCrea, InvitiInv, InvitiTipi
  <2>2. /\ nuovo \in ClienteRiga /\ nuovo # Nessuno
        /\ nuovo.azienda = p.azienda /\ nuovo.ruolo = p.ruolo
    <3>1. nuovo \in ClienteRiga
      BY <1>2 DEF ClienteRiga
    <3>2. nuovo.azienda = p.azienda /\ nuovo.ruolo = p.ruolo
      OBVIOUS
    <3>3. QED
      BY <3>1, <3>2, InvitiAssumption
  <2>3. /\ q \in InAccettazione /\ q.fase = "creato"
        /\ q.azienda = p.azienda /\ q.email = p.email /\ q.token = p.token
    BY DEF InAccettazione
  <2> HIDE DEF nuovo, q
  <2>4. /\ cliente'[p.email] = nuovo /\ Esiste(cliente, p.email)'
        /\ \A e \in Email : e # p.email => cliente'[e] = cliente[e]
        /\ cliente' \in [Email -> ClienteRiga \cup {Nessuno}]
    BY <1>2, <2>1, <2>2 DEF InvitiInv, InvitiTipi, Esiste
  <2>5. Restano /\ InvitiRestano
    BY <1>4, <2>1, <2>4 DEF Restano, InvitiRestano, Esiste, EmailLibera
  <2>6. SaInvito(q)'
    <3>1. Esiste(invito[p.azienda], p.email)
      BY <1>1 DEF InvitiInv, SaInvito
    <3>2. QED
      BY <2>1, <2>3, <2>4, <3>1 DEF SaInvito, Esiste
  <2>7. /\ accetta' \in [Accettazioni -> InAccettazione \cup {Pausa}]
        /\ \A s \in Accettazioni : SaInvito(accetta[s])'
        /\ \A t \in Token, b \in Aziende, f \in Email : Porta(t, b, f)' => Porta(t, b, f)
    <3>1. \A b \in Aziende, f \in Email :
            Esiste(invito[b], f)' => /\ Esiste(invito[b], f)
                                     /\ invito'[b][f].token = invito[b][f].token
      BY <2>1 DEF Esiste
    <3>2. QED
      BY <1>1, <2>1, <2>3, <2>5, <2>6, <3>1, RichiestaAvanti
  <2>8. Porta(p.token, p.azienda, p.email)
    BY <1>1 DEF Porta
  <2>9. nati[p.token] = 0
    BY <1>2, <1>4, <2>8, RigheTipi DEF InvitiInv, LinkSpeso, EmailLibera
  <2>10. /\ nati' \in [Token -> Nat] /\ nati'[p.token] = 1
         /\ \A t \in Token : t # p.token => nati'[t] = nati[t]
    BY <1>2, <2>1, <2>9 DEF InvitiInv, InvitiTipi
  <2>11. InvitiTipi'
    BY <2>1, <2>4, <2>7, <2>10 DEF InvitiInv, InvitiTipi
  <2>12. LinkDiUnInvito'
    BY <2>7 DEF InvitiInv, LinkDiUnInvito
  <2>13. LinkSpeso'
    <3>1. ASSUME NEW t \in Token, NEW b \in Aziende, NEW f \in Email,
                 Porta(t, b, f)', nati'[t] > 0
          PROVE  Esiste(cliente, f)'
      <4>1. CASE t = p.token
        <5>1. f = p.email
          BY <1>2, <2>7, <2>8, <3>1, <4>1 DEF InvitiInv, LinkDiUnInvito
        <5>2. QED
          BY <2>4, <5>1
      <4>2. CASE t # p.token
        BY <2>5, <2>7, <2>10, <3>1, <4>2 DEF InvitiInv, LinkSpeso, Restano
      <4>3. QED
        BY <4>1, <4>2
    <3>2. QED
      BY <3>1 DEF LinkSpeso
  <2>14. UnUtentePerLink'
    BY <2>10 DEF InvitiInv, UnUtentePerLink
  <2>15. AziendaHaAdmin'
    <3>1. HaAdmin(p.azienda)'
      <4>1. p.ruolo = "admin" \/ HaAdmin(p.azienda)
        BY <1>1 DEF InvitiInv, SaInvito
      <4>2. CASE p.ruolo = "admin"
        BY <1>2, <2>2, <2>4, <4>2 DEF HaAdmin
      <4>3. CASE HaAdmin(p.azienda)
        BY <1>2, <2>5, <4>3, AdminResta
      <4>4. QED
        BY <4>1, <4>2, <4>3
    <3>2. ASSUME NEW e \in Email, Esiste(cliente, e)'
          PROVE  \E f \in Email : /\ Esiste(cliente, f)'
                                  /\ cliente'[f].azienda = cliente'[e].azienda
                                  /\ cliente'[f].ruolo = "admin"
      <4>1. CASE e = p.email
        <5>1. cliente'[e].azienda = p.azienda
          BY <2>2, <2>4, <4>1
        <5>2. QED
          BY <3>1, <5>1 DEF HaAdmin
      <4>2. CASE e # p.email
        <5>1. Esiste(cliente, e) /\ cliente'[e].azienda = cliente[e].azienda
          BY <2>4, <3>2, <4>2 DEF Esiste
        <5>2. PICK f \in Email : /\ Esiste(cliente, f)
                                 /\ cliente[f].azienda = cliente[e].azienda
                                 /\ cliente[f].ruolo = "admin"
          BY <5>1 DEF InvitiInv, AziendaHaAdmin
        <5>3. /\ Esiste(cliente, f)' /\ cliente'[f].azienda = cliente'[e].azienda
              /\ cliente'[f].ruolo = "admin"
          BY <2>5, <5>1, <5>2 DEF Restano
        <5>4. QED
          BY <5>3
      <4>3. QED
        BY <4>1, <4>2
    <3>3. QED
      BY <3>2 DEF AziendaHaAdmin
  <2>16. QED
    BY <2>7, <2>11, <2>12, <2>13, <2>14, <2>15 DEF InvitiInv
<1>5. QED
  BY <1>3, <1>4

\* The invite is marked, whatever link it carries by now.
LEMMA AccettaSegnaInv ==
  ASSUME InvitiInv, NEW r \in Accettazioni, AccettaSegna(r)
  PROVE  InvitiInv'
<1>1. PICK p \in InAccettazione : p = accetta[r] /\ p.fase = "creato"
  BY RigheTipi DEF AccettaSegna, InvitiInv
<1>2. p.azienda \in Aziende /\ p.email \in Email
  BY DEF InAccettazione
<1>3. /\ Esiste(invito[p.azienda], p.email) /\ invito[p.azienda][p.email] \in InvitoRiga
      /\ Esiste(cliente, p.email)
  BY <1>1, <1>2, RigheTipi DEF InvitiInv, SaInvito
<1> DEFINE riga == [invito[p.azienda][p.email] EXCEPT !.usato = TRUE]
           q == [p EXCEPT !.fase = "segnato"]
<1>4. /\ invito' = [invito EXCEPT ![p.azienda][p.email] = riga]
      /\ accetta' = [accetta EXCEPT ![r] = q]
      /\ cliente' = cliente /\ nati' = nati
  BY <1>1, <1>2, <1>3 DEF AccettaSegna, InvitiInv, InvitiTipi
<1>5. riga \in InvitoRiga /\ riga.token = invito[p.azienda][p.email].token
  BY <1>3 DEF InvitoRiga
<1>6. /\ q \in InAccettazione /\ q.fase = "segnato"
      /\ q.azienda = p.azienda /\ q.email = p.email /\ q.token = p.token
  BY DEF InAccettazione
<1> HIDE DEF riga, q
<1>7. /\ invito' \in [Aziende -> [Email -> InvitoRiga \cup {Nessuno}]]
      /\ Restano /\ InvitiRestano /\ AziendaHaAdmin'
      /\ \A b \in Aziende, f \in Email :
           Esiste(invito[b], f)' => /\ Esiste(invito[b], f)
                                    /\ invito'[b][f].token = invito[b][f].token
  BY <1>2, <1>3, <1>4, <1>5, StessoLinkInv
<1>8. SaInvito(q)'
  <2>1. Esiste(invito[p.azienda], p.email)'
    BY <1>2, <1>3, <1>7 DEF InvitiRestano
  <2>2. Esiste(cliente, p.email)'
    BY <1>3, <1>4 DEF Esiste
  <2>3. QED
    BY <1>6, <2>1, <2>2 DEF SaInvito
<1>9. /\ accetta' \in [Accettazioni -> InAccettazione \cup {Pausa}]
      /\ \A s \in Accettazioni : SaInvito(accetta[s])'
      /\ \A t \in Token, b \in Aziende, f \in Email : Porta(t, b, f)' => Porta(t, b, f)
  BY <1>1, <1>4, <1>6, <1>7, <1>8, RichiestaAvanti
<1>10. LinkDiUnInvito' /\ LinkSpeso' /\ UnUtentePerLink'
  BY <1>4, <1>7, <1>9, LinkRestano
<1>11. InvitiTipi'
  BY <1>4, <1>7, <1>9 DEF InvitiInv, InvitiTipi
<1>12. QED
  BY <1>7, <1>9, <1>10, <1>11 DEF InvitiInv

\* The role is assigned to the user created.
LEMMA AccettaAssegnaInv ==
  ASSUME InvitiInv, NEW r \in Accettazioni, AccettaAssegna(r)
  PROVE  InvitiInv'
<1>1. PICK p \in InAccettazione : p = accetta[r] /\ p.fase = "segnato"
  BY RigheTipi DEF AccettaAssegna, InvitiInv
<1>2. p.email \in Email /\ Esiste(cliente, p.email) /\ cliente[p.email] \in ClienteRiga
  BY <1>1, RigheTipi DEF InvitiInv, SaInvito, InAccettazione
<1> DEFINE riga == [cliente[p.email] EXCEPT !.conRuolo = TRUE]
<1>3. /\ cliente' = [cliente EXCEPT ![p.email] = riga]
      /\ accetta' = [accetta EXCEPT ![r] = Pausa]
      /\ invito' = invito /\ nati' = nati
  BY <1>1, <1>2 DEF AccettaAssegna, InvitiInv, InvitiTipi
<1>4. /\ riga \in ClienteRiga /\ riga # Nessuno
      /\ riga.azienda = cliente[p.email].azienda /\ riga.ruolo = cliente[p.email].ruolo
  BY <1>2, InvitiAssumption DEF ClienteRiga
<1> HIDE DEF riga
<1>5. /\ cliente'[p.email] = riga
      /\ \A e \in Email : e # p.email => cliente'[e] = cliente[e]
      /\ cliente' \in [Email -> ClienteRiga \cup {Nessuno}]
  BY <1>2, <1>3, <1>4 DEF InvitiInv, InvitiTipi
<1>6. Restano /\ InvitiRestano
  BY <1>3, <1>4, <1>5 DEF Restano, InvitiRestano, Esiste
<1>7. \A e \in Email : Esiste(cliente, e)' => Esiste(cliente, e)
  BY <1>2, <1>5 DEF Esiste
<1>8. Pausa.fase = "ferma" /\ SaInvito(Pausa)'
  BY DEF Pausa, SaInvito
<1>9. /\ accetta' \in [Accettazioni -> InAccettazione \cup {Pausa}]
      /\ \A s \in Accettazioni : SaInvito(accetta[s])'
      /\ \A t \in Token, b \in Aziende, f \in Email : Porta(t, b, f)' => Porta(t, b, f)
  <2>1. \A b \in Aziende, f \in Email :
          Esiste(invito[b], f)' => /\ Esiste(invito[b], f)
                                   /\ invito'[b][f].token = invito[b][f].token
    BY <1>3 DEF Esiste
  <2>2. QED
    BY <1>3, <1>6, <1>8, <2>1, RichiestaAvanti
<1>10. LinkDiUnInvito' /\ LinkSpeso' /\ UnUtentePerLink'
  BY <1>3, <1>6, <1>9, LinkRestano
<1>11. InvitiTipi' /\ AziendaHaAdmin'
  BY <1>3, <1>5, <1>6, <1>7, <1>9, AdminRestano DEF InvitiInv, InvitiTipi
<1>12. QED
  BY <1>9, <1>10, <1>11 DEF InvitiInv

-----------------------------------------------------------------------------
(* The theorems.                                                           *)

LEMMA PassoInviti == InvitiInv /\ [InvitiNext]_invitiVars => InvitiInv'
<1> SUFFICES ASSUME InvitiInv, [InvitiNext]_invitiVars
             PROVE  InvitiInv'
  OBVIOUS
<1>1. ASSUME NEW a \in Aziende, NEW e \in Email, NEW ruolo \in Ruoli, NEW t \in Token,
             CreaInvito(a, e, ruolo, t)
      PROVE  InvitiInv'
  BY <1>1, CreaInvitoInv
<1>2. ASSUME NEW a \in Aziende, NEW e \in Email, RevocaInvito(a, e) \/ Scade(a, e)
      PROVE  InvitiInv'
  BY <1>2, RevocaScadeInv
<1>3. ASSUME NEW a \in Aziende, NEW e \in Email, NEW r \in Accettazioni, AccettaLeggi(r, a, e)
      PROVE  InvitiInv'
  BY <1>3, AccettaLeggiInv
<1>4. ASSUME NEW r \in Accettazioni,
             \/ AccettaRuolo(r) \/ AccettaCrea(r) \/ AccettaSegna(r) \/ AccettaAssegna(r)
             \/ AccettaFallisce(r)
      PROVE  InvitiInv'
  BY <1>4, AccettaRuoloInv, AccettaCreaInv, AccettaSegnaInv, AccettaAssegnaInv,
     AccettaFallisceInv
<1>5. CASE UNCHANGED invitiVars
  BY <1>5 DEF invitiVars, InvitiInv, InvitiTipi, LinkDiUnInvito, LinkSpeso, Porta, Esiste,
     SaInvito, HaAdmin, AziendaHaAdmin, UnUtentePerLink
<1>6. QED
  BY <1>1, <1>2, <1>3, <1>4, <1>5 DEF InvitiNext

\* The inductive invariant holds: links, requests in progress, users and
\* roles agree at every moment.
THEOREM InvitiCorretti == InvitiSpec => []InvitiInv
  BY InizioInviti, PassoInviti, PTL DEF InvitiSpec

\* A link of an invitation gives one user at most, however it is opened again
\* and whatever request stops half-way (inviti.service.ts accettaInvito).
THEOREM UnLinkUnUtente == InvitiSpec => []UnUtentePerLink
<1>1. InvitiInv => UnUtentePerLink
  BY DEF InvitiInv
<1>2. QED
  BY <1>1, InvitiCorretti, PTL

\* A company with client users has an administrator, however acceptances
\* overlap.
THEOREM SempreUnAdmin == InvitiSpec => []AziendaHaAdmin
<1>1. InvitiInv => AziendaHaAdmin
  BY DEF InvitiInv
<1>2. QED
  BY <1>1, InvitiCorretti, PTL

-----------------------------------------------------------------------------
(* The client users as companies know them.                                *)

\* The links that have given a user, as the mapping has them.
Spesi == {t \in Token : nati[t] > 0}

\* What is seen of a step that creates nobody.
LEMMA NessunoEntra ==
  ASSUME nati' = nati,
         \A e \in Email : /\ Esiste(cliente, e)' <=> Esiste(cliente, e)
                          /\ Esiste(cliente, e) => /\ cliente'[e].azienda = cliente[e].azienda
                                                   /\ cliente'[e].ruolo = cliente[e].ruolo
  PROVE  UNCHANGED <<Entrati, Spesi>>
BY DEF Entrati, Spesi, Esiste

\* The creation of a user is the entry of the specification.
LEMMA CreaEntra ==
  ASSUME InvitiInv, NEW r \in Accettazioni, AccettaCrea(r)
  PROVE  Utenze!UtentiNext \/ UNCHANGED <<Entrati, Spesi>>
<1>1. PICK p \in InAccettazione : p = accetta[r] /\ p.fase = "deciso"
  BY RigheTipi DEF AccettaCrea, InvitiInv
<1>2. /\ p.azienda \in Aziende /\ p.email \in Email /\ p.token \in Token
      /\ p.ruolo \in {"admin", "utente"}
  BY DEF InAccettazione, Ruoli
<1>3. CASE ~EmailLibera(p.email)
  BY <1>1, <1>3 DEF AccettaCrea, Entrati, Spesi
<1>4. CASE EmailLibera(p.email)
  <2> DEFINE nuovo == [azienda |-> p.azienda, ruolo |-> p.ruolo, conRuolo |-> FALSE]
             utente == [azienda |-> p.azienda, ruolo |-> p.ruolo]
  <2>1. /\ cliente' = [cliente EXCEPT ![p.email] = nuovo]
        /\ nati' = [nati EXCEPT ![p.token] = @ + 1]
    BY <1>1, <1>4 DEF AccettaCrea
  <2>2. nuovo # Nessuno /\ nuovo.azienda = p.azienda /\ nuovo.ruolo = p.ruolo
    <3>1. nuovo \in ClienteRiga
      BY <1>2 DEF ClienteRiga, Ruoli
    <3>2. QED
      BY <3>1, InvitiAssumption
  <2>3. utente \in Utenze!Utente
    BY <1>2 DEF Utenze!Utente
  <2>4. Entrati[p.email] = Nessuno
    BY <1>2, <1>4 DEF Entrati, EmailLibera
  <2>5. p.token \notin Spesi
    <3>1. Porta(p.token, p.azienda, p.email)
      BY <1>1 DEF Porta
    <3>2. ~Esiste(cliente, p.email)
      BY <1>4 DEF EmailLibera
    <3>3. QED
      BY <1>2, <3>1, <3>2 DEF InvitiInv, LinkSpeso, Spesi
  <2>6. utente.ruolo = "admin" \/ Utenze!Amministrata(utente.azienda)
    <3>1. p.ruolo = "admin" \/ HaAdmin(p.azienda)
      BY <1>1 DEF InvitiInv, SaInvito
    <3>2. HaAdmin(p.azienda) => Utenze!Amministrata(p.azienda)
      BY DEF HaAdmin, Utenze!Amministrata, Entrati
    <3>3. QED
      BY <3>1, <3>2
  <2> HIDE DEF nuovo
  <2>7. Entrati' = [Entrati EXCEPT ![p.email] = utente]
    <3>1. cliente'[p.email] = nuovo /\ \A e \in Email : e # p.email => cliente'[e] = cliente[e]
      BY <1>2, <2>1 DEF InvitiInv, InvitiTipi
    <3>2. Entrati' = [e \in Email |-> IF e = p.email THEN utente ELSE Entrati[e]]
      BY <1>2, <2>2, <3>1 DEF Entrati, Esiste
    <3>3. QED
      BY <3>2 DEF Entrati
  <2>8. Spesi' = Spesi \cup {p.token}
    <3>1. \A t \in Token : nati[t] \in Nat /\ nati'[t] = IF t = p.token THEN nati[t] + 1 ELSE nati[t]
      BY <1>2, <2>1 DEF InvitiInv, InvitiTipi
    <3>2. \A t \in Token : nati'[t] > 0 <=> (nati[t] > 0 \/ t = p.token)
      BY <3>1
    <3>3. QED
      BY <1>2, <3>2 DEF Spesi
  <2> HIDE DEF utente
  <2>9. Utenze!Entra(p.email, p.token, utente)
    BY <2>4, <2>5, <2>6, <2>7, <2>8 DEF Utenze!Entra, Spesi
  <2>10. QED
    BY <1>2, <2>3, <2>9 DEF Utenze!UtentiNext
<1>5. QED
  BY <1>3, <1>4

\* The third write of an acceptance is not seen.
LEMMA AssegnaNonSiVede ==
  ASSUME InvitiInv, NEW r \in Accettazioni, AccettaAssegna(r)
  PROVE  UNCHANGED <<Entrati, Spesi>>
<1>1. PICK p \in InAccettazione : p = accetta[r] /\ p.fase = "segnato"
  BY RigheTipi DEF AccettaAssegna, InvitiInv
<1>2. PICK riga \in ClienteRiga : riga = cliente[p.email] /\ p.email \in Email
  BY <1>1, RigheTipi DEF InvitiInv, SaInvito, InAccettazione
<1>3. PICK nuova : nuova = [riga EXCEPT !.conRuolo = TRUE]
  OBVIOUS
<1>4. nuova \in ClienteRiga /\ nuova.azienda = riga.azienda /\ nuova.ruolo = riga.ruolo
  BY <1>3 DEF ClienteRiga
<1>5. cliente' = [cliente EXCEPT ![p.email] = nuova] /\ nati' = nati
  BY <1>1, <1>2, <1>3 DEF AccettaAssegna
<1>6. riga # Nessuno /\ nuova # Nessuno
  BY <1>4, InvitiAssumption
<1>7. QED
  BY <1>2, <1>4, <1>5, <1>6, NessunoEntra DEF Esiste, InvitiInv, InvitiTipi

\* Every step is an entry or is not seen.
LEMMA PassoDelleUtenze ==
  InvitiInv /\ [InvitiNext]_invitiVars => [Utenze!UtentiNext]_(Utenze!utentiVars)
<1> SUFFICES ASSUME InvitiInv, [InvitiNext]_invitiVars
             PROVE  Utenze!UtentiNext \/ UNCHANGED <<Entrati, Spesi>>
  BY DEF Utenze!utentiVars, Spesi
<1>1. CASE UNCHANGED <<cliente, nati>>
  BY <1>1 DEF Entrati, Spesi
<1>2. ASSUME NEW a \in Aziende, NEW e \in Email,
             \/ \E ruolo \in Ruoli, t \in Token : CreaInvito(a, e, ruolo, t)
             \/ RevocaInvito(a, e) \/ Scade(a, e)
             \/ \E r \in Accettazioni : AccettaLeggi(r, a, e)
      PROVE  UNCHANGED <<cliente, nati>>
  BY <1>2 DEF CreaInvito, RevocaInvito, Scade, AccettaLeggi
<1>3. ASSUME NEW r \in Accettazioni, AccettaRuolo(r) \/ AccettaSegna(r) \/ AccettaFallisce(r)
      PROVE  UNCHANGED <<cliente, nati>>
  BY <1>3 DEF AccettaRuolo, AccettaSegna, AccettaFallisce
<1>4. ASSUME NEW r \in Accettazioni, AccettaCrea(r) \/ AccettaAssegna(r)
      PROVE  Utenze!UtentiNext \/ UNCHANGED <<Entrati, Spesi>>
  BY <1>4, CreaEntra, AssegnaNonSiVede
<1>5. CASE UNCHANGED invitiVars
  BY <1>5 DEF invitiVars, Entrati, Spesi
<1>6. CASE InvitiNext
  BY <1>1, <1>2, <1>3, <1>4, <1>6 DEF InvitiNext
<1>7. QED
  BY <1>5, <1>6

\* The client users behave as UtentiCliente promises the companies, whatever
\* becomes of the invitations and however acceptances overlap or stop half-way
\* (inviti.service.ts accettaInvito).
THEOREM RealizzaUtenti == InvitiSpec => UtentiClienteSpec
<1>1. InvitiInit => Utenze!UtentiInit
  BY DEF InvitiInit, Utenze!UtentiInit, Entrati, Esiste
<1>2. QED
  BY <1>1, PassoDelleUtenze, InvitiCorretti, PTL
     DEF InvitiSpec, UtentiClienteSpec, Utenze!UtentiSpec
=============================================================================
