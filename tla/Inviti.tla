--------------------------------- MODULE Inviti ---------------------------------
(***************************************************************************)
(* Invitations of client users: inviti.service.ts of                       *)
(* apps/accountant-api/src/inviti, for one tenant.                         *)
(*                                                                         *)
(* An invite is the row (azienda, email); inviting again renews its token. *)
(* accettaInvito reads, decides the role, hashes the password and then     *)
(* makes three writes: they are wrapped in prisma.$transaction, but each   *)
(* goes through the RLS extension (packages/db/src/rls.ts) and commits on  *)
(* its own.  A request may stop between any two of them.                   *)
(*                                                                         *)
(* A token stands for the link a mail carries; a token nobody was sent     *)
(* finds no row.  Nothing in the repository deletes or deactivates client  *)
(* users.                                                                  *)
(***************************************************************************)
EXTENDS Righe, Naturals

CONSTANTS
    Email,
    Token,          \* bound on how often somebody is invited
    Accettazioni    \* accept requests served concurrently, each reusable

VARIABLES
    invito,     \* token, ruolo, usato (used_at), scaduto (expires_at is past)
    cliente,    \* the user with an email: azienda, ruolo, conRuolo (RBAC)
    accetta,    \* what each accept request is doing, with what it has read
    nati        \* history: users created with each token

invitiVars == <<invito, cliente, accetta, nati>>

Ruoli == {"admin", "utente"}
InvitoRiga == [token : Token, ruolo : Ruoli, usato : BOOLEAN, scaduto : BOOLEAN]
ClienteRiga == [azienda : Aziende, ruolo : Ruoli, conRuolo : BOOLEAN]
InAccettazione == [fase : {"letto", "deciso", "creato", "segnato"}, azienda : Aziende,
                   email : Email, token : Token, ruolo : Ruoli]

\* What is nothing is not a row.
ASSUME InvitiAssumption == Nessuno \notin InvitoRiga \cup ClienteRiga

Pausa == [fase |-> "ferma", azienda |-> Nessuno, email |-> Nessuno,
          token |-> Nessuno, ruolo |-> Nessuno]

InvitiInit ==
    /\ invito = [a \in Aziende |-> [e \in Email |-> Nessuno]]
    /\ cliente = [e \in Email |-> Nessuno]
    /\ accetta = [r \in Accettazioni |-> Pausa]
    /\ nati = [t \in Token |-> 0]

TokenMaiUsato(t) ==
    /\ \A a \in Aziende, e \in Email : Esiste(invito[a], e) => invito[a][e].token # t
    /\ \A r \in Accettazioni : accetta[r].token # t
    /\ nati[t] = 0

\* creaInvito: the upsert; whether the mail leaves changes nothing here.
CreaInvito(a, e, ruolo, t) ==
    /\ TokenMaiUsato(t)
    /\ invito' = [invito EXCEPT ![a][e] =
                    [token |-> t, ruolo |-> ruolo, usato |-> FALSE, scaduto |-> FALSE]]
    /\ UNCHANGED <<cliente, accetta, nati>>

\* revocaInvito: an invite that was pending when it was read is updated by id,
\* used or renewed as it may be by then.
RevocaInvito(a, e) ==
    /\ Esiste(invito[a], e)
    /\ invito' = [invito EXCEPT ![a][e].usato = TRUE]
    /\ UNCHANGED <<cliente, accetta, nati>>

Scade(a, e) ==
    /\ Esiste(invito[a], e)
    /\ invito' = [invito EXCEPT ![a][e].scaduto = TRUE]
    /\ UNCHANGED <<cliente, accetta, nati>>

\* accettaInvito, up to the check that the email is free.
AccettaLeggi(r, a, e) ==
    /\ accetta[r].fase = "ferma"
    /\ Esiste(invito[a], e)
    /\ ~invito[a][e].usato
    /\ ~invito[a][e].scaduto
    /\ ~Esiste(cliente, e)
    /\ accetta' = [accetta EXCEPT ![r] = [fase |-> "letto", azienda |-> a, email |-> e,
                      token |-> invito[a][e].token, ruolo |-> invito[a][e].ruolo]]
    /\ UNCHANGED <<invito, cliente, nati>>

\* Mutant: an administrator of any company of the tenant will do.
AdminEsistenteAltrove(a) == \E e \in Email : Esiste(cliente, e) /\ cliente[e].ruolo = "admin"

AdminEsistente(a) ==
    \E e \in Email : Esiste(cliente, e) /\ cliente[e].azienda = a /\ cliente[e].ruolo = "admin"

\* The auto-promotion.
AccettaRuolo(r) ==
    LET ruolo == IF AdminEsistente(accetta[r].azienda) THEN accetta[r].ruolo ELSE "admin" IN
    /\ accetta[r].fase = "letto"
    /\ accetta' = [accetta EXCEPT ![r].fase = "deciso", ![r].ruolo = ruolo]
    /\ UNCHANGED <<invito, cliente, nati>>

\* Mutant: there is no unique key, and the address is not looked at again.
EmailLiberaSempre(e) == TRUE

\* users_tenant_id_email_key.
EmailLibera(e) == ~Esiste(cliente, e)

\* The first write; a violation of the key is a 409.
AccettaCrea(r) ==
    LET x == accetta[r] IN
    /\ x.fase = "deciso"
    /\ IF EmailLibera(x.email)
         THEN /\ cliente' = [cliente EXCEPT ![x.email] =
                    [azienda |-> x.azienda, ruolo |-> x.ruolo, conRuolo |-> FALSE]]
              /\ nati' = [nati EXCEPT ![x.token] = @ + 1]
              /\ accetta' = [accetta EXCEPT ![r].fase = "creato"]
         ELSE /\ accetta' = [accetta EXCEPT ![r] = Pausa]
              /\ UNCHANGED <<cliente, nati>>
    /\ UNCHANGED invito

\* The second: the row of the invite, whatever token it carries by now.
AccettaSegna(r) ==
    /\ accetta[r].fase = "creato"
    /\ invito' = [invito EXCEPT ![accetta[r].azienda][accetta[r].email].usato = TRUE]
    /\ accetta' = [accetta EXCEPT ![r].fase = "segnato"]
    /\ UNCHANGED <<cliente, nati>>

\* The third, and the session (AuthSessions).
AccettaAssegna(r) ==
    /\ accetta[r].fase = "segnato"
    /\ cliente' = [cliente EXCEPT ![accetta[r].email].conRuolo = TRUE]
    /\ accetta' = [accetta EXCEPT ![r] = Pausa]
    /\ UNCHANGED <<invito, nati>>

AccettaFallisce(r) ==
    /\ accetta[r].fase # "ferma"
    /\ accetta' = [accetta EXCEPT ![r] = Pausa]
    /\ UNCHANGED <<invito, cliente, nati>>

InvitiNext ==
    \/ \E a \in Aziende, e \in Email :
         \/ \E ruolo \in Ruoli, t \in Token : CreaInvito(a, e, ruolo, t)
         \/ RevocaInvito(a, e)
         \/ Scade(a, e)
         \/ \E r \in Accettazioni : AccettaLeggi(r, a, e)
    \/ \E r \in Accettazioni :
         \/ AccettaRuolo(r) \/ AccettaCrea(r) \/ AccettaSegna(r) \/ AccettaAssegna(r)
         \/ AccettaFallisce(r)

InvitiSpec == InvitiInit /\ [][InvitiNext]_invitiVars

-----------------------------------------------------------------------------
(* Properties.                                                             *)

\* A company that has client users has a client administrator, whoever
\* accepts first and however acceptances overlap or stop half-way: the choice
\* of the role rests on a read made before the user is created.
AziendaHaAdmin ==
    \A e \in Email : Esiste(cliente, e) =>
        \E f \in Email :
            /\ Esiste(cliente, f)
            /\ cliente[f].azienda = cliente[e].azienda
            /\ cliente[f].ruolo = "admin"

\* A link gives one user at most, although the row of the invite is marked
\* after the user has been created and may not be marked at all: what refuses
\* the second use is the unique key on the email.
UnUtentePerLink == \A t \in Token : nati[t] <= 1

InvitiTipi ==
    /\ invito \in [Aziende -> [Email -> InvitoRiga \cup {Nessuno}]]
    /\ cliente \in [Email -> ClienteRiga \cup {Nessuno}]
    /\ accetta \in [Accettazioni -> InAccettazione \cup {Pausa}]
    /\ nati \in [Token -> Nat]

\* The link t is the one of the invite (a, e), or was when a request read it.
Porta(t, a, e) ==
    \/ Esiste(invito[a], e) /\ invito[a][e].token = t
    \/ \E r \in Accettazioni :
         /\ accetta[r].fase # "ferma"
         /\ accetta[r].azienda = a /\ accetta[r].email = e /\ accetta[r].token = t

\* A link is for one invite; once it has given a user, its address is taken.
LinkDiUnInvito ==
    \A t \in Token, a, b \in Aziende, e, f \in Email :
        Porta(t, a, e) /\ Porta(t, b, f) => a = b /\ e = f
LinkSpeso ==
    \A t \in Token, a \in Aziende, e \in Email :
        Porta(t, a, e) /\ nati[t] > 0 => Esiste(cliente, e)

HaAdmin(a) ==
    \E e \in Email :
        Esiste(cliente, e) /\ cliente[e].azienda = a /\ cliente[e].ruolo = "admin"

\* What a request in progress may rely on.
SaInvito(q) ==
    q.fase # "ferma" =>
        /\ Esiste(invito[q.azienda], q.email)
        /\ q.fase = "deciso" => q.ruolo = "admin" \/ HaAdmin(q.azienda)
        /\ q.fase \in {"creato", "segnato"} => Esiste(cliente, q.email)

\* The inductive invariant.
InvitiInv ==
    /\ InvitiTipi
    /\ LinkDiUnInvito
    /\ LinkSpeso
    /\ \A r \in Accettazioni : SaInvito(accetta[r])
    /\ AziendaHaAdmin
    /\ UnUtentePerLink

-----------------------------------------------------------------------------
(* What companies see of it.                                               *)

Entrati ==
    [e \in Email |-> IF Esiste(cliente, e)
                       THEN [azienda |-> cliente[e].azienda, ruolo |-> cliente[e].ruolo]
                       ELSE Nessuno]

\* The client users behave as UtentiCliente describes: the creation of a user is
\* what is seen, the other writes of an acceptance and the invitations are not.
Utenze == INSTANCE UtentiCliente WITH
    utenti <- Entrati, spesi <- {t \in Token : nati[t] > 0}
UtentiClienteSpec == Utenze!UtentiSpec
=============================================================================
