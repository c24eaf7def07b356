------------------------------ MODULE UtentiCliente ------------------------------
(***************************************************************************)
(* The client users of a tenant as a company knows them: what is left to    *)
(* see of the invitations and of the requests that accept them is who      *)
(* entered, with which link and in which role.                             *)
(*                                                                         *)
(* A link lets one user in, an address is taken once, who enters a company *)
(* without an administrator is its administrator, and nobody changes       *)
(* company or role afterwards.  Inviti implements this specification.      *)
(***************************************************************************)
CONSTANTS Aziende, Email, Token, Nessuno

VARIABLES
    utenti,   \* per address: nothing, or company and role
    spesi     \* the links that have let somebody in

utentiVars == <<utenti, spesi>>

Utente == [azienda : Aziende, ruolo : {"admin", "utente"}]

UtentiInit == utenti = [e \in Email |-> Nessuno] /\ spesi = {}

Amministrata(a) == \E e \in Email : utenti[e] = [azienda |-> a, ruolo |-> "admin"]

Entra(e, t, utente) ==
    /\ utenti[e] = Nessuno
    /\ t \notin spesi
    /\ utente.ruolo = "admin" \/ Amministrata(utente.azienda)
    /\ utenti' = [utenti EXCEPT ![e] = utente]
    /\ spesi' = spesi \cup {t}

UtentiNext == \E e \in Email, t \in Token, utente \in Utente : Entra(e, t, utente)

UtentiSpec == UtentiInit /\ [][UtentiNext]_utentiVars
=============================================================================
