------------------------------ MODULE RegistroLetture ------------------------------
(***************************************************************************)
(* Circulars and their readings as the studio's report may rely on them.   *)
(*                                                                         *)
(*   bozza --Pubblica--> pubblicata --Archivia--> archiviata               *)
(*                                                                         *)
(* A circular that has been published is no draft again, so that nobody    *)
(* reads a draft; a reading is not forgotten and a confirmation not taken  *)
(* back.  A publication that has read a draft may come after another       *)
(* publication and an archiving, and Pubblica is then seen from            *)
(* 'archiviata': the code checks the state before the update and not in it.*)
(* Circolari implements this specification.                                *)
(***************************************************************************)
CONSTANTS Circolare, Utenti

VARIABLES
    stato,     \* of a circular, 'assente' before it is written
    letture    \* per circular and client user

registroLettureVars == <<stato, letture>>

LettureInizio ==
    /\ stato = [c \in Circolare |-> "assente"]
    /\ letture = [c \in Circolare |-> [u \in Utenti |-> "nessuna"]]

Scritta(c) ==
    /\ stato[c] = "assente"
    /\ stato' = [stato EXCEPT ![c] = "bozza"]
    /\ UNCHANGED letture

Pubblica(c) ==
    /\ stato[c] \in {"bozza", "archiviata"}
    /\ stato' = [stato EXCEPT ![c] = "pubblicata"]
    /\ UNCHANGED letture

Archivia(c) ==
    /\ stato[c] = "pubblicata"
    /\ stato' = [stato EXCEPT ![c] = "archiviata"]
    /\ UNCHANGED letture

Legge(c, u) ==
    /\ stato[c] \in {"pubblicata", "archiviata"}
    /\ letture[c][u] = "nessuna"
    /\ letture' = [letture EXCEPT ![c][u] = "letta"]
    /\ UNCHANGED stato

Conferma(c, u) ==
    /\ stato[c] \in {"pubblicata", "archiviata"}
    /\ letture[c][u] \in {"nessuna", "letta"}
    /\ letture' = [letture EXCEPT ![c][u] = "confermata"]
    /\ UNCHANGED stato

LetturePasso ==
    \E c \in Circolare :
        \/ Scritta(c) \/ Pubblica(c) \/ Archivia(c)
        \/ \E u \in Utenti : Legge(c, u) \/ Conferma(c, u)

LettureSpec == LettureInizio /\ [][LetturePasso]_registroLettureVars
=============================================================================
