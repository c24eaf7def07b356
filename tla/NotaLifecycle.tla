---------------------------- MODULE NotaLifecycle ----------------------------
(***************************************************************************)
(* The life of an expense note (nota spese) as its readers may rely on it: *)
(* docs/spec/note-spese-v1.md 4.3 and 4.5, with the decision fields.       *)
(*                                                                         *)
(*   bozza --Invia--> inviata --Decidi--> approvata | respinta             *)
(*   respinta --Invia--> inviata, which forgets the earlier refusal        *)
(*                                                                         *)
(* Nobody decides on a note of their own.  Elimina is not restricted to    *)
(* drafts: the code checks that before the delete and not in it.           *)
(* NoteSpese implements this specification.                                *)
(***************************************************************************)
CONSTANTS Note, Users, Nessuno

VARIABLES
    stato,      \* note_spese.stato; "assente" before creation
    autore,     \* note_spese.user_id
    decisaDa,   \* note_spese.decisa_da_id
    motivo      \* whether note_spese.motivo_rifiuto is set

lifeVars == <<stato, autore, decisaDa, motivo>>

LifeInit ==
    /\ stato = [n \in Note |-> "assente"]
    /\ autore = [n \in Note |-> Nessuno]
    /\ decisaDa = [n \in Note |-> Nessuno]
    /\ motivo = [n \in Note |-> FALSE]

Crea(n, u) ==
    /\ stato[n] = "assente"
    /\ stato' = [stato EXCEPT ![n] = "bozza"]
    /\ autore' = [autore EXCEPT ![n] = u]
    /\ UNCHANGED <<decisaDa, motivo>>

Invia(n) ==
    /\ stato[n] \in {"bozza", "respinta"}
    /\ stato' = [stato EXCEPT ![n] = "inviata"]
    /\ decisaDa' = [decisaDa EXCEPT ![n] = Nessuno]
    /\ motivo' = [motivo EXCEPT ![n] = FALSE]
    /\ UNCHANGED autore

Decidi(n, u, esito) ==
    /\ stato[n] = "inviata"
    /\ u # autore[n]
    /\ stato' = [stato EXCEPT ![n] = esito]
    /\ decisaDa' = [decisaDa EXCEPT ![n] = u]
    /\ motivo' = [motivo EXCEPT ![n] = (esito = "respinta")]
    /\ UNCHANGED autore

Elimina(n) ==
    /\ stato[n] \notin {"assente", "eliminata"}
    /\ stato' = [stato EXCEPT ![n] = "eliminata"]
    /\ UNCHANGED <<autore, decisaDa, motivo>>

LifeNext ==
    \E n \in Note :
        \/ Invia(n) \/ Elimina(n)
        \/ \E u \in Users : Crea(n, u)
        \/ \E u \in Users, esito \in {"approvata", "respinta"} : Decidi(n, u, esito)

LifeSpec == LifeInit /\ [][LifeNext]_lifeVars
=============================================================================
