------------------------------ MODULE RegistroThread ------------------------------
(***************************************************************************)
(* The threads of a company as both sides may rely on them: numbered       *)
(* 1, 2, 3 ... in the order they are opened, each with a message from the  *)
(* start; a message is added to a thread that is there, and never moves or *)
(* goes away.  That nobody writes in a closed or deleted thread is not     *)
(* promised: the reply looks at the header first and inserts afterwards.   *)
(* Comunicazioni implements this specification.                            *)
(***************************************************************************)
EXTENDS Naturals

CONSTANTS Thread, Messaggi, Nessuno

VARIABLES
    numeri,      \* the number of a thread
    contenuto,   \* the thread of a message
    ultimo       \* the last number given

registroThreadVars == <<numeri, contenuto, ultimo>>

ThreadInizio ==
    /\ numeri = [t \in Thread |-> Nessuno]
    /\ contenuto = [m \in Messaggi |-> Nessuno]
    /\ ultimo = 0

Scrive(t, m) ==
    /\ contenuto[m] = Nessuno
    /\ contenuto' = [contenuto EXCEPT ![m] = t]

Apre(t, m) ==
    /\ numeri[t] = Nessuno
    /\ ultimo' = ultimo + 1
    /\ numeri' = [numeri EXCEPT ![t] = ultimo + 1]
    /\ Scrive(t, m)

Risponde(t, m) ==
    /\ numeri[t] # Nessuno
    /\ Scrive(t, m)
    /\ UNCHANGED <<numeri, ultimo>>

ThreadPasso == \E t \in Thread, m \in Messaggi : Apre(t, m) \/ Risponde(t, m)

ThreadSpec == ThreadInizio /\ [][ThreadPasso]_registroThreadVars
=============================================================================
