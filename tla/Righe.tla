---------------------------------- MODULE Righe ----------------------------------
(***************************************************************************)
(* Rows of a table, shared by the modules of the services: a table is a    *)
(* function from ids to rows, Nessuno where there is none yet.             *)
(***************************************************************************)

CONSTANTS
    Nessuno,     \* null, and a row that is not there
    Aziende      \* the companies of the tenant

Esiste(tabella, k) == tabella[k] # Nessuno
=============================================================================
