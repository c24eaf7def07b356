---- MODULE MCServizi ----
(***************************************************************************)
(* Small instances, for TLC, of components that share no state.  Here a    *)
(* behaviour is one of one component, `scena`; the others keep their       *)
(* initial state.                                                          *)
(***************************************************************************)
EXTENDS Inviti, Circolari, Comunicazioni, CodaApprovazione, Lockout, CacheAccesso,
        ContestoRls, SchedaNota, CatalogoRuoli, TLC

CONSTANTS u1, u2, az1, az2, f1, f2, ta, tb, leggi, scrivi
VARIABLE scena

Appartenenza == (u1 :> az1) @@ (u2 :> az2)

DelTenant == (f1 :> ta) @@ (f2 :> tb)

\* Three releases: the second adds a permission, the third takes one away and
\* adds a template.
Rilasci == {"Super Admin" :> {leggi}, "Super Admin" :> {leggi, scrivi},
            ("Super Admin" :> {scrivi}) @@ ("Collaboratore" :> {scrivi})}

vars == <<scena, invitiVars, circolariVars, comunicazioniVars, codaVars, lockoutVars,
          cacheVars, rlsVars, schedaVars, catalogoVars>>

Init ==
    /\ InvitiInit /\ CircolariInit /\ ComunicazioniInit
    /\ CodaInit /\ LockoutInit /\ CacheInit /\ RlsInit /\ SchedaInit /\ CatalogoInit
    /\ scena \in {"inviti", "circolari", "comunicazioni", "coda", "lockout", "cache", "rls",
                  "scheda", "ruoli"}
    /\ scena # "cache" => vale
    /\ scena # "scheda" => nota = [n \in Scritte |-> Nessuno]
    /\ scena # "ruoli" => codice = "Super Admin" :> {leggi}

Next ==
    \/ /\ scena = "inviti" /\ InvitiNext
       /\ UNCHANGED <<scena, circolariVars, comunicazioniVars, codaVars,
                      lockoutVars, cacheVars, rlsVars, schedaVars, catalogoVars>>
    \/ /\ scena = "circolari" /\ CircolariNext
       /\ UNCHANGED <<scena, invitiVars, comunicazioniVars, codaVars, lockoutVars,
                      cacheVars, rlsVars, schedaVars, catalogoVars>>
    \/ /\ scena = "comunicazioni" /\ ComunicazioniNext
       /\ UNCHANGED <<scena, invitiVars, circolariVars, codaVars, lockoutVars,
                      cacheVars, rlsVars, schedaVars, catalogoVars>>
    \/ /\ scena = "coda" /\ CodaNext
       /\ UNCHANGED <<scena, invitiVars, circolariVars, comunicazioniVars,
                      lockoutVars, cacheVars, rlsVars, schedaVars, catalogoVars>>
    \/ /\ scena = "lockout" /\ LockoutNext
       /\ UNCHANGED <<scena, invitiVars, circolariVars, comunicazioniVars,
                      codaVars, cacheVars, rlsVars, schedaVars, catalogoVars>>
    \/ /\ scena = "cache" /\ CacheNext
       /\ UNCHANGED <<scena, invitiVars, circolariVars, comunicazioniVars,
                      codaVars, lockoutVars, rlsVars, schedaVars, catalogoVars>>
    \/ /\ scena = "rls" /\ RlsNext
       /\ UNCHANGED <<scena, invitiVars, circolariVars, comunicazioniVars,
                      codaVars, lockoutVars, cacheVars, schedaVars, catalogoVars>>
    \/ /\ scena = "scheda" /\ SchedaNext
       /\ UNCHANGED <<scena, invitiVars, circolariVars, comunicazioniVars,
                      codaVars, lockoutVars, cacheVars, rlsVars, catalogoVars>>
    \/ /\ scena = "ruoli" /\ CatalogoNext
       /\ UNCHANGED <<scena, invitiVars, circolariVars, comunicazioniVars,
                      codaVars, lockoutVars, cacheVars, rlsVars, schedaVars>>

Spec == Init /\ [][Next]_vars
====
