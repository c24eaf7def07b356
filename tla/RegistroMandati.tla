---------------------------- MODULE RegistroMandati ----------------------------
(***************************************************************************)
(* What the mandates of a tenant promise to whoever reads them: they are   *)
(* numbered 1, 2, 3 ... in the order they are issued, a quote has at most  *)
(* one that is not revoked, and quote, number and amount never change.     *)
(***************************************************************************)
EXTENDS Naturals

CONSTANTS Preventivi, Mandati, Importi, Nessuno

VARIABLES
    registro,   \* per id: nothing, or the mandate that was issued
    ultimo      \* number of the last mandate issued

registroVars == <<registro, ultimo>>

Mandato == [preventivo : Preventivi, numero : Nat \ {0}, importo : Importi, vivo : BOOLEAN]

Inizio == registro = [m \in Mandati |-> Nessuno] /\ ultimo = 0

Vivo(m) == registro[m] # Nessuno /\ registro[m].vivo

Emetti(m, p, i) ==
    /\ registro[m] = Nessuno
    /\ \A n \in Mandati : Vivo(n) => registro[n].preventivo # p
    /\ ultimo' = ultimo + 1
    /\ registro' = [registro EXCEPT ![m] =
                      [preventivo |-> p, numero |-> ultimo + 1, importo |-> i, vivo |-> TRUE]]

Revoca(m) ==
    /\ Vivo(m)
    /\ registro' = [registro EXCEPT ![m].vivo = FALSE]
    /\ UNCHANGED ultimo

Passo ==
    \/ \E m \in Mandati, p \in Preventivi, i \in Importi : Emetti(m, p, i)
    \/ \E m \in Mandati : Revoca(m)

RegistroSpec == Inizio /\ [][Passo]_registroVars
=============================================================================
